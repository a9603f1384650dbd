--------------------------- MODULE SlpAgentProofs ---------------------------
(***************************************************************************)
(* What the SLP agent keeps true.                                          *)
(***************************************************************************)
EXTENDS SlpAgent, LinkedListProofs

-----------------------------------------------------------------------------
(***************************************************************************)
(* The invariant of the types.                                             *)
(***************************************************************************)
Texts == Urls \cup Others \cup {NULL}
Searches == [discover : BOOLEAN, counter : Nat, xmits : Nat, xid : Nat]
DaEntries == [ip : DAs \cup {NULL}, timeout : 0 .. CONFIG_DA_BEAT, counter : 0 .. REFRESH,
              boot : 0 .. MaxBoots]

\* Records of the agent's globals, and packets.
Agents ==
  [dead : BOOLEAN, open : BOOLEAN, closing : BOOLEAN, dda : Searches,
   da : [Slots -> DaEntries], msgs : Seq(Messages), url : Urls \cup {NULL}, reg : BOOLEAN]

Packets ==
  [dir : {"to", "from"}, da : DAs,
   type : {"REG", "DEREG", "SRVRQST", "ATTRRQST", "DISCOVER",
           "DAADVERT", "SVRACK", "SRVRPLY", "ATTRRPLY"},
   xid : Nat, url : Texts, urls : SUBSET (Urls \cup Others), boot : 0 .. MaxBoots,
   ok : BOOLEAN, ttl : Nat]

\* No two messages have one number.
XidsApart(msgs) == \A i, j \in DOMAIN msgs : msgs[i].xid = msgs[j].xid => i = j

\* Slots in use hold different DAs, and their timers run.
SlotsSound(da) ==
  \A k \in Slots : da[k].ip # NULL =>
    /\ da[k].timeout # 0 /\ da[k].counter # 0
    /\ \A j \in Slots \ {k} : da[j].ip # da[k].ip

\* The agent without its slots, and with them.
Tabled(s) ==
  /\ s \in Agents
  /\ XidsApart(s.msgs) /\ Len(s.msgs) <= MAX_RQST
  /\ s.closing => s.open
  /\ s.reg => s.url \in Urls

Sound(s) == Tabled(s) /\ SlotsSound(s.da)

WireOK == net \in SUBSET Packets /\ IsFiniteSet(net)

DasOK == das \in [DAs -> [boot : 0 .. MaxBoots, last : 0 .. MaxBoots, regs : [Urls -> Nat]]]

\* The inductive invariant of the types.
SlpTypes ==
  /\ Sound(slp)
  /\ WireOK
  /\ DasOK
  /\ found \subseteq Others
  /\ gone \subseteq Urls

\* What the constants are.
LEMMA Constants ==
  /\ MAX_DA \in Nat \ {0} /\ MAX_RQST \in Nat \ {0} /\ SLP_RETRIES \in Nat \ {0}
  /\ CONFIG_RETRY \in Nat \ {0} /\ CONFIG_MC_RETRY_COUNT \in Nat \ {0}
  /\ MaxDelay \in Nat \ {0} /\ MaxBoots \in Nat \ {0}
  /\ CONFIG_MC_MAX \in Nat /\ CONFIG_DA_FIND \in Nat /\ CONFIG_START_WAIT \in Nat
  /\ CONFIG_REG_ACTIVE \in Nat /\ MaxAsks \in Nat /\ MaxInFlight \in Nat
  /\ REFRESH \in Nat \ {0} /\ CONFIG_DA_BEAT \in Nat \ {0} /\ LIFETIME \in Nat \ {0}
  /\ REFRESH < CONFIG_DA_BEAT /\ REFRESH < LIFETIME
<1>1. /\ {MAX_DA, MAX_RQST, SLP_RETRIES, CONFIG_RETRY, CONFIG_MC_RETRY_COUNT, MaxDelay,
          MaxBoots} \subseteq Nat \ {0}
      /\ {CONFIG_MC_MAX, CONFIG_DA_FIND, CONFIG_START_WAIT, CONFIG_REG_ACTIVE,
          MaxAsks, MaxInFlight} \subseteq Nat
  BY Sizes, Times
<1>2. /\ MAX_DA \in Nat \ {0} /\ MAX_RQST \in Nat \ {0} /\ SLP_RETRIES \in Nat \ {0}
      /\ CONFIG_RETRY \in Nat \ {0} /\ CONFIG_MC_RETRY_COUNT \in Nat \ {0}
      /\ MaxDelay \in Nat \ {0} /\ MaxBoots \in Nat \ {0}
  BY <1>1
<1>3. /\ CONFIG_MC_MAX \in Nat /\ CONFIG_DA_FIND \in Nat /\ CONFIG_START_WAIT \in Nat
      /\ CONFIG_REG_ACTIVE \in Nat /\ MaxAsks \in Nat /\ MaxInFlight \in Nat
  BY <1>1
<1> QED
  BY <1>2, <1>3, Times

\* NULL is no DA and no URL.
LEMMA NullIs == NULL \notin DAs /\ NULL \notin Urls /\ NULL \notin Others
BY NullIsNothing

\* The numbers in use are numbers, and finitely many.
LEMMA XidsFinite ==
  ASSUME NEW s \in Agents, WireOK
  PROVE  Xids(s) \in SUBSET Nat /\ IsFiniteSet(Xids(s))
<1> DEFINE ofMsgs == {s.msgs[i].xid : i \in DOMAIN s.msgs}
           ofNet == {p.xid : p \in net}
<1>1. s.msgs \in Seq(Messages) /\ s.dda \in Searches
  BY DEF Agents
<1>2. DOMAIN s.msgs = 1 .. Len(s.msgs) /\ Len(s.msgs) \in Nat
      /\ \A i \in DOMAIN s.msgs : s.msgs[i] \in Messages
  BY <1>1
<1>3. ofMsgs \in SUBSET Nat /\ ofNet \in SUBSET Nat /\ s.dda.xid \in Nat
  <2>1. ofMsgs \in SUBSET Nat
    BY <1>2 DEF Messages
  <2>2. ofNet \in SUBSET Nat
    BY DEF WireOK, Packets
  <2>3. s.dda.xid \in Nat
    BY <1>1 DEF Searches
  <2> QED
    BY <2>1, <2>2, <2>3
<1>4. IsFiniteSet(ofMsgs)
  <2> DEFINE f == [i \in DOMAIN s.msgs |-> s.msgs[i].xid]
  <2>1. f \in Surjection(DOMAIN s.msgs, ofMsgs)
    BY DEF Surjection
  <2>2. IsFiniteSet(DOMAIN s.msgs)
    BY <1>2, FS_Interval
  <2> QED
    BY <2>1, <2>2, FS_Surjection
<1>5. IsFiniteSet(ofNet)
  <2> DEFINE f == [p \in net |-> p.xid]
  <2>1. f \in Surjection(net, ofNet)
    BY DEF Surjection
  <2> QED
    BY <2>1, FS_Surjection DEF WireOK
<1>6. IsFiniteSet(ofMsgs \cup ofNet)
  BY <1>4, <1>5, FS_Union
<1>7. IsFiniteSet((ofMsgs \cup ofNet) \cup {s.dda.xid})
  BY <1>6, FS_AddElement
<1> QED
  BY <1>3, <1>7 DEF Xids

\* A new number is a number of nothing that is around.
LEMMA NewXidIs ==
  ASSUME NEW s \in Agents, WireOK
  PROVE  NewXid(s) \in Nat \ {0} /\ NewXid(s) \notin Xids(s)
<1> DEFINE X == Xids(s)
           n == Cardinality(X) + 1
           free == {x \in 1 .. n : x \notin X}
<1>1. X \in SUBSET Nat /\ IsFiniteSet(X) /\ Cardinality(X) \in Nat
  BY XidsFinite, FS_CardinalityType
<1>2. n \in Nat /\ n > Cardinality(X)
  BY <1>1
<1>3. Cardinality(1 .. n) = n
  <2> HIDE DEF n
  <2> QED
    BY <1>1, <1>2, FS_Interval
<1>4. free # {}
  <2> SUFFICES ASSUME free = {} PROVE FALSE
    OBVIOUS
  <2>1. (1 .. n) \in SUBSET X
    OBVIOUS
  <2>2. Cardinality(1 .. n) <= Cardinality(X)
    BY <1>1, <2>1, FS_Subset
  <2> HIDE DEF n
  <2> QED
    BY <1>1, <1>2, <1>3, <2>2
<1>5. free \in SUBSET Nat
  OBVIOUS
<1>6. PICK x \in free : \A y \in free : x <= y
  BY <1>4, <1>5, Smallest
<1>7. \A y \in 1 .. x - 1 : y \in 1 .. n /\ ~(x <= y)
  BY <1>2, <1>6
<1>8. \A y \in 1 .. x - 1 : y \in X
  BY <1>6, <1>7
<1>9. NewXid(s) \in 1 .. n /\ NewXid(s) \notin X
  <2>1. \E z \in 1 .. n : z \notin X /\ \A y \in 1 .. z - 1 : y \in X
    BY <1>6, <1>8
  <2>2. NewXid(s) = CHOOSE z \in 1 .. n : z \notin X /\ \A y \in 1 .. z - 1 : y \in X
    BY DEF NewXid
  <2> HIDE DEF X, n
  <2> QED
    BY <2>1, <2>2
<1> QED
  BY <1>2, <1>9

-----------------------------------------------------------------------------
(***************************************************************************)
(* The tables.                                                             *)
(***************************************************************************)
\* What is known of the fields of an agent.
LEMMA AgentFields ==
  ASSUME NEW s, Tabled(s)
  PROVE  /\ s \in Agents
         /\ s.dead \in BOOLEAN /\ s.open \in BOOLEAN /\ s.closing \in BOOLEAN
         /\ s.reg \in BOOLEAN
         /\ s.dda \in Searches /\ s.da \in [Slots -> DaEntries] /\ s.msgs \in Seq(Messages)
         /\ Len(s.msgs) \in Nat /\ Len(s.msgs) <= MAX_RQST
         /\ DOMAIN s.msgs = 1 .. Len(s.msgs)
         /\ \A i \in DOMAIN s.msgs : s.msgs[i] \in Messages
         /\ s.url \in Urls \cup {NULL}
<1>1. s \in Agents /\ Len(s.msgs) <= MAX_RQST
  BY DEF Tabled
<1>2. /\ s.dead \in BOOLEAN /\ s.open \in BOOLEAN /\ s.closing \in BOOLEAN
      /\ s.reg \in BOOLEAN
      /\ s.dda \in Searches /\ s.da \in [Slots -> DaEntries] /\ s.msgs \in Seq(Messages)
      /\ s.url \in Urls \cup {NULL}
  BY <1>1 DEF Agents
<1> HIDE DEF Agents, Searches, DaEntries, Messages
<1>3. Len(s.msgs) \in Nat /\ DOMAIN s.msgs = 1 .. Len(s.msgs)
      /\ \A i \in DOMAIN s.msgs : s.msgs[i] \in Messages
  BY <1>2
<1> QED
  BY <1>1, <1>2, <1>3

\* Another list of messages.
LEMMA OtherMsgs ==
  ASSUME NEW s, Tabled(s), NEW q \in Seq(Messages), XidsApart(q), Len(q) <= MAX_RQST,
         NEW t, t = [s EXCEPT !.msgs = q]
  PROVE  /\ Tabled(t) /\ t.msgs = q
         /\ t.dead = s.dead /\ t.open = s.open /\ t.closing = s.closing /\ t.dda = s.dda
         /\ t.da = s.da /\ t.url = s.url /\ t.reg = s.reg
BY DEF Tabled, Agents

\* Another table of DAs.
LEMMA OtherDas ==
  ASSUME NEW s, Tabled(s), NEW da \in [Slots -> DaEntries],
         NEW t, t = [s EXCEPT !.da = da]
  PROVE  /\ Tabled(t) /\ t.da = da /\ t.msgs = s.msgs
         /\ t.dead = s.dead /\ t.open = s.open /\ t.closing = s.closing /\ t.dda = s.dda
         /\ t.url = s.url /\ t.reg = s.reg
BY DEF Tabled, Agents

\* Nothing is registered any more.
LEMMA NoReg ==
  ASSUME NEW s, Tabled(s), NEW t, t = [s EXCEPT !.reg = FALSE]
  PROVE  /\ Tabled(t) /\ t.reg = FALSE /\ t.msgs = s.msgs
         /\ t.dead = s.dead /\ t.open = s.open /\ t.closing = s.closing /\ t.dda = s.dda
         /\ t.url = s.url /\ t.da = s.da
BY DEF Tabled, Agents

\* Another search.
LEMMA OtherSearch ==
  ASSUME NEW s, Tabled(s), NEW dda \in Searches,
         NEW t, t = [s EXCEPT !.dda = dda]
  PROVE  /\ Tabled(t) /\ t.dda = dda /\ t.msgs = s.msgs
         /\ t.dead = s.dead /\ t.open = s.open /\ t.closing = s.closing
         /\ t.url = s.url /\ t.da = s.da /\ t.reg = s.reg
BY DEF Tabled, Agents

\* One entry of the table of DAs.
LEMMA EntrySound ==
  ASSUME NEW da \in [Slots -> DaEntries], NEW k \in Slots, NEW e \in DaEntries,
         NEW others, others = [da EXCEPT ![k] = e],
         \A j \in Slots \ {k} : da[j].ip # NULL =>
           /\ da[j].timeout # 0 /\ da[j].counter # 0
           /\ \A i \in Slots \ {j, k} : da[i].ip # da[j].ip,
         e.ip # NULL => /\ e.timeout # 0 /\ e.counter # 0
                        /\ \A j \in Slots \ {k} : da[j].ip # e.ip
  PROVE  others \in [Slots -> DaEntries] /\ SlotsSound(others)
         /\ others[k] = e /\ \A j \in Slots \ {k} : others[j] = da[j]
<1>1. others \in [Slots -> DaEntries] /\ others[k] = e
      /\ \A j \in Slots \ {k} : others[j] = da[j]
  OBVIOUS
<1> HIDE DEF DaEntries
<1>2. ASSUME NEW j \in Slots, others[j].ip # NULL
      PROVE  /\ others[j].timeout # 0 /\ others[j].counter # 0
             /\ \A i \in Slots \ {j} : others[i].ip # others[j].ip
  <2>1. CASE j = k
    BY <1>1, <1>2, <2>1
  <2>2. CASE j # k
    <3>1. others[j] = da[j] /\ da[j].ip # NULL
      BY <1>1, <1>2, <2>2
    <3>2. \A i \in Slots \ {j, k} : others[i] = da[i] /\ da[i].ip # da[j].ip
      BY <1>1, <2>2, <3>1
    <3>3. others[k].ip # da[j].ip
      BY <1>1, <2>2, <3>1
    <3>4. da[j].timeout # 0 /\ da[j].counter # 0
      BY <2>2, <3>1
    <3> QED
      BY <3>1, <3>2, <3>3, <3>4
  <2> QED
    BY <2>1, <2>2
<1>3. SlotsSound(others)
  BY <1>2 DEF SlotsSound
<1> QED
  BY <1>1, <1>3

\* What a message is for, whenever it is sent next.
Entry(m) == [type |-> m.type, slot |-> m.slot, url |-> m.url, xid |-> m.xid]
EntriesOf(q) == {Entry(q[i]) : i \in DOMAIN q}
Entries(s) == EntriesOf(s.msgs)

\* t is s but for its messages.
SameButMsgs(s, t) ==
  /\ t.da = s.da /\ t.dead = s.dead /\ t.open = s.open /\ t.closing = s.closing
  /\ t.dda = s.dda /\ t.url = s.url /\ t.reg = s.reg

\* A new message stands before the others, or there was no room.
LEMMA MsgNewIs ==
  ASSUME NEW s, Tabled(s), WireOK, NEW type \in {"REG", "DEREG", "SRVRQST", "ATTRRQST"},
         NEW slot \in Slots, NEW url \in Texts, NEW delay \in Nat,
         NEW t, t = msg_new(s, type, slot, url, delay)
  PROVE  /\ Tabled(t) /\ SameButMsgs(s, t)
         /\ \/ Len(s.msgs) = MAX_RQST /\ t = s
            \/ /\ Len(t.msgs) = Len(s.msgs) + 1
               /\ Entries(t) = Entries(s) \cup
                    {[type |-> type, slot |-> slot, url |-> url, xid |-> NewXid(s)]}
<1>1. CASE Len(s.msgs) = MAX_RQST
  BY <1>1 DEF msg_new, SameButMsgs
<1>2. CASE Len(s.msgs) # MAX_RQST
  <2> DEFINE m == [type |-> type, xid |-> NewXid(s), slot |-> slot, url |-> url,
                   counter |-> delay, retries |-> SLP_RETRIES]
             q == <<m>> \o s.msgs
  <2>1. s \in Agents /\ s.msgs \in Seq(Messages) /\ Len(s.msgs) \in Nat /\ Len(s.msgs) <= MAX_RQST
        /\ DOMAIN s.msgs = 1 .. Len(s.msgs)
    BY AgentFields
  <2>2. NewXid(s) \in Nat \ {0} /\ NewXid(s) \notin Xids(s)
    BY <2>1, NewXidIs
  <2>3. m \in Messages
    BY <2>2, Constants DEF Messages, Texts
  <2>4. m.type = type /\ m.slot = slot /\ m.url = url /\ m.xid = NewXid(s)
    OBVIOUS
  <2>5. \A i \in DOMAIN s.msgs : s.msgs[i].xid # NewXid(s)
    BY <2>2 DEF Xids
  <2>6. t = [s EXCEPT !.msgs = q]
    BY <1>2 DEF msg_new
  <2> HIDE DEF m
  <2>7. /\ q \in Seq(Messages) /\ Len(q) = Len(s.msgs) + 1 /\ q[1] = m
        /\ \A i \in 2 .. Len(s.msgs) + 1 : q[i] = s.msgs[i - 1]
    BY <2>1, <2>3, SlotBefore
  <2> HIDE DEF q
  <2>8. DOMAIN q = 1 .. Len(s.msgs) + 1
    BY <2>1, <2>7
  <2>9. Len(q) <= MAX_RQST
    BY <1>2, <2>1, <2>7, Constants
  <2>10. \A i \in DOMAIN q : i = 1 \/ (i \in 2 .. Len(s.msgs) + 1 /\ i - 1 \in DOMAIN s.msgs)
    BY <2>1, <2>8
  <2>11. XidsApart(q)
    <3> SUFFICES ASSUME NEW i \in DOMAIN q, NEW j \in DOMAIN q, q[i].xid = q[j].xid PROVE i = j
      BY DEF XidsApart
    <3>1. CASE i = 1
      BY <2>4, <2>5, <2>7, <2>10, <3>1
    <3>2. CASE j = 1
      BY <2>4, <2>5, <2>7, <2>10, <3>2
    <3>3. CASE i # 1 /\ j # 1
      <4>1. /\ i - 1 \in DOMAIN s.msgs /\ j - 1 \in DOMAIN s.msgs
            /\ q[i] = s.msgs[i - 1] /\ q[j] = s.msgs[j - 1]
        BY <2>7, <2>10, <3>3
      <4>2. i - 1 = j - 1
        BY <4>1 DEF Tabled, XidsApart
      <4> QED
        BY <2>8, <4>2
    <3> QED
      BY <3>1, <3>2, <3>3
  <2>12. /\ Tabled(t) /\ t.msgs = q
         /\ t.dead = s.dead /\ t.open = s.open /\ t.closing = s.closing /\ t.dda = s.dda
         /\ t.da = s.da /\ t.url = s.url /\ t.reg = s.reg
    BY <2>6, <2>7, <2>9, <2>11, OtherMsgs
  <2>13. Entry(m) = [type |-> type, slot |-> slot, url |-> url, xid |-> NewXid(s)]
    BY <2>4 DEF Entry
  <2>14. EntriesOf(q) = EntriesOf(s.msgs) \cup {Entry(m)}
    <3>1. \A i \in DOMAIN q : Entry(q[i]) \in EntriesOf(s.msgs) \cup {Entry(m)}
      BY <2>7, <2>10 DEF EntriesOf
    <3>2. Entry(m) \in EntriesOf(q)
      BY <2>1, <2>7, <2>8 DEF EntriesOf
    <3>3. \A i \in DOMAIN s.msgs : Entry(s.msgs[i]) \in EntriesOf(q)
      <4> SUFFICES ASSUME NEW i \in DOMAIN s.msgs PROVE Entry(s.msgs[i]) \in EntriesOf(q)
        OBVIOUS
      <4>1. i + 1 \in DOMAIN q /\ i + 1 \in 2 .. Len(s.msgs) + 1 /\ (i + 1) - 1 = i
        BY <2>1, <2>8
      <4>2. q[i + 1] = s.msgs[i]
        BY <2>7, <4>1
      <4> QED
        BY <4>1, <4>2 DEF EntriesOf
    <3> QED
      BY <3>1, <3>2, <3>3 DEF EntriesOf
  <2>15. SameButMsgs(s, t)
    BY <2>12 DEF SameButMsgs
  <2>16. Len(t.msgs) = Len(s.msgs) + 1 /\ Entries(t) = Entries(s) \cup {Entry(m)}
    BY <2>7, <2>12, <2>14 DEF Entries
  <2> QED
    BY <2>12, <2>13, <2>15, <2>16
<1> QED
  BY <1>1, <1>2

\* The numbers in use, by what uses them.
LEMMA XidsAre ==
  ASSUME NEW s, Tabled(s)
  PROVE  Xids(s) = {e.xid : e \in Entries(s)} \cup {p.xid : p \in net} \cup {s.dda.xid}
<1>1. \A i \in DOMAIN s.msgs : Entry(s.msgs[i]).xid = s.msgs[i].xid
  BY DEF Entry
<1>2. {e.xid : e \in Entries(s)} = {Entry(s.msgs[i]).xid : i \in DOMAIN s.msgs}
  BY DEF Entries, EntriesOf
<1>3. {Entry(s.msgs[i]).xid : i \in DOMAIN s.msgs} = {s.msgs[i].xid : i \in DOMAIN s.msgs}
  BY <1>1
<1> QED
  BY <1>2, <1>3 DEF Xids

\* t is s but for its table of DAs, of which only slot k differs.
SameButSlot(s, t, k) ==
  /\ \A j \in Slots \ {k} : t.da[j] = s.da[j]
  /\ t.msgs = s.msgs /\ t.dead = s.dead /\ t.open = s.open /\ t.closing = s.closing
  /\ t.dda = s.dda /\ t.url = s.url /\ t.reg = s.reg

\* Sound apart from slot k.
SoundBut(s, k) ==
  /\ Tabled(s)
  /\ \A j \in Slots \ {k} : s.da[j].ip # NULL =>
       /\ s.da[j].timeout # 0 /\ s.da[j].counter # 0
       /\ \A i \in Slots \ {j, k} : s.da[i].ip # s.da[j].ip

\* An agent is sound apart from any of its slots.
LEMMA SoundIsBut ==
  ASSUME NEW s, Sound(s), NEW k \in Slots
  PROVE  SoundBut(s, k)
BY DEF Sound, SoundBut, SlotsSound

\* What is in an entry of the table of DAs.
LEMMA DaFields ==
  ASSUME NEW s, Tabled(s), NEW k \in Slots
  PROVE  /\ s.da[k] \in DaEntries /\ s.da[k].ip \in DAs \cup {NULL}
         /\ s.da[k].timeout \in 0 .. CONFIG_DA_BEAT /\ s.da[k].counter \in 0 .. REFRESH
         /\ s.da[k].boot \in 0 .. MaxBoots
<1>1. s.da[k] \in DaEntries
  BY AgentFields
<1> QED
  BY <1>1 DEF DaEntries

\* Another entry in slot k, and one that fits there.
SetSlot(s, k, e) == [s EXCEPT !.da[k] = e]

Fits(s, k, e) ==
  e.ip # NULL => /\ e.timeout # 0 /\ e.counter # 0
                 /\ \A j \in Slots \ {k} : s.da[j].ip # e.ip

\* One entry of the table is replaced.
LEMMA SlotIs ==
  ASSUME NEW s, NEW k \in Slots, SoundBut(s, k), NEW e \in DaEntries,
         NEW t, t = SetSlot(s, k, e)
  PROVE  /\ SoundBut(t, k) /\ SameButSlot(s, t, k) /\ t.da[k] = e
         /\ Fits(s, k, e) => Sound(t)
<1> DEFINE da == [s.da EXCEPT ![k] = e]
<1>1. Tabled(s) /\ s.da \in [Slots -> DaEntries]
  BY AgentFields DEF SoundBut
<1>2. da \in [Slots -> DaEntries] /\ da[k] = e /\ \A j \in Slots \ {k} : da[j] = s.da[j]
  BY <1>1
<1>3. t = [s EXCEPT !.da = da]
  BY DEF SetSlot
<1> HIDE DEF da
<1>4. /\ Tabled(t) /\ t.da = da /\ t.msgs = s.msgs
      /\ t.dead = s.dead /\ t.open = s.open /\ t.closing = s.closing /\ t.dda = s.dda
      /\ t.url = s.url /\ t.reg = s.reg
  BY <1>1, <1>2, <1>3, OtherDas
<1>5. SameButSlot(s, t, k) /\ t.da[k] = e
  BY <1>2, <1>4 DEF SameButSlot
<1>6. SoundBut(t, k)
  BY <1>2, <1>4 DEF SoundBut
<1>7. ASSUME Fits(s, k, e)
      PROVE  Sound(t)
  <2>1. SlotsSound(da)
    BY <1>1, <1>7, EntrySound DEF SoundBut, Fits, da
  <2> QED
    BY <1>4, <2>1 DEF Sound
<1> QED
  BY <1>5, <1>6, <1>7

\* A free slot.
LEMMA EmptyIs == EmptySlot \in DaEntries /\ EmptySlot.ip = NULL
BY Constants DEF EmptySlot, DaEntries

\* da_delete.
LEMMA DaDeleteIs ==
  ASSUME NEW s, NEW k \in Slots, SoundBut(s, k), NEW t, t = da_delete(s, k)
  PROVE  Sound(t) /\ SameButSlot(s, t, k) /\ t.da[k] = EmptySlot
<1> DEFINE e == EmptySlot
<1>1. e \in DaEntries /\ e.ip = NULL
  BY EmptyIs
<1>2. t = SetSlot(s, k, e)
  BY DEF da_delete, SetSlot
<1> HIDE DEF e
<1>3. Fits(s, k, e)
  BY <1>1 DEF Fits
<1>4. Sound(t) /\ SameButSlot(s, t, k) /\ t.da[k] = e
  BY <1>1, <1>2, <1>3, SlotIs
<1> QED
  BY <1>4 DEF e

\* da_service_ack: the DA may be silent for a while again.
LEMMA ServiceAckIs ==
  ASSUME NEW s, NEW k \in Slots, Sound(s), NEW t, t = da_service_ack(s, k)
  PROVE  /\ Sound(t) /\ SameButSlot(s, t, k)
         /\ t.da[k].ip = s.da[k].ip /\ t.da[k].boot = s.da[k].boot
         /\ t.da[k].counter = s.da[k].counter
<1>1. CASE s.da[k].ip = NULL
  BY <1>1 DEF da_service_ack, SameButSlot
<1>2. CASE s.da[k].ip # NULL
  <2> DEFINE e == [s.da[k] EXCEPT !.timeout = CONFIG_DA_BEAT]
  <2>1. /\ s.da[k] \in DaEntries /\ Tabled(s)
        /\ s.da[k].counter # 0 /\ \A j \in Slots \ {k} : s.da[j].ip # s.da[k].ip
    BY <1>2, DaFields DEF Sound, SlotsSound
  <2>2. /\ e \in DaEntries /\ e.timeout # 0
        /\ e.ip = s.da[k].ip /\ e.boot = s.da[k].boot /\ e.counter = s.da[k].counter
    BY <2>1, Constants DEF DaEntries
  <2>3. t = SetSlot(s, k, e)
    BY <1>2 DEF da_service_ack, SetSlot
  <2> HIDE DEF e
  <2>4. SoundBut(s, k) /\ Fits(s, k, e)
    BY <2>1, <2>2, SoundIsBut DEF Fits
  <2> QED
    BY <2>1, <2>2, <2>3, <2>4, SlotIs
<1> QED
  BY <1>1, <1>2

RegEntry(k, url, x) == [type |-> "REG", slot |-> k, url |-> url, xid |-> x]

\* What is registered is told to the DA of slot k, under number x, if there is room.
Told(s, t, k, x) ==
  /\ x \in Nat \ {0} /\ x \notin Xids(s)
  /\ Entries(s) \subseteq Entries(t)
  /\ Entries(t) \subseteq Entries(s) \cup {RegEntry(k, s.url, x)}
  /\ Len(t.msgs) <= Len(s.msgs) + 1
  /\ s.reg /\ Len(s.msgs) < MAX_RQST => RegEntry(k, s.url, x) \in Entries(t)

\* t is s but for its messages and slot k.
SameBut(s, t, k) ==
  /\ \A j \in Slots \ {k} : t.da[j] = s.da[j]
  /\ t.dead = s.dead /\ t.open = s.open /\ t.closing = s.closing
  /\ t.dda = s.dda /\ t.url = s.url /\ t.reg = s.reg

\* da_reg.
LEMMA DaRegIs ==
  ASSUME NEW s, NEW k \in Slots, SoundBut(s, k), WireOK, NEW delay \in Nat,
         s.da[k].ip # NULL => s.da[k].timeout # 0
                              /\ \A j \in Slots \ {k} : s.da[j].ip # s.da[k].ip,
         NEW t, t = da_reg(s, k, delay)
  PROVE  /\ Sound(t) /\ SameBut(s, t, k) /\ Told(s, t, k, NewXid(s))
         /\ t.da[k].ip = s.da[k].ip /\ t.da[k].boot = s.da[k].boot
         /\ t.da[k].counter = REFRESH
<1> DEFINE r == IF s.reg THEN da_reg_prop(s, k, delay) ELSE s
           e == [r.da[k] EXCEPT !.counter = REFRESH]
           x == NewXid(s)
<1>1. Tabled(s) /\ s \in Agents /\ Len(s.msgs) \in Nat
  BY AgentFields DEF SoundBut
<1>2. x \in Nat \ {0} /\ x \notin Xids(s)
  BY <1>1, NewXidIs
<1>3. /\ Tabled(r) /\ SameButMsgs(s, r)
      /\ Entries(s) \subseteq Entries(r)
      /\ Entries(r) \subseteq Entries(s) \cup {RegEntry(k, s.url, x)}
      /\ Len(r.msgs) <= Len(s.msgs) + 1
      /\ s.reg /\ Len(s.msgs) < MAX_RQST => RegEntry(k, s.url, x) \in Entries(r)
  <2>1. CASE ~s.reg
    BY <1>1, <2>1 DEF SameButMsgs
  <2>2. CASE s.reg
    <3>1. s.url \in Texts
      BY <1>1, <2>2 DEF Tabled, Texts
    <3>2. r = msg_new(s, "REG", k, s.url, delay)
      BY <2>2 DEF da_reg_prop
    <3> HIDE DEF r
    <3>3. /\ Tabled(r) /\ SameButMsgs(s, r)
          /\ \/ Len(s.msgs) = MAX_RQST /\ r = s
             \/ /\ Len(r.msgs) = Len(s.msgs) + 1
                /\ Entries(r) = Entries(s) \cup
                     {[type |-> "REG", slot |-> k, url |-> s.url, xid |-> NewXid(s)]}
      BY <1>1, <3>1, <3>2, MsgNewIs
    <3> QED
      BY <1>1, <3>3, Constants DEF RegEntry
  <2> QED
    BY <2>1, <2>2
<1>4. t = SetSlot(r, k, e)
  BY DEF da_reg, SetSlot
<1> HIDE DEF r
<1>5. r.da = s.da /\ SoundBut(r, k)
  BY <1>3 DEF SameButMsgs, SoundBut
<1>6. r.da[k] \in DaEntries
  BY <1>3, DaFields
<1>7. /\ e \in DaEntries /\ e.counter = REFRESH /\ e.counter # 0
      /\ e.ip = s.da[k].ip /\ e.boot = s.da[k].boot /\ e.timeout = s.da[k].timeout
  BY <1>5, <1>6, Constants DEF DaEntries
<1> HIDE DEF e
<1>8. SameButSlot(r, t, k) /\ t.da[k] = e /\ Sound(t)
  <2>1. Fits(r, k, e)
    BY <1>5, <1>7 DEF Fits
  <2> QED
    BY <1>4, <1>5, <1>7, <2>1, SlotIs
<1>9. SameBut(s, t, k) /\ t.msgs = r.msgs
  BY <1>3, <1>8 DEF SameBut, SameButMsgs, SameButSlot
<1>10. Told(s, t, k, x)
  BY <1>2, <1>3, <1>9 DEF Told, Entries
<1> QED
  BY <1>7, <1>8, <1>9, <1>10

\* A tick of slot k: nothing is there, the DA is dropped, its timers run, or what
\* is registered is told to it once more.
Ticked(s, t, k) ==
  \/ s.da[k].ip = NULL /\ t = s
  \/ t.da[k] = EmptySlot /\ t.msgs = s.msgs
  \/ /\ s.da[k].ip # NULL /\ t.da[k].ip = s.da[k].ip /\ t.da[k].boot = s.da[k].boot
     /\ \/ t.msgs = s.msgs /\ t.da[k].counter = s.da[k].counter - 1
        \/ t.da[k].counter = REFRESH /\ \E x : Told(s, t, k, x)

\* Told does not depend on the table of DAs.
LEMMA ToldFrom ==
  ASSUME NEW s, NEW r, r.msgs = s.msgs, r.dda = s.dda, r.url = s.url, r.reg = s.reg,
         NEW t, NEW k, NEW x, Told(r, t, k, x)
  PROVE  Told(s, t, k, x)
<1>1. Xids(r) = Xids(s) /\ Entries(r) = Entries(s)
  BY DEF Xids, Entries
<1> QED
  BY <1>1 DEF Told

\* TickDa.
LEMMA TickDaIs ==
  ASSUME NEW s, Sound(s), WireOK, NEW k \in Slots, NEW delay \in Nat,
         NEW t, t = TickDa(s, k, delay)
  PROVE  Sound(t) /\ SameBut(s, t, k) /\ Ticked(s, t, k)
<1>1. CASE s.da[k].ip = NULL
  BY <1>1 DEF TickDa, SameBut, Ticked
<1>2. CASE s.da[k].ip # NULL
  <2> DEFINE e == [s.da[k] EXCEPT !.timeout = @ - 1]
             a == [s EXCEPT !.da[k].timeout = @ - 1]
             g == [e EXCEPT !.counter = @ - 1]
             r == [a EXCEPT !.da[k].counter = @ - 1]
  <2>0. t = CASE a.da[k].timeout = 0 -> da_delete(a, k)
               [] a.da[k].timeout # 0 /\ r.da[k].counter = 0 -> da_reg(r, k, delay)
               [] a.da[k].timeout # 0 /\ r.da[k].counter # 0 -> r
    <3> DEFINE out == CASE a.da[k].timeout = 0 -> da_delete(a, k)
                        [] a.da[k].timeout # 0 /\ r.da[k].counter = 0 -> da_reg(r, k, delay)
                        [] a.da[k].timeout # 0 /\ r.da[k].counter # 0 -> r
    <3>1. t = CASE s.da[k].ip = NULL -> s
                [] s.da[k].ip # NULL /\ a.da[k].timeout = 0 -> da_delete(a, k)
                [] s.da[k].ip # NULL /\ a.da[k].timeout # 0 /\ r.da[k].counter = 0 ->
                     da_reg(r, k, delay)
                [] s.da[k].ip # NULL /\ a.da[k].timeout # 0 /\ r.da[k].counter # 0 -> r
      BY DEF TickDa
    <3> HIDE DEF a, r
    <3> QED
      BY <1>2, <3>1
  <2>1. /\ s.da[k] \in DaEntries
        /\ s.da[k].timeout \in 0 .. CONFIG_DA_BEAT /\ s.da[k].counter \in 0 .. REFRESH
        /\ s.da[k].timeout # 0 /\ s.da[k].counter # 0
        /\ \A j \in Slots \ {k} : s.da[j].ip # s.da[k].ip
    BY <1>2, DaFields DEF Sound, SlotsSound
  <2>2. /\ s.da[k].timeout - 1 \in 0 .. CONFIG_DA_BEAT
        /\ s.da[k].counter - 1 \in 0 .. REFRESH
    BY <2>1, Constants
  <2>3. /\ e \in DaEntries /\ e.ip = s.da[k].ip /\ e.boot = s.da[k].boot
        /\ e.counter = s.da[k].counter /\ e.timeout = s.da[k].timeout - 1
    BY <2>1, <2>2 DEF DaEntries
  <2>4. /\ g \in DaEntries /\ g.ip = s.da[k].ip /\ g.boot = s.da[k].boot
        /\ g.counter = s.da[k].counter - 1 /\ g.timeout = e.timeout
    <3> HIDE DEF e
    <3> QED
      BY <2>2, <2>3 DEF DaEntries
  <2>5. a = SetSlot(s, k, e)
    BY DEF SetSlot
  <2>6. SoundBut(s, k)
    BY SoundIsBut
  <2> HIDE DEF a, e
  <2>7. SoundBut(a, k) /\ SameButSlot(s, a, k) /\ a.da[k] = e
    BY <2>3, <2>5, <2>6, SlotIs
  <2>8. r = SetSlot(a, k, g)
    BY <2>7 DEF SetSlot
  <2> HIDE DEF g
  <2>9. \A j \in Slots \ {k} : a.da[j].ip # s.da[k].ip
    BY <2>1, <2>7 DEF SameButSlot
  <2> HIDE DEF r
  <2>10. /\ SoundBut(r, k) /\ SameButSlot(a, r, k) /\ r.da[k] = g
         /\ Fits(a, k, g) => Sound(r)
    BY <2>4, <2>7, <2>8, SlotIs
  <2>11. SameButSlot(s, r, k)
    BY <2>7, <2>10 DEF SameButSlot
  <2>13. CASE a.da[k].timeout = 0
    <3>1. t = da_delete(a, k)
      BY <2>0, <2>13
    <3>2. Sound(t) /\ SameButSlot(a, t, k) /\ t.da[k] = EmptySlot
      BY <2>7, <3>1, DaDeleteIs
    <3>3. SameBut(s, t, k) /\ t.msgs = s.msgs
      BY <2>7, <3>2 DEF SameButSlot, SameBut
    <3> QED
      BY <3>2, <3>3 DEF Ticked
  <2>14. CASE a.da[k].timeout # 0 /\ r.da[k].counter = 0
    <3>1. t = da_reg(r, k, delay)
      BY <2>0, <2>14
    <3>2. r.da[k].ip = s.da[k].ip /\ r.da[k].boot = s.da[k].boot /\ r.da[k].timeout # 0
          /\ \A j \in Slots \ {k} : r.da[j].ip # r.da[k].ip
      BY <2>1, <2>4, <2>7, <2>10, <2>11, <2>14 DEF SameButSlot
    <3>3. /\ Sound(t) /\ SameBut(r, t, k) /\ Told(r, t, k, NewXid(r))
          /\ t.da[k].ip = r.da[k].ip /\ t.da[k].boot = r.da[k].boot
          /\ t.da[k].counter = REFRESH
      BY <2>10, <3>1, <3>2, DaRegIs
    <3>4. SameBut(s, t, k)
      BY <2>11, <3>3 DEF SameButSlot, SameBut
    <3>5. Told(s, t, k, NewXid(r))
      BY <2>11, <3>3, ToldFrom DEF SameButSlot
    <3> QED
      BY <1>2, <3>2, <3>3, <3>4, <3>5 DEF Ticked
  <2>15. CASE a.da[k].timeout # 0 /\ r.da[k].counter # 0
    <3>1. t = r
      BY <2>0, <2>15
    <3>2. Fits(a, k, g)
      BY <2>4, <2>7, <2>9, <2>10, <2>15 DEF Fits
    <3>3. Sound(t) /\ SameBut(s, t, k) /\ t.msgs = s.msgs
      BY <2>10, <2>11, <3>1, <3>2 DEF SameButSlot, SameBut
    <3>4. /\ t.da[k].ip = s.da[k].ip /\ t.da[k].boot = s.da[k].boot
          /\ t.da[k].counter = s.da[k].counter - 1
      BY <2>4, <2>10, <3>1
    <3> QED
      BY <1>2, <3>3, <3>4 DEF Ticked
  <2> QED
    BY <2>13, <2>14, <2>15
<1> QED
  BY <1>1, <1>2

\* FirstSlot.
LEMMA FirstSlotIs ==
  ASSUME NEW S \in SUBSET Nat
  PROVE  (S = {} => FirstSlot(S) = 0) /\ (S # {} => FirstSlot(S) \in S)
<1>1. S # {} => \E k \in S : \A j \in S : k <= j
  BY Smallest
<1> QED
  BY <1>1 DEF FirstSlot

\* Slots are numbers from 1 on.
LEMMA SlotsAre == Slots \in SUBSET Nat /\ 0 \notin Slots
BY Constants DEF Slots

\* da_find_by_ip and da_first.
LEMMA FindIs ==
  ASSUME NEW s, NEW ip
  PROVE  LET k == da_find_by_ip(s, ip)
         IN  /\ k = 0 => \A j \in Slots : s.da[j].ip # ip
             /\ k # 0 => k \in Slots /\ s.da[k].ip = ip
<1> DEFINE S == {j \in Slots : s.da[j].ip = ip}
<1>1. S \in SUBSET Nat /\ 0 \notin S
  BY SlotsAre
<1>2. (S = {} => FirstSlot(S) = 0) /\ (S # {} => FirstSlot(S) \in S)
  BY <1>1, FirstSlotIs
<1>3. da_find_by_ip(s, ip) = FirstSlot(S)
  BY DEF da_find_by_ip
<1> QED
  BY <1>1, <1>2, <1>3

\* What an advertisement of ip does to slot k: the DA is dropped, acknowledged, or
\* new and told what is registered.
Added(s, t, k, ip, boot) ==
  \/ t.da[k] = EmptySlot /\ t.msgs = s.msgs
  \/ /\ t.msgs = s.msgs /\ t.da[k].ip = s.da[k].ip /\ t.da[k].boot = s.da[k].boot
     /\ t.da[k].counter = s.da[k].counter
  \/ /\ s.da[k].ip = NULL /\ t.da[k].ip = ip /\ t.da[k].boot = boot
     /\ t.da[k].counter = REFRESH /\ \E x : Told(s, t, k, x)

\* NewDa.
LEMMA NewDaIs ==
  ASSUME NEW s, Sound(s), WireOK, NEW ip \in DAs, NEW boot \in 0 .. MaxBoots,
         NEW delay \in Nat, NEW k \in Slots, s.da[k].ip = NULL,
         \A j \in Slots : s.da[j].ip # ip,
         NEW t, t = NewDa(s, k, ip, boot, delay)
  PROVE  Sound(t) /\ SameBut(s, t, k) /\ Added(s, t, k, ip, boot)
<1> DEFINE e == [s.da[k] EXCEPT !.ip = ip, !.timeout = CONFIG_DA_BEAT, !.boot = boot]
           r == SetSlot(s, k, e)
<1>1. s.da[k] \in DaEntries
  BY DaFields DEF Sound
<1>2. /\ e \in DaEntries /\ e.ip = ip /\ e.boot = boot /\ e.timeout # 0
  <2> DEFINE x == s.da[k]
             y == [x EXCEPT !.ip = ip]
             z == [y EXCEPT !.timeout = CONFIG_DA_BEAT]
             w == [z EXCEPT !.boot = boot]
  <2>1. e = w
    OBVIOUS
  <2>2. x \in DaEntries
    BY <1>1
  <2> HIDE DEF x
  <2>3. y \in DaEntries /\ y.ip = ip
    BY <2>2 DEF DaEntries
  <2> HIDE DEF y
  <2>4. z \in DaEntries /\ z.ip = ip /\ z.timeout # 0
    BY <2>3, Constants DEF DaEntries
  <2> HIDE DEF z
  <2>5. w \in DaEntries /\ w.ip = ip /\ w.boot = boot /\ w.timeout # 0
    BY <2>4 DEF DaEntries
  <2> QED
    BY <2>1, <2>5
<1>3. t = da_reg(r, k, delay)
  BY DEF NewDa, SetSlot
<1>4. SoundBut(s, k)
  BY SoundIsBut
<1> HIDE DEF e, r
<1>5. SoundBut(r, k) /\ SameButSlot(s, r, k) /\ r.da[k] = e
  BY <1>2, <1>4, SlotIs DEF r
<1>6. r.da[k].timeout # 0 /\ \A j \in Slots \ {k} : r.da[j].ip # r.da[k].ip
  BY <1>2, <1>5 DEF SameButSlot
<1>7. /\ Sound(t) /\ SameBut(r, t, k) /\ Told(r, t, k, NewXid(r))
      /\ t.da[k].ip = ip /\ t.da[k].boot = boot /\ t.da[k].counter = REFRESH
  BY <1>2, <1>3, <1>5, <1>6, DaRegIs
<1>8. SameBut(s, t, k) /\ Told(s, t, k, NewXid(r))
  BY <1>5, <1>7, ToldFrom DEF SameButSlot, SameBut
<1> QED
  BY <1>7, <1>8 DEF Added

\* da_add.
LEMMA DaAddIs ==
  ASSUME NEW s, Sound(s), WireOK, NEW ip \in DAs, NEW boot \in 0 .. MaxBoots,
         NEW delay \in Nat, NEW t, t = da_add(s, ip, boot, delay)
  PROVE  Sound(t) /\ (t = s \/ \E k \in Slots : SameBut(s, t, k) /\ Added(s, t, k, ip, boot))
<1> DEFINE k == da_find_by_ip(s, ip)
           f == da_find_by_ip(s, NULL)
<1>1. /\ k = 0 => \A j \in Slots : s.da[j].ip # ip
      /\ k # 0 => k \in Slots /\ s.da[k].ip = ip
      /\ f # 0 => f \in Slots /\ s.da[f].ip = NULL
  BY FindIs
<1> DEFINE change == {0} \cup {b \in 1 .. MaxBoots : b # s.da[k].boot}
<1>2. t = CASE k # 0 /\ boot \in change -> da_delete(s, k)
            [] k # 0 /\ boot # 0 /\ boot = s.da[k].boot -> da_service_ack(s, k)
            [] k = 0 /\ f # 0 -> NewDa(s, f, ip, boot, delay)
            [] k = 0 /\ f = 0 -> s
  BY DEF da_add
<1>3. boot \in change \/ (boot # 0 /\ boot = s.da[k].boot)
  BY Constants
<1>4. boot \in change => ~(boot # 0 /\ boot = s.da[k].boot)
  OBVIOUS
<1> HIDE DEF k, f, change
<1>5. CASE k # 0 /\ boot \in change
  <2>1. t = da_delete(s, k) /\ SoundBut(s, k) /\ k \in Slots
    BY <1>1, <1>2, <1>4, <1>5, SoundIsBut
  <2>2. Sound(t) /\ SameButSlot(s, t, k) /\ t.da[k] = EmptySlot
    BY <2>1, DaDeleteIs
  <2> QED
    BY <2>1, <2>2 DEF SameButSlot, SameBut, Added
<1>6. CASE k # 0 /\ ~(boot \in change)
  <2>1. t = da_service_ack(s, k) /\ k \in Slots
    BY <1>1, <1>2, <1>3, <1>6
  <2>2. /\ Sound(t) /\ SameButSlot(s, t, k)
        /\ t.da[k].ip = s.da[k].ip /\ t.da[k].boot = s.da[k].boot
        /\ t.da[k].counter = s.da[k].counter
    BY <2>1, ServiceAckIs
  <2> QED
    BY <2>1, <2>2 DEF SameButSlot, SameBut, Added
<1>7. CASE k = 0 /\ f # 0
  <2>1. t = NewDa(s, f, ip, boot, delay) /\ f \in Slots
    BY <1>1, <1>2, <1>7
  <2>2. Sound(t) /\ SameBut(s, t, f) /\ Added(s, t, f, ip, boot)
    BY <1>1, <1>7, <2>1, NewDaIs
  <2> QED
    BY <2>1, <2>2
<1>8. CASE k = 0 /\ f = 0
  BY <1>2, <1>8
<1> QED
  BY <1>5, <1>6, <1>7, <1>8

-----------------------------------------------------------------------------
(***************************************************************************)
(* The loops over the slots.                                               *)
(***************************************************************************)
SoundAgents == {s \in Agents : Sound(s)}

\* They are the sound agents.
LEMMA SoundAgentsAre == \A s : s \in SoundAgents <=> Sound(s)
BY DEF SoundAgents, Sound, Tabled

\* The loop of slp_tick over the DAs.
LEMMA TickDasIs ==
  ASSUME NEW s, Sound(s), WireOK, NEW delay \in Nat
  PROVE  \E f : /\ f[0] = s
                /\ \A k \in Slots : f[k] = TickDa(f[k - 1], k, delay)
                /\ \A k \in 0 .. MAX_DA : Sound(f[k])
                /\ TickDas(s, delay) = f[MAX_DA]
<1> DEFINE op(u, k) == TickDa(u, k, delay)
           P(f) == f = [k \in 0 .. MAX_DA |-> IF k = 0 THEN s ELSE op(f[k - 1], k)]
           step == [k \in Slots |-> [u \in SoundAgents |-> op(u, k)]]
           d == CHOOSE f : P(f)
<1>1. TickDas(s, delay) = d[MAX_DA]
  BY DEF TickDas, ForAllSlots
<1>2. MAX_DA \in Nat /\ Slots = 1 .. MAX_DA
  BY Constants DEF Slots
<1>3. \A k \in Slots, u \in SoundAgents : op(u, k) \in SoundAgents
  BY TickDaIs, SoundAgentsAre
<1>4. s \in SoundAgents
  BY SoundAgentsAre
<1> HIDE DEF op
<1>5. step \in [1 .. MAX_DA -> [SoundAgents -> SoundAgents]]
  BY <1>2, <1>3
<1>6. PICK f \in [0 .. MAX_DA -> SoundAgents] : IsLoop(step, s, MAX_DA, f)
  <2> HIDE DEF step
  <2> QED
    BY <1>2, <1>4, <1>5, LoopExists
<1>7. \A k \in 1 .. MAX_DA : k - 1 \in 0 .. MAX_DA
  BY <1>2
<1>8. \A k \in 0 .. MAX_DA : f[k] = IF k = 0 THEN s ELSE op(f[k - 1], k)
  <2> SUFFICES ASSUME NEW k \in 0 .. MAX_DA
               PROVE  f[k] = IF k = 0 THEN s ELSE op(f[k - 1], k)
    OBVIOUS
  <2>1. f[k] = IF k = 0 THEN s ELSE step[k][f[k - 1]]
    BY <1>6, Zenon DEF IsLoop
  <2>2. CASE k = 0
    BY <2>1, <2>2
  <2>3. CASE k # 0
    <3>1. k \in Slots /\ f[k - 1] \in SoundAgents
      BY <1>2, <1>6, <1>7, <2>3
    <3>2. step[k][f[k - 1]] = op(f[k - 1], k)
      BY <3>1
    <3> QED
      BY <2>1, <2>3, <3>2
  <2> QED
    BY <2>2, <2>3
<1>9. P(f)
  <2>1. f = [k \in 0 .. MAX_DA |-> f[k]]
    BY <1>6
  <2> QED
    BY <1>8, <2>1
<1>10. P(d)
  BY <1>9
<1> HIDE DEF d, step
<1>11. d[0] = s /\ \A k \in Slots : d[k] = op(d[k - 1], k)
  <2>1. \A k \in 0 .. MAX_DA : d[k] = IF k = 0 THEN s ELSE op(d[k - 1], k)
    BY <1>10, Zenon
  <2>2. 0 \in 0 .. MAX_DA /\ \A k \in Slots : k \in 0 .. MAX_DA /\ k # 0
    BY <1>2
  <2> QED
    BY <2>1, <2>2
<1>12. \A k \in 0 .. MAX_DA : d[k] \in SoundAgents
  <2> DEFINE S == {k \in 0 .. MAX_DA : d[k] \in SoundAgents}
  <2>1. 0 \in S
    BY <1>2, <1>4, <1>11
  <2>2. \A k \in 1 .. MAX_DA : k - 1 \in S => k \in S
    BY <1>2, <1>3, <1>11
  <2> HIDE DEF S
  <2>3. \A k \in 0 .. MAX_DA : k \in S
    BY <1>2, <2>1, <2>2, Throughout
  <2> QED
    BY <2>3 DEF S
<1>13. \A k \in 0 .. MAX_DA : Sound(d[k])
  BY <1>12, SoundAgentsAre
<1> QED
  BY <1>1, <1>11, <1>13 DEF op

\* The table has room for one more message for each slot.
Room(s) == Len(s.msgs) + MAX_DA <= MAX_RQST

\* A message tells slot k of the text in the buffer, under a number that nothing else
\* had.
IsTold(s, t, k) ==
  \E x \in Nat \ {0} : x \notin Xids(s) /\ RegEntry(k, s.url, x) \in Entries(t)

\* What a tick has made of slot k.
AfterTick(s, t, k) ==
  \/ s.da[k].ip = NULL /\ t.da[k] = s.da[k]
  \/ t.da[k] = EmptySlot
  \/ /\ s.da[k].ip # NULL /\ t.da[k].ip = s.da[k].ip /\ t.da[k].boot = s.da[k].boot
     /\ \/ t.da[k].counter = s.da[k].counter - 1
        \/ t.da[k].counter = REFRESH /\ (s.reg /\ Room(s) => IsTold(s, t, k))

\* t is s but for its messages and its table of DAs.
SameButTables(s, t) ==
  /\ t.dead = s.dead /\ t.open = s.open /\ t.closing = s.closing
  /\ t.dda = s.dda /\ t.url = s.url /\ t.reg = s.reg

\* Messages were added, and all that were added register the text in the buffer.
OnlyRegs(s, t) ==
  /\ Entries(s) \subseteq Entries(t)
  /\ \A e \in Entries(t) \ Entries(s) : e.type = "REG" /\ e.url = s.url

\* More messages, more numbers.
LEMMA XidsGrow ==
  ASSUME NEW s, Tabled(s), NEW t, Tabled(t), t.dda = s.dda, Entries(s) \subseteq Entries(t)
  PROVE  Xids(s) \subseteq Xids(t)
BY XidsAre

\* Slots that a tick has dealt with, and those it will, in the middle of its loop.
LEMMA TickDasEffect ==
  ASSUME NEW s, Sound(s), WireOK, NEW delay \in Nat, NEW t, t = TickDas(s, delay)
  PROVE  /\ Sound(t) /\ SameButTables(s, t) /\ OnlyRegs(s, t)
         /\ \A k \in Slots : AfterTick(s, t, k)
<1>1. PICK f : /\ f[0] = s
               /\ \A k \in Slots : f[k] = TickDa(f[k - 1], k, delay)
               /\ \A k \in 0 .. MAX_DA : Sound(f[k])
               /\ t = f[MAX_DA]
  BY TickDasIs
<1>2. MAX_DA \in Nat /\ Slots = 1 .. MAX_DA
  BY Constants DEF Slots
<1> DEFINE I(n) == /\ SameButTables(s, f[n]) /\ OnlyRegs(s, f[n])
                   /\ Len(f[n].msgs) <= Len(s.msgs) + n
                   /\ \A k \in 1 .. n : AfterTick(s, f[n], k)
                   /\ \A k \in Slots : k > n => f[n].da[k] = s.da[k]
<1>3. I(0)
  <2>1. Len(s.msgs) \in Nat
    BY AgentFields DEF Sound
  <2> QED
    BY <1>1, <2>1 DEF SameButTables, OnlyRegs
<1>4. ASSUME NEW n \in 1 .. MAX_DA, I(n - 1) PROVE I(n)
  <2> DEFINE a == f[n - 1]
             b == f[n]
  <2>1. /\ n - 1 \in 0 .. MAX_DA /\ n \in 0 .. MAX_DA /\ n \in Slots
        /\ b = TickDa(a, n, delay)
    BY <1>1, <1>2
  <2>2. Sound(a) /\ Sound(b) /\ SameBut(a, b, n) /\ Ticked(a, b, n)
    BY <1>1, <2>1, TickDaIs
  <2>3. /\ SameButTables(s, a) /\ OnlyRegs(s, a) /\ Len(a.msgs) <= Len(s.msgs) + (n - 1)
        /\ \A k \in 1 .. n - 1 : AfterTick(s, a, k)
        /\ \A k \in Slots : k > n - 1 => a.da[k] = s.da[k]
    BY <1>4
  <2> HIDE DEF a, b
  <2>4. a.da[n] = s.da[n]
    BY <2>1, <2>3
  <2>5. /\ Tabled(s) /\ Tabled(a) /\ Tabled(b) /\ Len(s.msgs) \in Nat /\ Len(a.msgs) \in Nat
        /\ Len(b.msgs) \in Nat
    BY <2>2, AgentFields DEF Sound
  <2>6. SameButTables(s, b)
    BY <2>2, <2>3 DEF SameBut, SameButTables
  <2>7. /\ OnlyRegs(a, b) /\ Len(b.msgs) <= Len(a.msgs) + 1
    <3>1. CASE b.msgs = a.msgs
      BY <2>5, <3>1 DEF OnlyRegs, Entries
    <3>2. CASE \E x : Told(a, b, n, x)
      BY <3>2 DEF Told, OnlyRegs, RegEntry
    <3> QED
      BY <2>2, <3>1, <3>2 DEF Ticked
  <2>8. OnlyRegs(s, b)
    BY <2>3, <2>7 DEF OnlyRegs, SameButTables
  <2>9. Len(b.msgs) <= Len(s.msgs) + n
    BY <2>3, <2>5, <2>7
  <2>10. \A k \in 1 .. n - 1 : AfterTick(s, b, k)
    <3> SUFFICES ASSUME NEW k \in 1 .. n - 1 PROVE AfterTick(s, b, k)
      OBVIOUS
    <3>1. k \in Slots \ {n} /\ b.da[k] = a.da[k] /\ AfterTick(s, a, k)
      BY <1>2, <2>2, <2>3 DEF SameBut
    <3>2. IsTold(s, a, k) => IsTold(s, b, k)
      BY <2>7 DEF IsTold, OnlyRegs
    <3> QED
      BY <3>1, <3>2 DEF AfterTick
  <2>11. AfterTick(s, b, n)
    <3>1. CASE a.da[n].ip = NULL /\ b = a
      BY <2>4, <3>1 DEF AfterTick
    <3>2. CASE b.da[n] = EmptySlot
      BY <3>2 DEF AfterTick
    <3>3. CASE /\ a.da[n].ip # NULL /\ b.da[n].ip = a.da[n].ip /\ b.da[n].boot = a.da[n].boot
               /\ b.da[n].counter = a.da[n].counter - 1
      BY <2>4, <3>3 DEF AfterTick
    <3>4. CASE /\ a.da[n].ip # NULL /\ b.da[n].ip = a.da[n].ip /\ b.da[n].boot = a.da[n].boot
               /\ b.da[n].counter = REFRESH /\ \E x : Told(a, b, n, x)
      <4>1. PICK x : Told(a, b, n, x)
        BY <3>4
      <4>2. Xids(s) \subseteq Xids(a)
        BY <2>3, <2>5, XidsGrow DEF OnlyRegs, SameButTables
      <4>3. x \in Nat \ {0} /\ x \notin Xids(s)
        BY <4>1, <4>2 DEF Told
      <4>4. s.reg /\ Room(s) => RegEntry(n, s.url, x) \in Entries(b)
        <5> SUFFICES ASSUME s.reg, Room(s) PROVE RegEntry(n, s.url, x) \in Entries(b)
          OBVIOUS
        <5>1. a.reg /\ a.url = s.url
          BY <2>3 DEF SameButTables
        <5>2. Len(a.msgs) < MAX_RQST
          BY <1>2, <2>3, <2>5, Constants DEF Room
        <5> QED
          BY <4>1, <5>1, <5>2 DEF Told
      <4>5. s.reg /\ Room(s) => IsTold(s, b, n)
        BY <4>3, <4>4 DEF IsTold
      <4> QED
        BY <2>4, <3>4, <4>5 DEF AfterTick
    <3> QED
      BY <2>2, <3>1, <3>2, <3>3, <3>4 DEF Ticked
  <2>12. \A k \in 1 .. n : AfterTick(s, b, k)
    <3>1. \A k \in 1 .. n : k = n \/ k \in 1 .. n - 1
      OBVIOUS
    <3> QED
      BY <2>10, <2>11, <3>1
  <2>13. \A k \in Slots : k > n => b.da[k] = s.da[k]
    <3> SUFFICES ASSUME NEW k \in Slots, k > n PROVE b.da[k] = s.da[k]
      OBVIOUS
    <3>1. k \in Slots \ {n} /\ k > n - 1
      BY <1>2
    <3> QED
      BY <2>2, <2>3, <3>1 DEF SameBut
  <2> QED
    BY <2>6, <2>8, <2>9, <2>12, <2>13 DEF b
<1> DEFINE S == {n \in 0 .. MAX_DA : I(n)}
<1>5. I(MAX_DA)
  <2>1. 0 \in S
    BY <1>2, <1>3
  <2>2. \A n \in 1 .. MAX_DA : n - 1 \in S => n \in S
    <3> HIDE DEF I
    <3> QED
      BY <1>2, <1>4
  <2> HIDE DEF S
  <2>3. \A n \in 0 .. MAX_DA : n \in S
    BY <1>2, <2>1, <2>2, Throughout
  <2>4. MAX_DA \in S
    BY <1>2, <2>3
  <2> QED
    BY <2>4 DEF S
<1>6. Sound(t)
  BY <1>1, <1>2
<1> QED
  BY <1>1, <1>2, <1>5, <1>6

-----------------------------------------------------------------------------
(***************************************************************************)
(* The loop over the messages.                                             *)
(***************************************************************************)
\* A message at the end of a list.
LEMMA AppendedIs ==
  ASSUME NEW q \in Seq(Messages), NEW m \in Messages, NEW r, r = Append(q, m)
  PROVE  /\ r \in Seq(Messages) /\ Len(r) = Len(q) + 1
         /\ EntriesOf(r) = EntriesOf(q) \cup {Entry(m)}
         /\ XidsApart(q) /\ (\A e \in EntriesOf(q) : e.xid # m.xid) => XidsApart(r)
<1> DEFINE Ms == Messages
<1>1. q \in Seq(Ms) /\ m \in Ms
  OBVIOUS
<1> HIDE DEF Ms
<1>2. /\ r \in Seq(Ms) /\ Len(r) = Len(q) + 1 /\ r[Len(q) + 1] = m
      /\ \A i \in 1 .. Len(q) : r[i] = q[i]
      /\ DOMAIN q = 1 .. Len(q) /\ DOMAIN r = 1 .. Len(q) + 1 /\ Len(q) \in Nat
  BY <1>1
<1>3. \A i \in DOMAIN r : i = Len(q) + 1 \/ i \in DOMAIN q
  BY <1>2
<1>4. Len(q) + 1 \in DOMAIN r /\ \A i \in DOMAIN q : i \in DOMAIN r
  BY <1>2
<1>5. EntriesOf(r) = EntriesOf(q) \cup {Entry(m)}
  BY <1>2, <1>3, <1>4 DEF EntriesOf
<1>6. ASSUME XidsApart(q), \A e \in EntriesOf(q) : e.xid # m.xid PROVE XidsApart(r)
  <2>0. \A i \in DOMAIN q : Entry(q[i]) \in EntriesOf(q) /\ Entry(q[i]).xid = q[i].xid
    BY DEF EntriesOf, Entry
  <2>1. \A i \in DOMAIN q : q[i].xid # m.xid
    BY <1>6, <2>0
  <2> SUFFICES ASSUME NEW i \in DOMAIN r, NEW j \in DOMAIN r, r[i].xid = r[j].xid PROVE i = j
    BY DEF XidsApart
  <2>2. CASE i \in DOMAIN q /\ j \in DOMAIN q
    BY <1>2, <1>6, <2>2 DEF XidsApart
  <2>3. CASE i \in DOMAIN q /\ j = Len(q) + 1
    BY <1>2, <2>1, <2>3
  <2>4. CASE i = Len(q) + 1 /\ j \in DOMAIN q
    BY <1>2, <2>1, <2>4
  <2> QED
    BY <1>3, <2>2, <2>3, <2>4
<1> QED
  BY <1>2, <1>5, <1>6 DEF Ms

\* What is sent for a message goes to the DA of its slot, if there is one.
LEMMA SendIs ==
  ASSUME NEW s, s \in Agents, NEW m \in Messages
  PROVE  /\ Send(s, m) \in SUBSET Packets /\ IsFiniteSet(Send(s, m))
         /\ \A p \in Send(s, m) :
              /\ p.dir = "to" /\ p.da = s.da[m.slot].ip /\ p.type = m.type /\ p.xid = m.xid
              /\ m.type \in {"REG", "DEREG"} => p.url = m.url
<1> DEFINE d == s.da[m.slot].ip
<1>1. CASE ~s.open \/ d = NULL
  BY <1>1, FS_EmptySet DEF Send
<1>2. CASE ~(~s.open \/ d = NULL)
  <2>1. /\ m.slot \in Slots /\ m.xid \in Nat /\ m.url \in Texts
        /\ m.type \in {"REG", "DEREG", "SRVRQST", "ATTRRQST"}
    BY DEF Messages, Texts
  <2>2. d \in DAs
    BY <1>2, <2>1 DEF Agents, DaEntries
  <2> HIDE DEF d
  <2>3. \A type \in {"REG", "DEREG", "SRVRQST", "ATTRRQST"}, url \in Texts :
          LET p == ToDa(d, type, m.xid, url)
          IN  /\ p \in Packets /\ p.dir = "to" /\ p.da = d /\ p.type = type
              /\ p.xid = m.xid /\ p.url = url
    BY <2>1, <2>2, Constants DEF ToDa, Packets
  <2> DEFINE p == CASE m.type = "REG"      -> slp_send_reg(d, m)
                    [] m.type = "DEREG"    -> slp_send_dereg(d, m)
                    [] m.type = "SRVRQST"  -> slp_send_srvrqst(d, m)
                    [] m.type = "ATTRRQST" -> slp_send_attrrqst(d, m)
  <2>4. Send(s, m) = {p}
    BY <1>2 DEF Send, d
  <2>5. /\ p \in Packets /\ p.dir = "to" /\ p.da = d /\ p.type = m.type /\ p.xid = m.xid
        /\ m.type \in {"REG", "DEREG"} => p.url = m.url
    <3>1. CASE m.type = "REG"
      <4>1. p = ToDa(d, "REG", m.xid, m.url)
        BY <3>1 DEF slp_send_reg
      <4> HIDE DEF p
      <4> QED
        BY <2>1, <2>3, <3>1, <4>1
    <3>2. CASE m.type = "DEREG"
      <4>1. p = ToDa(d, "DEREG", m.xid, m.url)
        BY <3>2 DEF slp_send_dereg
      <4> HIDE DEF p
      <4> QED
        BY <2>1, <2>3, <3>2, <4>1
    <3>3. CASE m.type = "SRVRQST"
      <4>1. p = ToDa(d, "SRVRQST", m.xid, NULL)
        BY <3>3 DEF slp_send_srvrqst
      <4> HIDE DEF p
      <4> QED
        BY <2>1, <2>3, <3>3, <4>1 DEF Texts
    <3>4. CASE m.type = "ATTRRQST"
      <4>1. p = ToDa(d, "ATTRRQST", m.xid, m.url)
        BY <3>4 DEF slp_send_attrrqst
      <4> HIDE DEF p
      <4> QED
        BY <2>1, <2>3, <3>4, <4>1
    <3> QED
      BY <2>1, <3>1, <3>2, <3>3, <3>4
  <2> HIDE DEF p
  <2> QED
    BY <2>4, <2>5, FS_Singleton DEF d
<1> QED
  BY <1>1, <1>2

\* What a round of the loop makes of the agent and of what it sends.
RoundResults == [s : Agents, out : SUBSET Packets]

\* A message waits, is sent, or is given up with its DA.
TickedMsg(res, t, m) ==
  \/ /\ t.s.da = res.s.da /\ t.out \subseteq res.out \cup Send(res.s, m) /\ res.out \subseteq t.out
     /\ \E n \in Messages : Entry(n) = Entry(m) /\ n.xid = m.xid
                            /\ t.s.msgs = Append(res.s.msgs, n)
  \/ t.s = da_delete(res.s, m.slot) /\ t.out = res.out

\* TickMsg.
LEMMA TickMsgIs ==
  ASSUME NEW res \in RoundResults, NEW m \in Messages, NEW t, t = TickMsg(res, m)
  PROVE  /\ t \in RoundResults /\ SameButTables(res.s, t.s) /\ TickedMsg(res, t, m)
<1> DEFINE s == res.s
<1>1. /\ s \in Agents /\ res.out \in SUBSET Packets
      /\ Send(s, m) \in SUBSET Packets
  BY SendIs DEF RoundResults
<1>2. /\ m.counter \in Nat /\ m.retries \in 0 .. SLP_RETRIES /\ m.slot \in Slots
  BY DEF Messages
<1> HIDE DEF s
<1>3. ASSUME NEW n \in Messages, n.type = m.type, n.slot = m.slot, n.url = m.url, n.xid = m.xid,
             NEW out \in SUBSET Packets, out = res.out \/ out = res.out \cup Send(s, m),
             t = Result([s EXCEPT !.msgs = Append(@, n)], out)
      PROVE  /\ t \in RoundResults /\ SameButTables(res.s, t.s) /\ TickedMsg(res, t, m)
  <2> DEFINE q == Append(s.msgs, n)
             u == [s EXCEPT !.msgs = q]
  <2>1. q \in Seq(Messages)
    <3>1. s.msgs \in Seq(Messages)
      BY <1>1 DEF Agents
    <3> HIDE DEF Messages
    <3> QED
      BY <1>3, <3>1
  <2> HIDE DEF q
  <2>2. /\ u \in Agents /\ u.msgs = q /\ u.da = s.da /\ SameButTables(s, u)
    BY <1>1, <2>1 DEF Agents, SameButTables
  <2>3. t.s = u /\ t.out = out /\ t = [s |-> u, out |-> out]
    BY <1>3 DEF Result, q
  <2> HIDE DEF u
  <2>4. Entry(n) = Entry(m)
    BY <1>3 DEF Entry
  <2>5. t \in RoundResults
    BY <1>3, <2>2, <2>3 DEF RoundResults
  <2>6. TickedMsg(res, t, m)
    BY <1>3, <2>2, <2>3, <2>4 DEF TickedMsg, q, s
  <2> QED
    BY <2>2, <2>3, <2>5, <2>6 DEF s
<1>4. CASE m.counter # 0
  <2> DEFINE n == [m EXCEPT !.counter = @ - 1]
  <2>1. n \in Messages /\ n.type = m.type /\ n.slot = m.slot /\ n.url = m.url /\ n.xid = m.xid
    <3>1. m.counter - 1 \in Nat
      BY <1>2, <1>4
    <3> QED
      BY <3>1 DEF Messages
  <2>2. t = Result([s EXCEPT !.msgs = Append(@, n)], res.out)
    BY <1>4 DEF TickMsg, s
  <2> HIDE DEF n
  <2> QED
    BY <1>1, <1>3, <2>1, <2>2
<1>5. CASE m.counter = 0 /\ m.retries # 0
  <2> DEFINE a == [m EXCEPT !.counter = CONFIG_RETRY - 1]
             n == [m EXCEPT !.counter = CONFIG_RETRY - 1, !.retries = @ - 1]
  <2>1. n \in Messages /\ n.type = m.type /\ n.slot = m.slot /\ n.url = m.url /\ n.xid = m.xid
    <3>1. CONFIG_RETRY - 1 \in Nat /\ m.retries - 1 \in 0 .. SLP_RETRIES
      BY <1>2, <1>5, Constants
    <3>2. /\ a \in Messages /\ a.type = m.type /\ a.slot = m.slot /\ a.url = m.url
          /\ a.xid = m.xid /\ a.retries = m.retries
      BY <3>1 DEF Messages
    <3>3. n = [a EXCEPT !.retries = m.retries - 1]
      BY <3>2 DEF Messages
    <3> HIDE DEF a, n
    <3> QED
      BY <3>1, <3>2, <3>3 DEF Messages
  <2>2. t = Result([s EXCEPT !.msgs = Append(@, n)], res.out \cup Send(s, m))
    BY <1>5 DEF TickMsg, s
  <2> HIDE DEF n
  <2> QED
    BY <1>1, <1>3, <2>1, <2>2
<1>6. CASE m.counter = 0 /\ m.retries = 0
  <2> DEFINE u == da_delete(s, m.slot)
  <2>1. t = [s |-> u, out |-> res.out]
    BY <1>6 DEF TickMsg, Result, s
  <2>2. u \in Agents /\ SameButTables(s, u)
    BY <1>1, <1>2, EmptyIs DEF da_delete, Agents, SameButTables
  <2> HIDE DEF u
  <2>3. t \in RoundResults
    BY <1>1, <2>1, <2>2 DEF RoundResults
  <2>4. t.s = u /\ t.out = res.out
    BY <2>1
  <2> QED
    BY <2>2, <2>3, <2>4 DEF TickedMsg, u, s
<1> QED
  BY <1>4, <1>5, <1>6


\* The loop of slp_tick over the messages.
LEMMA TickMsgsIs ==
  ASSUME NEW s, Tabled(s)
  PROVE  \E f : /\ f[0] = Result([s EXCEPT !.msgs = <<>>], {})
                /\ \A n \in 1 .. Len(s.msgs) : f[n] = TickMsg(f[n - 1], s.msgs[n])
                /\ \A n \in 0 .. Len(s.msgs) : f[n] \in RoundResults
                /\ TickMsgs(s) = f[Len(s.msgs)]
<1> DEFINE len == Len(s.msgs)
           list == s.msgs
           first == Result([s EXCEPT !.msgs = <<>>], {})
           op(u, m) == TickMsg(u, m)
           P(f) == f = [n \in 0 .. Len(list) |-> IF n = 0 THEN first ELSE op(f[n - 1], list[n])]
           step == [n \in 1 .. len |-> [u \in RoundResults |-> op(u, list[n])]]
           d == CHOOSE f : P(f)
<1>1. TickMsgs(s) = d[Len(list)]
  BY DEF TickMsgs, InTurn
<1>2. /\ len \in Nat /\ Len(list) = len
      /\ \A n \in 1 .. len : list[n] \in Messages
  BY AgentFields
<1>3. \A n \in 1 .. len, u \in RoundResults : op(u, list[n]) \in RoundResults
  BY <1>2, TickMsgIs
<1>4. first \in RoundResults
  <2> DEFINE a == [s EXCEPT !.msgs = <<>>]
  <2>1. s \in Agents
    BY AgentFields
  <2>2. a \in Agents
    <3>1. <<>> \in Seq(Messages)
      OBVIOUS
    <3> HIDE DEF Messages
    <3> QED
      BY <2>1, <3>1 DEF Agents
  <2> HIDE DEF a
  <2>3. first = [s |-> a, out |-> {}] /\ {} \in SUBSET Packets
    BY DEF Result, a
  <2> HIDE DEF first
  <2> QED
    BY <2>2, <2>3 DEF RoundResults
<1> HIDE DEF op, first, list, len
<1>5. step \in [1 .. len -> [RoundResults -> RoundResults]]
  BY <1>3
<1>6. PICK f \in [0 .. len -> RoundResults] : IsLoop(step, first, len, f)
  <2> HIDE DEF step, RoundResults
  <2> QED
    BY <1>2, <1>4, <1>5, LoopExists
<1>7. \A n \in 1 .. len : n - 1 \in 0 .. len
  BY <1>2
<1>8. \A n \in 0 .. len : f[n] = IF n = 0 THEN first ELSE op(f[n - 1], list[n])
  <2> SUFFICES ASSUME NEW n \in 0 .. len
               PROVE  f[n] = IF n = 0 THEN first ELSE op(f[n - 1], list[n])
    OBVIOUS
  <2>1. f[n] = IF n = 0 THEN first ELSE step[n][f[n - 1]]
    BY <1>6, Zenon DEF IsLoop
  <2>2. CASE n = 0
    BY <2>1, <2>2
  <2>3. CASE n # 0
    <3>1. n \in 1 .. len /\ f[n - 1] \in RoundResults
      BY <1>2, <1>6, <1>7, <2>3
    <3> HIDE DEF RoundResults
    <3>2. step[n][f[n - 1]] = op(f[n - 1], list[n])
      BY <3>1
    <3> QED
      BY <2>1, <2>3, <3>2
  <2> QED
    BY <2>2, <2>3
<1>9. P(f)
  <2>1. f = [n \in 0 .. len |-> f[n]]
    BY <1>6
  <2> QED
    BY <1>2, <1>8, <2>1
<1>10. P(d)
  BY <1>9
<1> HIDE DEF d, step
<1>11. d[0] = first /\ \A n \in 1 .. len : d[n] = op(d[n - 1], list[n])
  <2>1. \A n \in 0 .. len : d[n] = IF n = 0 THEN first ELSE op(d[n - 1], list[n])
    BY <1>2, <1>10, Zenon
  <2>2. 0 \in 0 .. len /\ \A n \in 1 .. len : n \in 0 .. len /\ n # 0
    BY <1>2
  <2> QED
    BY <2>1, <2>2
<1>12. \A n \in 0 .. len : d[n] \in RoundResults
  <2> DEFINE S == {n \in 0 .. len : d[n] \in RoundResults}
  <2> HIDE DEF RoundResults
  <2>1. 0 \in S
    BY <1>2, <1>4, <1>11
  <2>2. \A n \in 1 .. len : n - 1 \in S => n \in S
    BY <1>2, <1>3, <1>11
  <2> HIDE DEF S
  <2>3. \A n \in 0 .. len : n \in S
    BY <1>2, <2>1, <2>2, Throughout
  <2> QED
    BY <2>3 DEF S
<1>13. /\ d[0] = first /\ \A n \in 1 .. len : d[n] = TickMsg(d[n - 1], list[n])
       /\ TickMsgs(s) = d[len]
  BY <1>1, <1>2, <1>11 DEF op
<1> QED
  BY <1>12, <1>13 DEF first, list, len

\* What is sent for an entry of the table.
Sent(s, e, p) ==
  /\ p.dir = "to" /\ p.da = s.da[e.slot].ip /\ p.type = e.type /\ p.xid = e.xid
  /\ e.type \in {"REG", "DEREG"} => p.url = e.url

\* The messages of a round are kept, unless their DA was given up.
LEMMA TickMsgsEffect ==
  ASSUME NEW s, Sound(s), NEW r, r = TickMsgs(s)
  PROVE  /\ Sound(r.s) /\ SameButTables(s, r.s)
         /\ r.out \in SUBSET Packets /\ IsFiniteSet(r.out)
         /\ \A k \in Slots : r.s.da[k] \in {s.da[k], EmptySlot}
         /\ Entries(r.s) \subseteq Entries(s)
         /\ \A e \in Entries(s) : r.s.da[e.slot] # EmptySlot => e \in Entries(r.s)
         /\ \A p \in r.out : \E e \in Entries(s) : Sent(s, e, p)
<1> DEFINE len == Len(s.msgs)
           list == s.msgs
           first == [s EXCEPT !.msgs = <<>>]
<1>1. /\ Tabled(s) /\ len \in Nat /\ len <= MAX_RQST /\ DOMAIN list = 1 .. len
      /\ \A n \in 1 .. len : list[n] \in Messages /\ list[n].slot \in Slots
      /\ XidsApart(list) /\ s.da \in [Slots -> DaEntries]
  BY AgentFields DEF Sound, Tabled, Messages
<1>2. PICK f : /\ f[0] = Result(first, {})
               /\ \A n \in 1 .. len : f[n] = TickMsg(f[n - 1], list[n])
               /\ \A n \in 0 .. len : f[n] \in RoundResults
               /\ r = f[len]
  BY <1>1, TickMsgsIs
<1> DEFINE upto(n) == {Entry(list[i]) : i \in 1 .. n}
           I(n) == /\ f[n].s \in Agents /\ SameButTables(s, f[n].s)
                   /\ \A k \in Slots : f[n].s.da[k] \in {s.da[k], EmptySlot}
                   /\ Len(f[n].s.msgs) <= n
                   /\ XidsApart(f[n].s.msgs)
                   /\ EntriesOf(f[n].s.msgs) \subseteq upto(n)
                   /\ \A e \in upto(n) : f[n].s.da[e.slot] # EmptySlot =>
                                           e \in EntriesOf(f[n].s.msgs)
                   /\ IsFiniteSet(f[n].out)
                   /\ \A p \in f[n].out : \E e \in upto(n) : Sent(s, e, p)
<1>3. I(0)
  <2>1. f[0].s = first /\ f[0].out = {}
    BY <1>2 DEF Result
  <2>2. first.msgs = <<>> /\ first.da = s.da /\ SameButTables(s, first)
    BY <1>1, AgentFields DEF Agents, SameButTables
  <2>3. f[0].s \in Agents
    BY <1>1, <1>2 DEF RoundResults
  <2>4. upto(0) = {}
    OBVIOUS
  <2>5. EntriesOf(<<>>) = {} /\ XidsApart(<<>>) /\ Len(<<>>) = 0
    BY DEF EntriesOf, XidsApart
  <2> HIDE DEF first, upto
  <2> QED
    BY <2>1, <2>2, <2>3, <2>4, <2>5, FS_EmptySet
<1>4. ASSUME NEW n \in 1 .. len, I(n - 1) PROVE I(n)
  <2> DEFINE a == f[n - 1]
             b == f[n]
             m == list[n]
  <2>1. /\ n - 1 \in 0 .. len /\ n \in 0 .. len
        /\ a \in RoundResults /\ b \in RoundResults /\ m \in Messages /\ b = TickMsg(a, m)
    BY <1>1, <1>2
  <2>2. SameButTables(a.s, b.s) /\ TickedMsg(a, b, m)
    <3> HIDE DEF a, b, m
    <3> QED
      BY <2>1, TickMsgIs
  <2>3. /\ a.s \in Agents /\ b.s \in Agents /\ m.slot \in Slots
    BY <2>1 DEF RoundResults, Messages
  <2>4. /\ SameButTables(s, a.s)
        /\ \A k \in Slots : a.s.da[k] \in {s.da[k], EmptySlot}
        /\ Len(a.s.msgs) <= n - 1
        /\ XidsApart(a.s.msgs)
        /\ EntriesOf(a.s.msgs) \subseteq upto(n - 1)
        /\ \A e \in upto(n - 1) : a.s.da[e.slot] # EmptySlot => e \in EntriesOf(a.s.msgs)
        /\ IsFiniteSet(a.out)
        /\ \A p \in a.out : \E e \in upto(n - 1) : Sent(s, e, p)
    BY <1>4
  <2>5. upto(n) = upto(n - 1) \cup {Entry(m)}
    <3>1. 1 .. n = (1 .. n - 1) \cup {n}
      BY <1>1
    <3> QED
      BY <3>1
  <2>6. \A e \in upto(n - 1) : e.xid # m.xid
    <3> SUFFICES ASSUME NEW i \in 1 .. n - 1 PROVE Entry(list[i]).xid # m.xid
      OBVIOUS
    <3>1. i \in DOMAIN list /\ n \in DOMAIN list /\ i # n
      BY <1>1
    <3>2. list[i].xid # list[n].xid
      BY <1>1, <3>1 DEF XidsApart
    <3> QED
      BY <3>2 DEF Entry
  <2>7. SameButTables(s, b.s)
    BY <2>2, <2>4 DEF SameButTables
  <2>8. /\ Entry(m).slot = m.slot /\ Entry(m).xid = m.xid /\ Entry(m).type = m.type
        /\ Entry(m).url = m.url
    BY DEF Entry
  <2>9. a.s.msgs \in Seq(Messages) /\ Len(a.s.msgs) \in Nat
    <3>1. a.s.msgs \in Seq(Messages)
      BY <2>3 DEF Agents
    <3> HIDE DEF Messages
    <3> QED
      BY <3>1
  <2>10. a.s.da \in [Slots -> DaEntries]
    BY <2>3 DEF Agents
  <2> HIDE DEF a, b, m, upto
  <2>11. CASE /\ b.s.da = a.s.da /\ b.out \subseteq a.out \cup Send(a.s, m)
              /\ \E x \in Messages : Entry(x) = Entry(m) /\ x.xid = m.xid
                                     /\ b.s.msgs = Append(a.s.msgs, x)
    <3>1. PICK x \in Messages : Entry(x) = Entry(m) /\ x.xid = m.xid
                                /\ b.s.msgs = Append(a.s.msgs, x)
      BY <2>11
    <3>2. /\ Len(b.s.msgs) = Len(a.s.msgs) + 1
          /\ EntriesOf(b.s.msgs) = EntriesOf(a.s.msgs) \cup {Entry(m)}
          /\ XidsApart(a.s.msgs) /\ (\A e \in EntriesOf(a.s.msgs) : e.xid # x.xid)
               => XidsApart(b.s.msgs)
      <4> DEFINE q == a.s.msgs
                 w == b.s.msgs
      <4>1. q \in Seq(Messages) /\ w = Append(q, x)
        BY <2>9, <3>1
      <4> HIDE DEF q, w
      <4>2. /\ Len(w) = Len(q) + 1
            /\ EntriesOf(w) = EntriesOf(q) \cup {Entry(x)}
            /\ XidsApart(q) /\ (\A e \in EntriesOf(q) : e.xid # x.xid) => XidsApart(w)
        BY <4>1, AppendedIs
      <4> QED
        BY <3>1, <4>2 DEF q, w
    <3>3. XidsApart(b.s.msgs)
      BY <2>4, <2>6, <3>1, <3>2
    <3>4. Len(b.s.msgs) <= n
      BY <1>1, <2>4, <2>9, <3>2
    <3>5. /\ Send(a.s, m) \in SUBSET Packets /\ IsFiniteSet(Send(a.s, m))
          /\ \A p \in Send(a.s, m) :
              /\ p.dir = "to" /\ p.da = a.s.da[m.slot].ip /\ p.type = m.type /\ p.xid = m.xid
              /\ m.type \in {"REG", "DEREG"} => p.url = m.url
      BY <2>1, <2>3, SendIs
    <3>6. IsFiniteSet(b.out)
      <4>1. IsFiniteSet(a.out \cup Send(a.s, m))
        BY <2>4, <3>5, FS_Union
      <4> QED
        BY <2>11, <4>1, FS_Subset
    <3>7. \A p \in Send(a.s, m) : Sent(s, Entry(m), p)
      <4> SUFFICES ASSUME NEW p \in Send(a.s, m) PROVE Sent(s, Entry(m), p)
        OBVIOUS
      <4>1. p.da \in DAs /\ p.da # NULL
        BY <3>5, NullIs DEF Packets
      <4>2. a.s.da[m.slot] # EmptySlot
        BY <3>5, <4>1, EmptyIs
      <4>3. a.s.da[m.slot] = s.da[m.slot]
        BY <2>3, <2>4, <4>2
      <4> QED
        BY <2>8, <3>5, <4>3 DEF Sent
    <3>8. \A p \in b.out : \E e \in upto(n) : Sent(s, e, p)
      BY <2>4, <2>5, <2>11, <3>7
    <3>9. \A e \in upto(n) : b.s.da[e.slot] # EmptySlot => e \in EntriesOf(b.s.msgs)
      BY <2>4, <2>5, <2>11, <3>2
    <3>10. EntriesOf(b.s.msgs) \subseteq upto(n)
      BY <2>4, <2>5, <3>2
    <3>11. \A k \in Slots : b.s.da[k] \in {s.da[k], EmptySlot}
      BY <2>4, <2>11
    <3> QED
      BY <2>3, <2>7, <3>3, <3>4, <3>6, <3>8, <3>9, <3>10, <3>11 DEF b
  <2>12. CASE b.s = da_delete(a.s, m.slot) /\ b.out = a.out
    <3>1. b.s.msgs = a.s.msgs /\ b.s.da = [a.s.da EXCEPT ![m.slot] = EmptySlot]
      BY <2>3, <2>12 DEF da_delete, Agents
    <3>2. \A k \in Slots : b.s.da[k] = a.s.da[k] \/ b.s.da[k] = EmptySlot
      BY <2>10, <3>1
    <3>3. b.s.da[m.slot] = EmptySlot
      BY <2>3, <2>10, <3>1
    <3>4. \A e \in upto(n - 1) : e.slot \in Slots
      <4>1. \A i \in 1 .. n - 1 : i \in 1 .. len
        BY <1>1
      <4> QED
        BY <1>1, <4>1 DEF upto, Entry
    <3>5. \A k \in Slots : b.s.da[k] \in {s.da[k], EmptySlot}
      BY <2>4, <3>2
    <3>6. \A e \in upto(n) : b.s.da[e.slot] # EmptySlot => e \in EntriesOf(b.s.msgs)
      <4> SUFFICES ASSUME NEW e \in upto(n), b.s.da[e.slot] # EmptySlot
                   PROVE  e \in EntriesOf(b.s.msgs)
        OBVIOUS
      <4>1. e \in upto(n - 1)
        BY <2>5, <2>8, <3>3
      <4>2. a.s.da[e.slot] # EmptySlot
        BY <3>2, <3>4, <4>1
      <4> QED
        BY <2>4, <3>1, <4>1, <4>2
    <3>7. Len(b.s.msgs) <= n
      BY <1>1, <2>4, <2>9, <3>1
    <3>8. /\ XidsApart(b.s.msgs) /\ EntriesOf(b.s.msgs) \subseteq upto(n)
          /\ IsFiniteSet(b.out) /\ \A p \in b.out : \E e \in upto(n) : Sent(s, e, p)
      BY <2>4, <2>5, <2>12, <3>1
    <3> QED
      BY <2>3, <2>7, <3>5, <3>6, <3>7, <3>8 DEF b
  <2> QED
    BY <2>2, <2>11, <2>12 DEF TickedMsg
<1>5. I(len)
  <2> DEFINE S == {n \in 0 .. len : I(n)}
  <2>1. 0 \in S
    BY <1>1, <1>3
  <2>2. \A n \in 1 .. len : n - 1 \in S => n \in S
    <3> HIDE DEF I
    <3> QED
      BY <1>1, <1>4
  <2> HIDE DEF S
  <2>3. \A n \in 0 .. len : n \in S
    BY <1>1, <2>1, <2>2, Throughout
  <2>4. len \in S
    BY <1>1, <2>3
  <2> QED
    BY <2>4 DEF S
<1>6. upto(len) = Entries(s)
  BY <1>1 DEF Entries, EntriesOf
<1> HIDE DEF upto
<1>7. r \in RoundResults
  BY <1>1, <1>2
<1>8. r.s \in Agents /\ r.out \in SUBSET Packets
  BY <1>7 DEF RoundResults
<1>9. /\ SameButTables(s, r.s)
      /\ \A k \in Slots : r.s.da[k] \in {s.da[k], EmptySlot}
      /\ Len(r.s.msgs) <= len /\ XidsApart(r.s.msgs)
      /\ Entries(r.s) \subseteq Entries(s)
      /\ \A e \in Entries(s) : r.s.da[e.slot] # EmptySlot => e \in Entries(r.s)
      /\ IsFiniteSet(r.out)
      /\ \A p \in r.out : \E e \in Entries(s) : Sent(s, e, p)
  BY <1>2, <1>5, <1>6 DEF Entries
<1>10. Tabled(r.s)
  <2>1. Len(r.s.msgs) \in Nat
    <3>1. r.s.msgs \in Seq(Messages)
      BY <1>8 DEF Agents
    <3> HIDE DEF Messages
    <3> QED
      BY <3>1
  <2>2. Len(r.s.msgs) <= MAX_RQST
    BY <1>1, <1>9, <2>1, Constants
  <2> QED
    BY <1>1, <1>8, <1>9, <2>2 DEF Tabled, SameButTables
<1>11. SlotsSound(r.s.da)
  <2> SUFFICES ASSUME NEW k \in Slots, r.s.da[k].ip # NULL
               PROVE  /\ r.s.da[k].timeout # 0 /\ r.s.da[k].counter # 0
                      /\ \A j \in Slots \ {k} : r.s.da[j].ip # r.s.da[k].ip
    BY DEF SlotsSound
  <2>1. r.s.da[k] = s.da[k]
    BY <1>9, EmptyIs
  <2>2. /\ s.da[k].timeout # 0 /\ s.da[k].counter # 0
        /\ \A j \in Slots \ {k} : s.da[j].ip # s.da[k].ip
    BY <2>1 DEF Sound, SlotsSound
  <2>3. \A j \in Slots \ {k} : r.s.da[j].ip # r.s.da[k].ip
    BY <1>9, <2>1, <2>2, EmptyIs
  <2> QED
    BY <2>1, <2>2, <2>3
<1> QED
  BY <1>8, <1>9, <1>10, <1>11 DEF Sound

-----------------------------------------------------------------------------
(***************************************************************************)
(* The search for DAs.                                                     *)
(***************************************************************************)
\* t is s but for its search.
SameButSearch(s, t) ==
  /\ t.dead = s.dead /\ t.open = s.open /\ t.closing = s.closing /\ t.da = s.da
  /\ t.msgs = s.msgs /\ t.url = s.url /\ t.reg = s.reg

\* Search: the same discovery goes on, under a new number.
LEMMA SearchIs ==
  ASSUME NEW s, Sound(s), WireOK, NEW n \in Nat, NEW t, t = Search(s, n)
  PROVE  /\ Sound(t) /\ SameButSearch(s, t)
         /\ t.dda.discover = s.dda.discover /\ t.dda.counter = CONFIG_MC_MAX
         /\ t.dda.xid = NewXid(s)
<1> DEFINE x == NewXid(s)
           a == [s.dda EXCEPT !.counter = CONFIG_MC_MAX]
           b == [a EXCEPT !.xmits = n]
           c == [b EXCEPT !.xid = x]
<1>1. Tabled(s) /\ s.dda \in Searches /\ s \in Agents
  BY AgentFields DEF Sound
<1>2. x \in Nat
  BY <1>1, NewXidIs
<1>3. t = [s EXCEPT !.dda = c]
  BY <1>1 DEF Search, Agents
<1> HIDE DEF x
<1>4. a \in Searches /\ a.discover = s.dda.discover /\ a.counter = CONFIG_MC_MAX
  BY <1>1, Constants DEF Searches
<1> HIDE DEF a
<1>5. b \in Searches /\ b.discover = s.dda.discover /\ b.counter = CONFIG_MC_MAX
  BY <1>4 DEF Searches
<1> HIDE DEF b
<1>6. c \in Searches /\ c.discover = s.dda.discover /\ c.counter = CONFIG_MC_MAX /\ c.xid = x
  BY <1>2, <1>5 DEF Searches
<1> HIDE DEF c
<1>7. Tabled(t) /\ SameButSearch(s, t) /\ t.dda = c
  BY <1>1, <1>3, <1>6, OtherSearch DEF SameButSearch
<1> QED
  BY <1>6, <1>7 DEF Sound, SameButSearch, x

\* The search waits, or has ended and the next one begins after a while.
LEMMA TickSearchIs ==
  ASSUME NEW s, Sound(s), WireOK, NEW t, t = TickSearch(s)
  PROVE  /\ Sound(t) /\ SameButSearch(s, t)
         /\ t.dda.discover = s.dda.discover /\ t.dda.xid \in {0, s.dda.xid}
         /\ \/ t = s /\ ~s.dda.discover
            \/ s.dda.counter # 0 /\ t.dda.counter = s.dda.counter - 1
            \/ s.dda.counter = 0 /\ s.dda.discover /\ t.dda.xmits = 0
               /\ t.dda.counter = CONFIG_DA_FIND
<1>1. Tabled(s) /\ s.dda \in Searches /\ s \in Agents
  BY AgentFields DEF Sound
<1>2. s.dda.counter \in Nat
  BY <1>1 DEF Searches
<1>3. CASE ~s.dda.discover
  BY <1>3 DEF TickSearch, SameButSearch
<1>4. CASE s.dda.discover /\ s.dda.counter # 0
  <2> DEFINE c == [s.dda EXCEPT !.counter = @ - 1]
  <2>1. t = [s EXCEPT !.dda = c]
    BY <1>1, <1>4 DEF TickSearch, Agents
  <2>2. c \in Searches /\ c.discover = s.dda.discover /\ c.xid = s.dda.xid
        /\ c.counter = s.dda.counter - 1
    <3>1. s.dda.counter - 1 \in Nat
      BY <1>2, <1>4
    <3> QED
      BY <1>1, <3>1 DEF Searches
  <2> HIDE DEF c
  <2>3. Tabled(t) /\ SameButSearch(s, t) /\ t.dda = c
    BY <1>1, <2>1, <2>2, OtherSearch DEF SameButSearch
  <2> QED
    BY <1>4, <2>2, <2>3 DEF Sound, SameButSearch
<1>5. CASE s.dda.discover /\ s.dda.counter = 0
  <2> DEFINE a == [s.dda EXCEPT !.counter = CONFIG_DA_FIND]
             b == [a EXCEPT !.xmits = 0]
             c == [b EXCEPT !.xid = 0]
  <2>1. t = [s EXCEPT !.dda = c]
    BY <1>1, <1>5 DEF TickSearch, Agents
  <2>2. a \in Searches /\ a.discover = s.dda.discover /\ a.counter = CONFIG_DA_FIND
    BY <1>1, Constants DEF Searches
  <2> HIDE DEF a
  <2>3. b \in Searches /\ b.discover = s.dda.discover /\ b.counter = CONFIG_DA_FIND
        /\ b.xmits = 0
    BY <2>2 DEF Searches
  <2> HIDE DEF b
  <2>4. c \in Searches /\ c.discover = s.dda.discover /\ c.counter = CONFIG_DA_FIND
        /\ c.xmits = 0 /\ c.xid = 0
    BY <2>3 DEF Searches
  <2> HIDE DEF c
  <2>5. Tabled(t) /\ SameButSearch(s, t) /\ t.dda = c
    BY <1>1, <2>1, <2>4, OtherSearch DEF SameButSearch
  <2> QED
    BY <1>5, <2>4, <2>5 DEF Sound, SameButSearch
<1> QED
  BY <1>3, <1>4, <1>5

\* What a search sends.
LEMMA DiscoverIs ==
  ASSUME NEW s, Tabled(s)
  PROVE  /\ slp_discover_da(s) \in SUBSET Packets /\ IsFiniteSet(slp_discover_da(s))
         /\ \A p \in slp_discover_da(s) :
              p.dir = "to" /\ p.type = "DISCOVER" /\ p.xid = s.dda.xid
<1>1. CASE ~s.open
  BY <1>1, FS_EmptySet DEF slp_discover_da
<1>2. CASE s.open
  <2> DEFINE asked == DAs \ da_ip_list(s)
             f == [d \in asked |-> ToDa(d, "DISCOVER", s.dda.xid, NULL)]
             out == slp_discover_da(s)
  <2>1. s.dda.xid \in Nat
    BY AgentFields DEF Searches
  <2>2. out = {ToDa(d, "DISCOVER", s.dda.xid, NULL) : d \in asked}
    BY <1>2 DEF slp_discover_da
  <2>3. \A d \in asked :
          LET p == ToDa(d, "DISCOVER", s.dda.xid, NULL)
          IN  p \in Packets /\ p.dir = "to" /\ p.type = "DISCOVER" /\ p.xid = s.dda.xid
    BY <2>1, Constants DEF ToDa, Packets, Texts
  <2>4. IsFiniteSet(asked)
    BY NetworkIsFinite, FS_Subset
  <2> HIDE DEF asked, out
  <2>5. f \in Surjection(asked, out)
    BY <2>2 DEF Surjection
  <2>6. IsFiniteSet(out)
    BY <2>4, <2>5, FS_Surjection
  <2>7. out \in SUBSET Packets
        /\ \A p \in out : p.dir = "to" /\ p.type = "DISCOVER" /\ p.xid = s.dda.xid
    BY <2>2, <2>3
  <2> QED
    BY <2>6, <2>7 DEF out
<1> QED
  BY <1>1, <1>2, AgentFields

\* slp_tick.
LEMMA TickIs ==
  ASSUME NEW s, Sound(s), WireOK, NEW delay \in Nat, NEW r, r = slp_tick(s, delay)
  PROVE  /\ Sound(r.s) /\ r.out \in SUBSET Packets /\ IsFiniteSet(r.out)
         /\ \/ /\ SearchDue(s) /\ SameButSearch(s, r.s)
               /\ r.s.dda.discover = s.dda.discover /\ r.s.dda.counter = CONFIG_MC_MAX
               /\ r.s.dda.xid = NewXid(s)
               /\ \A p \in r.out : p.dir = "to" /\ p.type = "DISCOVER" /\ p.xid = NewXid(s)
            \/ ~SearchDue(s) /\ r = TickMsgs(TickDas(TickSearch(s), delay))
<1>1. CASE SearchDue(s)
  <2> DEFINE n == s.dda.xmits + 1
             t == Search(s, n)
  <2>1. n \in Nat
    BY AgentFields DEF Sound, Searches
  <2>2. /\ Sound(t) /\ SameButSearch(s, t)
        /\ t.dda.discover = s.dda.discover /\ t.dda.counter = CONFIG_MC_MAX
        /\ t.dda.xid = NewXid(s)
    <3> HIDE DEF n
    <3> QED
      BY <2>1, SearchIs
  <2>3. r = Result(t, slp_discover_da(t))
    BY <1>1 DEF slp_tick
  <2> HIDE DEF t
  <2>4. r.s = t /\ r.out = slp_discover_da(t)
    BY <2>3 DEF Result
  <2>5. /\ slp_discover_da(t) \in SUBSET Packets /\ IsFiniteSet(slp_discover_da(t))
        /\ \A p \in slp_discover_da(t) :
             p.dir = "to" /\ p.type = "DISCOVER" /\ p.xid = t.dda.xid
    BY <2>2, DiscoverIs DEF Sound
  <2> QED
    BY <1>1, <2>2, <2>4, <2>5
<1>2. CASE ~SearchDue(s)
  <2> DEFINE t == TickSearch(s)
             u == TickDas(t, delay)
  <2>1. r = TickMsgs(u)
    BY <1>2 DEF slp_tick
  <2>2. Sound(t)
    BY TickSearchIs
  <2> HIDE DEF t
  <2>3. Sound(u)
    BY <2>2, TickDasEffect
  <2> HIDE DEF u
  <2>4. Sound(r.s) /\ r.out \in SUBSET Packets /\ IsFiniteSet(r.out)
    BY <2>1, <2>3, TickMsgsEffect
  <2> QED
    BY <1>2, <2>1, <2>4 DEF t, u
<1> QED
  BY <1>1, <1>2

-----------------------------------------------------------------------------
(***************************************************************************)
(* Registrations.                                                          *)
(***************************************************************************)
\* The process dies.
LEMMA DeadIs ==
  ASSUME NEW s, Tabled(s), NEW t, t = [s EXCEPT !.dead = TRUE]
  PROVE  /\ Tabled(t) /\ t.dead = TRUE /\ t.msgs = s.msgs /\ t.open = s.open
         /\ t.closing = s.closing /\ t.dda = s.dda /\ t.url = s.url /\ t.da = s.da /\ t.reg = s.reg
BY DEF Tabled, Agents

\* Another text in the buffer.
LEMMA OtherUrl ==
  ASSUME NEW s, Tabled(s), NEW u \in Urls, NEW t, t = [s EXCEPT !.url = u]
  PROVE  /\ Tabled(t) /\ t.url = u /\ t.msgs = s.msgs /\ t.open = s.open /\ t.dead = s.dead
         /\ t.closing = s.closing /\ t.dda = s.dda /\ t.da = s.da /\ t.reg = s.reg
BY DEF Tabled, Agents

\* All messages that were added are of this type, and of the text in the buffer.
Only(s, t, type) ==
  /\ Entries(s) \subseteq Entries(t)
  /\ \A e \in Entries(t) \ Entries(s) : e.type = type /\ e.url = s.url

\* What deregistering changes: messages, and whether something is registered.
Deregistered(s, t) ==
  /\ Sound(t) /\ t.da = s.da /\ t.open = s.open /\ t.closing = s.closing
  /\ t.dda = s.dda /\ t.url = s.url /\ Only(s, t, "DEREG")
  /\ t.reg => s.reg

\* One more message of the kind.
LEMMA DeregPropIs ==
  ASSUME NEW s, Sound(s), WireOK, NEW u, Deregistered(s, u), NEW k \in Slots,
         NEW t, t = da_dereg_prop(u, k)
  PROVE  Deregistered(s, t)
<1>1. Tabled(u) /\ u.url \in Texts
  BY AgentFields DEF Deregistered, Sound, Texts
<1>2. t = msg_new(u, "DEREG", k, u.url, 0)
  BY DEF da_dereg_prop
<1>3. /\ Tabled(t) /\ SameButMsgs(u, t)
      /\ \/ Len(u.msgs) = MAX_RQST /\ t = u
         \/ /\ Len(t.msgs) = Len(u.msgs) + 1
            /\ Entries(t) = Entries(u) \cup
                 {[type |-> "DEREG", slot |-> k, url |-> u.url, xid |-> NewXid(u)]}
  BY <1>1, <1>2, MsgNewIs
<1> QED
  BY <1>3 DEF Deregistered, Sound, SameButMsgs, Only

\* A round of slp_dereg.
LEMMA DeregAtIs ==
  ASSUME NEW s, Sound(s), WireOK, NEW u, Deregistered(s, u), NEW k \in Slots,
         NEW t, t = DeregAt(u, k)
  PROVE  Deregistered(s, t)
<1>1. Tabled(u) /\ u.reg \in BOOLEAN
  BY AgentFields DEF Deregistered, Sound
<1>2. CASE u.da[k].ip = NULL
  BY <1>2 DEF DeregAt
<1>3. CASE u.da[k].ip # NULL /\ u.reg
  <2> DEFINE v == da_dereg_prop(u, k)
  <2>1. t = [v EXCEPT !.reg = FALSE]
    BY <1>3 DEF DeregAt, reg_prop_del
  <2>2. Deregistered(s, v)
    BY DeregPropIs
  <2> HIDE DEF v
  <2>3. /\ Tabled(t) /\ t.reg = FALSE /\ t.msgs = v.msgs
        /\ t.open = v.open /\ t.closing = v.closing /\ t.dda = v.dda
        /\ t.url = v.url /\ t.da = v.da
    <3>1. Tabled(v)
      BY <2>2 DEF Deregistered, Sound
    <3> QED
      BY <2>1, <3>1, NoReg
  <2> QED
    BY <2>2, <2>3 DEF Deregistered, Sound, Only, Entries
<1>4. CASE u.da[k].ip # NULL /\ ~u.reg
  <2>1. t = [u EXCEPT !.dead = TRUE]
    BY <1>4 DEF DeregAt
  <2>2. /\ Tabled(t) /\ t.msgs = u.msgs /\ t.open = u.open
        /\ t.closing = u.closing /\ t.dda = u.dda /\ t.url = u.url /\ t.da = u.da
        /\ t.reg = u.reg
    BY <1>1, <2>1 DEF Tabled, Agents
  <2> QED
    BY <2>2 DEF Deregistered, Sound, Only, Entries
<1> QED
  BY <1>1, <1>2, <1>3, <1>4

\* slp_dereg.
LEMMA DeregIs ==
  ASSUME NEW s, Sound(s), WireOK, NEW t, t = slp_dereg(s)
  PROVE  Deregistered(s, t)
<1> DEFINE D == {u \in Agents : Deregistered(s, u)}
<1>0. \A u : Deregistered(s, u) => u \in D
  BY DEF Deregistered, Sound, Tabled
<1> DEFINE P(f) == f = [k \in 0 .. MAX_DA |-> IF k = 0 THEN s ELSE DeregAt(f[k - 1], k)]
           step == [k \in Slots |-> [u \in D |-> DeregAt(u, k)]]
           d == CHOOSE f : P(f)
<1>1. ForAllSlots(DeregAt, s) = d[MAX_DA]
  BY DEF ForAllSlots
<1>2. MAX_DA \in Nat /\ Slots = 1 .. MAX_DA
  BY Constants DEF Slots
<1>3. \A k \in Slots, u \in D : DeregAt(u, k) \in D
  BY <1>0, DeregAtIs
<1>4. s \in D
  BY <1>0 DEF Deregistered, Only
<1> HIDE DEF D
<1>5. step \in [1 .. MAX_DA -> [D -> D]]
  BY <1>2, <1>3
<1>6. PICK f \in [0 .. MAX_DA -> D] : IsLoop(step, s, MAX_DA, f)
  <2> HIDE DEF step
  <2> QED
    BY <1>2, <1>4, <1>5, LoopExists
<1>7. \A k \in 0 .. MAX_DA : f[k] = IF k = 0 THEN s ELSE DeregAt(f[k - 1], k)
  <2> SUFFICES ASSUME NEW k \in 0 .. MAX_DA
               PROVE  f[k] = IF k = 0 THEN s ELSE DeregAt(f[k - 1], k)
    OBVIOUS
  <2>1. f[k] = IF k = 0 THEN s ELSE step[k][f[k - 1]]
    BY <1>6, Zenon DEF IsLoop
  <2>2. CASE k = 0
    BY <2>1, <2>2
  <2>3. CASE k # 0
    <3>1. k \in Slots /\ f[k - 1] \in D
      BY <1>2, <1>6, <2>3
    <3> QED
      BY <2>1, <2>3, <3>1
  <2> QED
    BY <2>2, <2>3
<1>8. P(d)
  <2>1. f = [k \in 0 .. MAX_DA |-> f[k]]
    BY <1>6
  <2>2. P(f)
    BY <1>7, <2>1
  <2> QED
    BY <2>2
<1> HIDE DEF d, step
<1>9. \A k \in 0 .. MAX_DA : d[k] = IF k = 0 THEN s ELSE DeregAt(d[k - 1], k)
  BY <1>8, Zenon
<1>10. MAX_DA \in 0 .. MAX_DA /\ \A k \in 0 .. MAX_DA : d[k] \in D
  <2> DEFINE S == {k \in 0 .. MAX_DA : d[k] \in D}
  <2>1. 0 \in S
    BY <1>2, <1>4, <1>9
  <2>2. \A k \in 1 .. MAX_DA : k - 1 \in S => k \in S
    BY <1>2, <1>3, <1>9
  <2> HIDE DEF S
  <2>3. \A k \in 0 .. MAX_DA : k \in S
    BY <1>2, <2>1, <2>2, Throughout
  <2> QED
    BY <1>2, <2>3 DEF S
<1>11. ForAllSlots(DeregAt, s) \in D
  BY <1>1, <1>10
<1>12. Deregistered(s, s) /\ Deregistered(s, ForAllSlots(DeregAt, s))
  BY <1>4, <1>11 DEF D
<1> QED
  BY <1>12 DEF slp_dereg

\* A round of da_dereg_all.
LEMMA DeregAllAtIs ==
  ASSUME NEW s, Sound(s), WireOK, NEW u, Deregistered(s, u), NEW k \in Slots,
         NEW t, t = DeregAllAt(u, k)
  PROVE  Deregistered(s, t)
BY DeregPropIs DEF DeregAllAt

\* slp_dereg_all: nothing is registered then.
LEMMA DeregAllIs ==
  ASSUME NEW s, Sound(s), WireOK, NEW t, t = slp_dereg_all(s)
  PROVE  Deregistered(s, t) /\ t.reg = FALSE
<1> DEFINE D == {u \in Agents : Deregistered(s, u)}
<1>0. \A u : Deregistered(s, u) => u \in D
  BY DEF Deregistered, Sound, Tabled
<1> DEFINE P(f) == f = [k \in 0 .. MAX_DA |-> IF k = 0 THEN s ELSE DeregAllAt(f[k - 1], k)]
           step == [k \in Slots |-> [u \in D |-> DeregAllAt(u, k)]]
           d == CHOOSE f : P(f)
<1>1. ForAllSlots(DeregAllAt, s) = d[MAX_DA]
  BY DEF ForAllSlots
<1>2. MAX_DA \in Nat /\ Slots = 1 .. MAX_DA
  BY Constants DEF Slots
<1>3. \A k \in Slots, u \in D : DeregAllAt(u, k) \in D
  BY <1>0, DeregAllAtIs
<1>4. s \in D
  BY <1>0 DEF Deregistered, Only
<1> HIDE DEF D
<1>5. step \in [1 .. MAX_DA -> [D -> D]]
  BY <1>2, <1>3
<1>6. PICK f \in [0 .. MAX_DA -> D] : IsLoop(step, s, MAX_DA, f)
  <2> HIDE DEF step
  <2> QED
    BY <1>2, <1>4, <1>5, LoopExists
<1>7. \A k \in 0 .. MAX_DA : f[k] = IF k = 0 THEN s ELSE DeregAllAt(f[k - 1], k)
  <2> SUFFICES ASSUME NEW k \in 0 .. MAX_DA
               PROVE  f[k] = IF k = 0 THEN s ELSE DeregAllAt(f[k - 1], k)
    OBVIOUS
  <2>1. f[k] = IF k = 0 THEN s ELSE step[k][f[k - 1]]
    BY <1>6, Zenon DEF IsLoop
  <2>2. CASE k = 0
    BY <2>1, <2>2
  <2>3. CASE k # 0
    <3>1. k \in Slots /\ f[k - 1] \in D
      BY <1>2, <1>6, <2>3
    <3> QED
      BY <2>1, <2>3, <3>1
  <2> QED
    BY <2>2, <2>3
<1>8. P(d)
  <2>1. f = [k \in 0 .. MAX_DA |-> f[k]]
    BY <1>6
  <2>2. P(f)
    BY <1>7, <2>1
  <2> QED
    BY <2>2
<1> HIDE DEF d, step
<1>9. \A k \in 0 .. MAX_DA : d[k] = IF k = 0 THEN s ELSE DeregAllAt(d[k - 1], k)
  BY <1>8, Zenon
<1>10. MAX_DA \in 0 .. MAX_DA /\ \A k \in 0 .. MAX_DA : d[k] \in D
  <2> DEFINE S == {k \in 0 .. MAX_DA : d[k] \in D}
  <2>1. 0 \in S
    BY <1>2, <1>4, <1>9
  <2>2. \A k \in 1 .. MAX_DA : k - 1 \in S => k \in S
    BY <1>2, <1>3, <1>9
  <2> HIDE DEF S
  <2>3. \A k \in 0 .. MAX_DA : k \in S
    BY <1>2, <2>1, <2>2, Throughout
  <2> QED
    BY <1>2, <2>3 DEF S
<1> DEFINE v == ForAllSlots(DeregAllAt, s)
<1>11. v \in D
  BY <1>1, <1>10
<1>12. Deregistered(s, s) /\ Deregistered(s, v)
  BY <1>4, <1>11 DEF D
<1> HIDE DEF v
<1>13. CASE s.reg
  <2>1. t = [v EXCEPT !.reg = FALSE]
    BY <1>13 DEF slp_dereg_all, da_dereg_all, v
  <2>2. /\ Tabled(t) /\ t.reg = FALSE /\ t.msgs = v.msgs
        /\ t.open = v.open /\ t.closing = v.closing /\ t.dda = v.dda
        /\ t.url = v.url /\ t.da = v.da
    <3>1. Tabled(v)
      BY <1>12 DEF Deregistered, Sound
    <3> QED
      BY <2>1, <3>1, NoReg
  <2> QED
    BY <1>12, <2>2 DEF Deregistered, Sound, Only, Entries
<1>14. CASE ~s.reg
  <2>1. s.reg = FALSE
    BY <1>14, AgentFields DEF Sound
  <2> QED
    BY <1>12, <1>14, <2>1 DEF slp_dereg_all
<1> QED
  BY <1>13, <1>14

\* What registering changes: messages.
Registered(s, t) == Sound(t) /\ SameButMsgs(s, t) /\ Only(s, t, "REG")

\* A round of slp_reg.
LEMMA RegAtIs ==
  ASSUME NEW s, Sound(s), WireOK, NEW k \in Slots, NEW t, t = RegAt(s, k)
  PROVE  /\ Registered(s, t) /\ Len(t.msgs) <= Len(s.msgs) + 1
         /\ s.da[k].ip # NULL /\ Len(s.msgs) < MAX_RQST => IsTold(s, t, k)
<1>1. Tabled(s) /\ s \in Agents /\ s.url \in Texts /\ Len(s.msgs) \in Nat
  BY AgentFields DEF Sound, Texts
<1>2. CASE s.da[k].ip = NULL
  BY <1>1, <1>2 DEF RegAt, Registered, SameButMsgs, Only
<1>3. CASE s.da[k].ip # NULL
  <2>1. t = msg_new(s, "REG", k, s.url, 0)
    BY <1>3 DEF RegAt, da_reg_prop
  <2>2. /\ Tabled(t) /\ SameButMsgs(s, t)
        /\ \/ Len(s.msgs) = MAX_RQST /\ t = s
           \/ /\ Len(t.msgs) = Len(s.msgs) + 1
              /\ Entries(t) = Entries(s) \cup
                   {[type |-> "REG", slot |-> k, url |-> s.url, xid |-> NewXid(s)]}
    BY <1>1, <2>1, 0 \in Nat, MsgNewIs
  <2>3. NewXid(s) \in Nat \ {0} /\ NewXid(s) \notin Xids(s)
    BY <1>1, NewXidIs
  <2>4. Sound(t)
    BY <2>2 DEF Sound, SameButMsgs
  <2>5. Len(t.msgs) <= Len(s.msgs) + 1
    BY <1>1, <2>2
  <2>6. Only(s, t, "REG")
    BY <2>2 DEF Only
  <2>7. Len(s.msgs) < MAX_RQST => IsTold(s, t, k)
    <3> SUFFICES ASSUME Len(s.msgs) < MAX_RQST PROVE IsTold(s, t, k)
      OBVIOUS
    <3>1. Len(s.msgs) # MAX_RQST
      BY <1>1, Constants
    <3>2. RegEntry(k, s.url, NewXid(s)) \in Entries(t)
      BY <2>2, <3>1 DEF RegEntry
    <3> QED
      BY <2>3, <3>2 DEF IsTold
  <2> QED
    BY <2>2, <2>4, <2>5, <2>6, <2>7 DEF Registered
<1> QED
  BY <1>2, <1>3

\* The loop of slp_reg: every DA is told, if there is room.
LEMMA RegAllIs ==
  ASSUME NEW s, Sound(s), WireOK, NEW t, t = ForAllSlots(RegAt, s)
  PROVE  /\ Registered(s, t)
         /\ Room(s) => \A k \in Slots : s.da[k].ip # NULL => IsTold(s, t, k)
<1> DEFINE D == {u \in Agents : Registered(s, u)}
<1>0. \A u : Registered(s, u) => u \in D
  BY DEF Registered, Sound, Tabled
<1> DEFINE P(f) == f = [k \in 0 .. MAX_DA |-> IF k = 0 THEN s ELSE RegAt(f[k - 1], k)]
           step == [k \in Slots |-> [u \in D |-> RegAt(u, k)]]
           d == CHOOSE f : P(f)
<1>1. ForAllSlots(RegAt, s) = d[MAX_DA]
  BY DEF ForAllSlots
<1>2. MAX_DA \in Nat /\ Slots = 1 .. MAX_DA
  BY Constants DEF Slots
<1>3. \A k \in Slots, u \in D : RegAt(u, k) \in D
  <2> SUFFICES ASSUME NEW k \in Slots, NEW u \in D PROVE RegAt(u, k) \in D
    OBVIOUS
  <2>1. Registered(s, u)
    OBVIOUS
  <2> DEFINE v == RegAt(u, k)
  <2>2. Registered(u, v)
    BY <2>1, RegAtIs DEF Registered
  <2> HIDE DEF v, D
  <2>3. Registered(s, v)
    BY <2>1, <2>2 DEF Registered, SameButMsgs, Only
  <2> QED
    BY <1>0, <2>3 DEF v
<1>4. s \in D
  BY <1>0 DEF Registered, SameButMsgs, Only
<1> HIDE DEF D
<1>5. step \in [1 .. MAX_DA -> [D -> D]]
  BY <1>2, <1>3
<1>6. PICK f \in [0 .. MAX_DA -> D] : IsLoop(step, s, MAX_DA, f)
  <2> HIDE DEF step
  <2> QED
    BY <1>2, <1>4, <1>5, LoopExists
<1>7. \A k \in 0 .. MAX_DA : f[k] = IF k = 0 THEN s ELSE RegAt(f[k - 1], k)
  <2> SUFFICES ASSUME NEW k \in 0 .. MAX_DA
               PROVE  f[k] = IF k = 0 THEN s ELSE RegAt(f[k - 1], k)
    OBVIOUS
  <2>1. f[k] = IF k = 0 THEN s ELSE step[k][f[k - 1]]
    BY <1>6, Zenon DEF IsLoop
  <2>2. CASE k = 0
    BY <2>1, <2>2
  <2>3. CASE k # 0
    <3>1. k \in Slots /\ f[k - 1] \in D
      BY <1>2, <1>6, <2>3
    <3> QED
      BY <2>1, <2>3, <3>1
  <2> QED
    BY <2>2, <2>3
<1>8. P(d)
  <2>1. f = [k \in 0 .. MAX_DA |-> f[k]]
    BY <1>6
  <2>2. P(f)
    BY <1>7, <2>1
  <2> QED
    BY <2>2
<1> HIDE DEF d, step
<1>9. \A k \in 0 .. MAX_DA : d[k] = IF k = 0 THEN s ELSE RegAt(d[k - 1], k)
  BY <1>8, Zenon
<1>10. MAX_DA \in 0 .. MAX_DA /\ \A k \in 0 .. MAX_DA : d[k] \in D
  <2> DEFINE S == {k \in 0 .. MAX_DA : d[k] \in D}
  <2>1. 0 \in S
    BY <1>2, <1>4, <1>9
  <2>2. \A k \in 1 .. MAX_DA : k - 1 \in S => k \in S
    BY <1>2, <1>3, <1>9
  <2> HIDE DEF S
  <2>3. \A k \in 0 .. MAX_DA : k \in S
    BY <1>2, <2>1, <2>2, Throughout
  <2> QED
    BY <1>2, <2>3 DEF S
<1>11. \A k \in 0 .. MAX_DA : Registered(s, d[k])
  BY <1>10 DEF D
<1> DEFINE I(n) == /\ Len(d[n].msgs) <= Len(s.msgs) + n
                   /\ Room(s) => \A k \in 1 .. n : s.da[k].ip # NULL => IsTold(s, d[n], k)
<1>12. Tabled(s) /\ Len(s.msgs) \in Nat
  BY AgentFields DEF Sound
<1>13. I(0)
  <2>1. d[0] = s
    BY <1>2, <1>9
  <2> QED
    BY <1>12, <2>1
<1>14. ASSUME NEW n \in 1 .. MAX_DA, I(n - 1) PROVE I(n)
  <2> DEFINE a == d[n - 1]
             b == d[n]
  <2>1. /\ n - 1 \in 0 .. MAX_DA /\ n \in 0 .. MAX_DA /\ n \in Slots /\ n # 0
    BY <1>2
  <2>2. b = RegAt(a, n) /\ Registered(s, a) /\ Registered(s, b)
    BY <1>9, <1>11, <2>1
  <2>3. /\ Len(a.msgs) <= Len(s.msgs) + (n - 1)
        /\ Room(s) => \A k \in 1 .. n - 1 : s.da[k].ip # NULL => IsTold(s, a, k)
    BY <1>14
  <2> HIDE DEF a, b
  <2>4. /\ Registered(a, b) /\ Len(b.msgs) <= Len(a.msgs) + 1
        /\ a.da[n].ip # NULL /\ Len(a.msgs) < MAX_RQST => IsTold(a, b, n)
    BY <2>1, <2>2, RegAtIs DEF Registered
  <2>5. Tabled(a) /\ Tabled(b) /\ Len(a.msgs) \in Nat /\ Len(b.msgs) \in Nat
    BY <2>2, AgentFields DEF Registered, Sound
  <2>6. Len(b.msgs) <= Len(s.msgs) + n
    BY <1>12, <2>3, <2>4, <2>5
  <2>7. ASSUME Room(s), NEW k \in 1 .. n, s.da[k].ip # NULL PROVE IsTold(s, b, k)
    <3>1. CASE k = n
      <4>1. a.da[n].ip # NULL /\ a.url = s.url /\ a.dda = s.dda /\ Entries(s) \subseteq Entries(a)
        BY <2>2, <2>7, <3>1 DEF Registered, SameButMsgs, Only
      <4>2. Len(a.msgs) < MAX_RQST
        BY <1>2, <1>12, <2>3, <2>5, <2>7, Constants DEF Room
      <4>3. IsTold(a, b, n)
        BY <2>4, <4>1, <4>2
      <4>4. Xids(s) \subseteq Xids(a)
        BY <1>12, <2>5, <4>1, XidsGrow
      <4> QED
        BY <3>1, <4>1, <4>3, <4>4 DEF IsTold
    <3>2. CASE k # n
      <4>1. k \in 1 .. n - 1
        BY <3>2
      <4>2. IsTold(s, a, k)
        BY <2>3, <2>7, <4>1
      <4> QED
        BY <2>4, <4>2 DEF IsTold, Registered, Only
    <3> QED
      BY <3>1, <3>2
  <2> QED
    BY <2>6, <2>7 DEF b
<1>15. I(MAX_DA)
  <2> DEFINE S == {n \in 0 .. MAX_DA : I(n)}
  <2>1. 0 \in S
    BY <1>2, <1>13
  <2>2. \A n \in 1 .. MAX_DA : n - 1 \in S => n \in S
    <3> HIDE DEF I
    <3> QED
      BY <1>2, <1>14
  <2> HIDE DEF S
  <2>3. \A n \in 0 .. MAX_DA : n \in S
    BY <1>2, <2>1, <2>2, Throughout
  <2> QED
    BY <1>10, <2>3 DEF S
<1>16. t = d[MAX_DA]
  BY <1>1
<1> QED
  BY <1>2, <1>10, <1>11, <1>15, <1>16

\* slp_reg.
LEMMA RegIs ==
  ASSUME NEW s, Sound(s), s.url \in Urls, WireOK, NEW t, t = slp_reg(s)
  PROVE  /\ Sound(t) /\ t.da = s.da /\ t.dead = s.dead /\ t.open = s.open
         /\ t.closing = s.closing /\ t.dda = s.dda /\ t.url = s.url /\ t.reg = TRUE
         /\ Only(s, t, "REG")
         /\ Room(s) => \A k \in Slots : s.da[k].ip # NULL => IsTold(s, t, k)
<1> DEFINE a == IF reg_prop_find(s) THEN s ELSE reg_prop_add(s)
<1>1. t = ForAllSlots(RegAt, a)
  BY DEF slp_reg
<1>2. /\ Tabled(a) /\ a.reg = TRUE /\ a.msgs = s.msgs
      /\ a.dead = s.dead /\ a.open = s.open /\ a.closing = s.closing /\ a.dda = s.dda
      /\ a.url = s.url /\ a.da = s.da
  <2>1. Tabled(s) /\ s.reg \in BOOLEAN
    BY AgentFields DEF Sound
  <2>2. CASE s.reg
    <3>1. a = s /\ s.reg = TRUE
      BY <2>1, <2>2 DEF reg_prop_find
    <3> HIDE DEF a
    <3> QED
      BY <2>1, <3>1
  <2>3. CASE ~s.reg
    <3>1. a = [s EXCEPT !.reg = TRUE]
      BY <2>3 DEF reg_prop_find, reg_prop_add
    <3> HIDE DEF a
    <3>2. s \in Agents /\ s.url \in Urls
      BY <2>1 DEF Tabled
    <3>3. /\ a \in Agents /\ a.reg = TRUE /\ a.msgs = s.msgs
          /\ a.dead = s.dead /\ a.open = s.open /\ a.closing = s.closing /\ a.dda = s.dda
          /\ a.url = s.url /\ a.da = s.da
      BY <3>1, <3>2 DEF Agents
    <3> QED
      BY <2>1, <3>2, <3>3 DEF Tabled
  <2> QED
    BY <2>2, <2>3
<1> HIDE DEF a
<1>3. Sound(a)
  BY <1>2 DEF Sound
<1>4. /\ Registered(a, t)
      /\ Room(a) => \A k \in Slots : a.da[k].ip # NULL => IsTold(a, t, k)
  BY <1>1, <1>3, RegAllIs
<1>5. Entries(a) = Entries(s) /\ Xids(a) = Xids(s) /\ (Room(a) <=> Room(s))
  BY <1>2 DEF Entries, Xids, Room
<1>6. \A k \in Slots : IsTold(a, t, k) => IsTold(s, t, k)
  BY <1>2, <1>5 DEF IsTold
<1>7. Only(s, t, "REG")
  BY <1>2, <1>4, <1>5 DEF Registered, Only
<1> QED
  BY <1>2, <1>4, <1>5, <1>6, <1>7 DEF Registered, SameButMsgs

-----------------------------------------------------------------------------
(***************************************************************************)
(* Requests and answers.                                                   *)
(***************************************************************************)
\* Requests are added, and nothing else.
Asked(s, t) ==
  /\ Sound(t) /\ SameButMsgs(s, t) /\ Entries(s) \subseteq Entries(t)
  /\ \A e \in Entries(t) \ Entries(s) : e.type \in {"SRVRQST", "ATTRRQST"}

\* Ask.
LEMMA AskIs ==
  ASSUME NEW s, Sound(s), WireOK, NEW type \in {"SRVRQST", "ATTRRQST"}, NEW u \in Texts,
         NEW t, t = Ask(s, type, u)
  PROVE  Asked(s, t)
<1> DEFINE k == da_first(s)
           S == {j \in Slots : s.da[j].ip # NULL}
<1>1. k = 0 \/ k \in Slots
  <2>1. S \in SUBSET Nat /\ S \in SUBSET Slots
    BY SlotsAre
  <2>2. k = FirstSlot(S)
    BY DEF da_first
  <2> HIDE DEF S, k
  <2> QED
    BY <2>1, <2>2, FirstSlotIs
<1>2. CASE k = 0
  <2>1. t = s
    BY <1>2 DEF Ask
  <2> QED
    BY <2>1 DEF Asked, SameButMsgs
<1>3. CASE k # 0
  <2>1. t = msg_new(s, type, k, u, 0)
    BY <1>3 DEF Ask
  <2> HIDE DEF k
  <2>2. k \in Slots /\ Tabled(s) /\ 0 \in Nat /\ type \in {"REG", "DEREG", "SRVRQST", "ATTRRQST"}
    BY <1>1, <1>3 DEF Sound
  <2>3. /\ Tabled(t) /\ SameButMsgs(s, t)
        /\ \/ Len(s.msgs) = MAX_RQST /\ t = s
           \/ /\ Len(t.msgs) = Len(s.msgs) + 1
              /\ Entries(t) = Entries(s) \cup
                   {[type |-> type, slot |-> k, url |-> u, xid |-> NewXid(s)]}
    BY <2>1, <2>2, MsgNewIs
  <2> QED
    BY <2>3 DEF Asked, Sound, SameButMsgs
<1> QED
  BY <1>2, <1>3

\* The members of a finite set one after the other.
LEMMA SetToSeqIs ==
  ASSUME NEW S, IsFiniteSet(S), NEW q, q = SetToSeq(S)
  PROVE  Len(q) \in Nat /\ \A i \in 1 .. Len(q) : q[i] \in S
<1> DEFINE n == Cardinality(S)
           P(h) == \A a, b \in DOMAIN h : h[a] = h[b] => a = b
<1>1. n \in Nat /\ ExistsBijection(1 .. n, S)
  BY FS_CardinalityType
<1> HIDE DEF n
<1>2. PICK f \in [1 .. n -> S] : P(f)
  BY <1>1 DEF ExistsBijection, Bijection, Injection, IsInjective
<1>3. q = CHOOSE h \in [1 .. n -> S] : P(h)
  BY DEF SetToSeq, IsInjective, n
<1> HIDE DEF P
<1>4. q \in [1 .. n -> S]
  BY <1>2, <1>3
<1>5. Len(q) = n
  BY <1>1, <1>4
<1> QED
  BY <1>1, <1>4, <1>5

\* Every component of an answer is asked for its attributes.
LEMMA CallbacksAre ==
  ASSUME NEW s, Sound(s), WireOK, NEW q, Len(q) \in Nat, \A i \in 1 .. Len(q) : q[i] \in Texts,
         NEW t, t = InTurn(srvrqst_callback, s, q)
  PROVE  Asked(s, t)
<1> DEFINE len == Len(q)
           D == {u \in Agents : Asked(s, u)}
           P(f) == f = [n \in 0 .. Len(q) |-> IF n = 0 THEN s ELSE srvrqst_callback(f[n - 1], q[n])]
           step == [n \in 1 .. len |-> [u \in D |-> srvrqst_callback(u, q[n])]]
           d == CHOOSE f : P(f)
<1>1. t = d[Len(q)]
  BY DEF InTurn
<1>2. len \in Nat /\ Len(q) = len /\ \A n \in 1 .. len : q[n] \in Texts
  OBVIOUS
<1>3. \A n \in 1 .. len, u \in D : srvrqst_callback(u, q[n]) \in D
  <2> SUFFICES ASSUME NEW n \in 1 .. len, NEW u \in D PROVE srvrqst_callback(u, q[n]) \in D
    OBVIOUS
  <2> DEFINE v == srvrqst_callback(u, q[n])
  <2>1. Asked(s, u)
    OBVIOUS
  <2>2. v = Ask(u, "ATTRRQST", q[n])
    BY DEF srvrqst_callback, slp_attrrqst
  <2> HIDE DEF D, v, len
  <2>3. Asked(u, v)
    BY <1>2, <2>1, <2>2, AskIs DEF Asked
  <2>4. Asked(s, v) /\ v \in Agents
    BY <2>1, <2>3 DEF Asked, SameButMsgs, Sound, Tabled
  <2> QED
    BY <2>4 DEF D, v
<1>4. s \in D
  BY DEF Asked, SameButMsgs, Sound, Tabled
<1> HIDE DEF D, len
<1>5. step \in [1 .. len -> [D -> D]]
  BY <1>3
<1>6. PICK f \in [0 .. len -> D] : IsLoop(step, s, len, f)
  <2> HIDE DEF step
  <2> QED
    BY <1>2, <1>4, <1>5, LoopExists
<1>7. \A n \in 0 .. len : f[n] = IF n = 0 THEN s ELSE srvrqst_callback(f[n - 1], q[n])
  <2> SUFFICES ASSUME NEW n \in 0 .. len
               PROVE  f[n] = IF n = 0 THEN s ELSE srvrqst_callback(f[n - 1], q[n])
    OBVIOUS
  <2>1. f[n] = IF n = 0 THEN s ELSE step[n][f[n - 1]]
    BY <1>6, Zenon DEF IsLoop
  <2>2. CASE n = 0
    BY <2>1, <2>2
  <2>3. CASE n # 0
    <3>1. n \in 1 .. len /\ f[n - 1] \in D
      BY <1>2, <1>6, <2>3
    <3> QED
      BY <2>1, <2>3, <3>1
  <2> QED
    BY <2>2, <2>3
<1>8. P(d)
  <2>1. f = [n \in 0 .. len |-> f[n]]
    BY <1>6
  <2>2. P(f)
    BY <1>2, <1>7, <2>1
  <2> QED
    BY <2>2
<1> HIDE DEF d, step
<1>9. \A n \in 0 .. len : d[n] = IF n = 0 THEN s ELSE srvrqst_callback(d[n - 1], q[n])
  BY <1>2, <1>8, Zenon
<1>10. len \in 0 .. len /\ \A n \in 0 .. len : d[n] \in D
  <2> DEFINE S == {n \in 0 .. len : d[n] \in D}
  <2>1. 0 \in S
    BY <1>2, <1>4, <1>9
  <2>2. \A n \in 1 .. len : n - 1 \in S => n \in S
    BY <1>2, <1>3, <1>9
  <2> HIDE DEF S
  <2>3. \A n \in 0 .. len : n \in S
    BY <1>2, <2>1, <2>2, Throughout
  <2> QED
    BY <1>2, <2>3 DEF S
<1> QED
  BY <1>1, <1>2, <1>10 DEF D

\* The message of a number goes, and no other.
Freed(s, t, x) ==
  /\ Sound(t) /\ SameButMsgs(s, t)
  /\ Entries(t) = {e \in Entries(s) : e.xid # x}
  /\ x \notin {t.msgs[i].xid : i \in DOMAIN t.msgs}

\* msg_free.
LEMMA MsgFreeIs ==
  ASSUME NEW s, Sound(s), NEW x, NEW t, t = msg_free(s, x)
  PROVE  Freed(s, t, x)
<1> DEFINE q == s.msgs
<1>1. /\ Tabled(s) /\ q \in Seq(Messages) /\ Len(q) \in Nat /\ DOMAIN q = 1 .. Len(q)
      /\ Len(q) <= MAX_RQST /\ XidsApart(q) /\ \A i \in DOMAIN q : q[i] \in Messages
  BY AgentFields DEF Sound, Tabled
<1>2. Numbered(s, x) = {i \in DOMAIN q : q[i].xid = x}
  BY DEF Numbered
<1>3. \A i \in DOMAIN q : Entry(q[i]).xid = q[i].xid
  BY DEF Entry
<1>4. Entries(s) = {Entry(q[i]) : i \in DOMAIN q}
  BY DEF Entries, EntriesOf
<1>5. CASE Numbered(s, x) = {}
  <2>1. t = s
    BY <1>5 DEF msg_free
  <2>2. \A i \in DOMAIN q : q[i].xid # x
    BY <1>2, <1>5
  <2> HIDE DEF q
  <2>3. Entries(s) = {e \in Entries(s) : e.xid # x}
    BY <1>3, <1>4, <2>2
  <2> QED
    BY <2>1, <2>2, <2>3 DEF Freed, SameButMsgs, q
<1>6. CASE Numbered(s, x) # {}
  <2> DEFINE i == CHOOSE j \in Numbered(s, x) : TRUE
             r == RemoveAt(q, i)
             old(j) == IF j < i THEN j ELSE j + 1
  <2>1. i \in DOMAIN q /\ q[i].xid = x
    BY <1>2, <1>6
  <2>2. t = [s EXCEPT !.msgs = r]
    BY <1>6 DEF msg_free
  <2> HIDE DEF i, q
  <2>3. i \in Int /\ i - 1 \in Int /\ i + 1 \in Int /\ 1 \in Int /\ 1 <= i /\ i <= Len(q)
    BY <1>1, <2>1
  <2>4. /\ r \in Seq(Messages) /\ Len(r) = Len(q) - 1
        /\ \A j \in 1 .. Len(q) - 1 : r[j] = q[old(j)]
    <3> DEFINE a == SubSeq(q, 1, i - 1)
               b == SubSeq(q, i + 1, Len(q))
    <3>1. \A j \in 1 .. i - 1 : q[j] \in Messages
      BY <1>1, <2>3
    <3>2. \A j \in i + 1 .. Len(q) : q[j] \in Messages
      BY <1>1, <2>3
    <3> HIDE DEF Messages
    <3>3. /\ a \in Seq(Messages) /\ Len(a) = i - 1
          /\ \A j \in 1 .. i - 1 : a[j] = q[j]
      <4>1. /\ a \in Seq(Messages) /\ Len(a) = IF 1 <= i - 1 THEN i - 1 - 1 + 1 ELSE 0
            /\ \A j \in 1 .. i - 1 - 1 + 1 : a[j] = q[1 + j - 1]
        BY <2>3, <3>1, SubSeqProperties
      <4> QED
        BY <2>3, <4>1
    <3>4. /\ b \in Seq(Messages) /\ Len(b) = Len(q) - i
          /\ \A j \in 1 .. Len(q) - i : b[j] = q[i + j]
      <4>1. Len(q) \in Int
        BY <1>1
      <4>2. /\ b \in Seq(Messages) /\ Len(b) = IF i + 1 <= Len(q) THEN Len(q) - (i + 1) + 1 ELSE 0
            /\ \A j \in 1 .. Len(q) - (i + 1) + 1 : b[j] = q[i + 1 + j - 1]
        BY <2>3, <3>2, <4>1, SubSeqProperties
      <4>3. Len(b) = Len(q) - i
        <5> HIDE DEF b
        <5>1. CASE i + 1 <= Len(q)
          BY <1>1, <2>3, <4>2, <5>1
        <5>2. CASE ~(i + 1 <= Len(q))
          <6>1. \A n \in Int, m \in Int : m <= n /\ ~(m + 1 <= n) => m = n
            OBVIOUS
          <6>2. i = Len(q)
            BY <2>3, <4>1, <5>2, <6>1
          <6> QED
            BY <1>1, <4>2, <5>2, <6>2
        <5> QED
          BY <5>1, <5>2
      <4>4. ASSUME NEW j \in 1 .. Len(q) - i PROVE b[j] = q[i + j]
        <5>1. j \in 1 .. Len(q) - (i + 1) + 1 /\ i + 1 + j - 1 = i + j
          BY <1>1, <2>3
        <5> QED
          BY <4>2, <5>1
      <4> QED
        BY <4>2, <4>3, <4>4
    <3>5. r = a \o b
      BY DEF RemoveAt
    <3> HIDE DEF a, b, r
    <3>6. /\ r \in Seq(Messages) /\ Len(r) = Len(a) + Len(b)
          /\ \A j \in 1 .. Len(a) + Len(b) :
               r[j] = IF j <= Len(a) THEN a[j] ELSE b[j - Len(a)]
      BY <3>3, <3>4, <3>5, ConcatProperties
    <3>7. Len(r) = Len(q) - 1
      BY <1>1, <2>3, <3>3, <3>4, <3>6
    <3>8. ASSUME NEW j \in 1 .. Len(q) - 1 PROVE r[j] = q[old(j)]
      <4>1. CASE j < i
        <5>1. j \in 1 .. Len(a) + Len(b) /\ j <= Len(a) /\ j \in 1 .. i - 1
          BY <1>1, <2>3, <3>3, <3>4, <4>1
        <5> QED
          BY <3>3, <3>6, <4>1, <5>1
      <4>2. CASE ~(j < i)
        <5>1. j \in 1 .. Len(a) + Len(b) /\ ~(j <= Len(a))
          BY <1>1, <2>3, <3>3, <3>4, <4>2
        <5>2. j - Len(a) \in 1 .. Len(q) - i /\ i + (j - Len(a)) = j + 1
          BY <1>1, <2>3, <3>3, <4>2
        <5> QED
          BY <3>4, <3>6, <4>2, <5>1, <5>2
      <4> QED
        BY <4>1, <4>2
    <3> QED
      BY <3>6, <3>7, <3>8
  <2> HIDE DEF r
  <2>5. DOMAIN r = 1 .. Len(q) - 1
    <3> HIDE DEF Messages
    <3> QED
      BY <1>1, <2>4
  <2>6. \A j \in DOMAIN r : old(j) \in DOMAIN q \ {i}
    BY <1>1, <2>3, <2>5
  <2>7. \A j, l \in DOMAIN r : old(j) = old(l) => j = l
    BY <2>3, <2>5
  <2>8. \A l \in DOMAIN q \ {i} : \E j \in DOMAIN r : old(j) = l
    <3> SUFFICES ASSUME NEW l \in DOMAIN q \ {i} PROVE \E j \in DOMAIN r : old(j) = l
      OBVIOUS
    <3>1. CASE l < i
      BY <1>1, <2>3, <2>5, <3>1
    <3>2. CASE ~(l < i)
      <4>1. l - 1 \in DOMAIN r /\ old(l - 1) = l
        BY <1>1, <2>3, <2>5, <3>2
      <4> QED
        BY <4>1
    <3> QED
      BY <3>1, <3>2
  <2> HIDE DEF old
  <2>9. \A l \in DOMAIN q : l # i => q[l].xid # x
    BY <1>1, <2>1 DEF XidsApart
  <2>10. \A j \in DOMAIN r : r[j] = q[old(j)]
    BY <2>4, <2>5
  <2>11. XidsApart(r)
    <3> SUFFICES ASSUME NEW j \in DOMAIN r, NEW l \in DOMAIN r, r[j].xid = r[l].xid PROVE j = l
      BY DEF XidsApart
    <3>1. old(j) = old(l)
      BY <1>1, <2>6, <2>10 DEF XidsApart
    <3> QED
      BY <2>7, <3>1
  <2>12. \A j \in DOMAIN r : r[j].xid # x
    BY <2>6, <2>9, <2>10
  <2>13. Len(r) <= MAX_RQST
    BY <1>1, <2>4, Constants
  <2>14. /\ Tabled(t) /\ t.msgs = r
         /\ t.dead = s.dead /\ t.open = s.open /\ t.closing = s.closing /\ t.dda = s.dda
         /\ t.da = s.da /\ t.url = s.url /\ t.reg = s.reg
    BY <1>1, <2>2, <2>4, <2>11, <2>13, OtherMsgs
  <2>15. EntriesOf(r) = {e \in EntriesOf(q) : e.xid # x}
    <3>1. ASSUME NEW e \in EntriesOf(r) PROVE e \in EntriesOf(q) /\ e.xid # x
      <4>1. PICK j \in DOMAIN r : e = Entry(r[j])
        BY DEF EntriesOf
      <4>2. e = Entry(q[old(j)]) /\ old(j) \in DOMAIN q /\ q[old(j)].xid # x
        BY <2>6, <2>9, <2>10, <4>1
      <4>3. e \in EntriesOf(q)
        BY <4>2 DEF EntriesOf
      <4> QED
        BY <1>3, <4>2, <4>3
    <3>2. ASSUME NEW e \in EntriesOf(q), e.xid # x PROVE e \in EntriesOf(r)
      <4>1. PICK l \in DOMAIN q : e = Entry(q[l])
        BY DEF EntriesOf
      <4>2. l # i
        BY <1>3, <2>1, <3>2, <4>1
      <4>3. PICK j \in DOMAIN r : old(j) = l
        BY <2>8, <4>2
      <4> QED
        BY <2>10, <4>1, <4>3 DEF EntriesOf
    <3> QED
      BY <3>1, <3>2
  <2>16. Entries(t) = {e \in Entries(s) : e.xid # x}
    BY <2>14, <2>15 DEF Entries, q
  <2> QED
    BY <2>12, <2>14, <2>16 DEF Freed, SameButMsgs, Sound
<1> QED
  BY <1>5, <1>6

-----------------------------------------------------------------------------
(***************************************************************************)
(* Packets.                                                                *)
(***************************************************************************)
\* The same packet, older or not.
Same(p, q) ==
  /\ p.dir = q.dir /\ p.da = q.da /\ p.type = q.type /\ p.xid = q.xid /\ p.url = q.url
  /\ p.urls = q.urls /\ p.boot = q.boot /\ p.ok = q.ok

\* What is left of the packets after a tick.
LEMMA AgedIs ==
  ASSUME WireOK
  PROVE  /\ Aged \in SUBSET Packets /\ IsFiniteSet(Aged)
         /\ \A p \in Aged : \E q \in net : Same(p, q)
<1> DEFINE young == {q \in net : q.ttl > 1}
           older(p) == [p EXCEPT !.ttl = @ - 1]
           f == [p \in young |-> older(p)]
<1>1. net \in SUBSET Packets /\ IsFiniteSet(net)
  BY DEF WireOK
<1>2. \A p \in young : older(p) \in Packets /\ Same(older(p), p)
  <2> SUFFICES ASSUME NEW p \in young PROVE older(p) \in Packets /\ Same(older(p), p)
    OBVIOUS
  <2>1. p \in Packets /\ p.ttl > 1
    BY <1>1
  <2>2. p.ttl - 1 \in Nat
    BY <2>1 DEF Packets
  <2> QED
    BY <2>1, <2>2 DEF Packets, Same
<1>3. Aged = {older(p) : p \in young}
  BY DEF Aged
<1>4. IsFiniteSet(young)
  BY <1>1, FS_Subset
<1>5. \A p \in young : p \in net
  OBVIOUS
<1> HIDE DEF young, older
<1>6. f \in Surjection(young, Aged)
  BY <1>3 DEF Surjection
<1>7. IsFiniteSet(Aged)
  BY <1>4, <1>6, FS_Surjection
<1> QED
  BY <1>2, <1>3, <1>5, <1>7

\* A packet is read, and others are sent.
LEMMA WireIs ==
  ASSUME WireOK, NEW p, NEW out \in SUBSET Packets, IsFiniteSet(out)
  PROVE  (net \ {p}) \cup out \in SUBSET Packets /\ IsFiniteSet((net \ {p}) \cup out)
<1>1. net \ {p} \in SUBSET Packets /\ IsFiniteSet(net \ {p})
  BY FS_Subset DEF WireOK
<1> QED
  BY <1>1, FS_Union

\* The answer of DA d to packet p.
Reply(d, p, ok) ==
  CASE p.type = "DISCOVER" -> FromDa(d, "DAADVERT", p.xid, TRUE, das[d].boot, NULL, {})
    [] p.type = "SRVRQST"  -> FromDa(d, "SRVRPLY", p.xid, ok, 0, NULL,
                                     {u \in Urls : das[d].regs[u] # 0} \cup Others)
    [] p.type = "ATTRRQST" -> FromDa(d, "ATTRRPLY", p.xid, ok, 0, p.url, {})
    [] OTHER               -> FromDa(d, "SVRACK", p.xid, ok, 0, NULL, {})

Life(p) == CASE p.type = "REG" -> LIFETIME [] OTHER -> 0

DasEntries == [boot : 0 .. MaxBoots, last : 0 .. MaxBoots, regs : [Urls -> Nat]]

\* An answer has the number of the packet, and is what its type asks for.
LEMMA ReplyIs ==
  ASSUME DasOK, NEW d \in DAs, NEW p \in Packets, NEW ok \in BOOLEAN, NEW r, r = Reply(d, p, ok)
  PROVE  /\ r \in Packets /\ r.dir = "from" /\ r.da = d /\ r.xid = p.xid
         /\ r.boot \in {0, das[d].boot}
         /\ p.type \in {"REG", "DEREG"} => r.type = "SVRACK" /\ r.ok = ok
<1>1. das[d].boot \in 0 .. MaxBoots /\ 0 \in 0 .. MaxBoots
  BY Constants DEF DasOK
<1>2. p.xid \in Nat /\ p.url \in Texts /\ NULL \in Texts
  BY DEF Packets, Texts
<1>3. ASSUME NEW type \in {"DAADVERT", "SVRACK", "SRVRPLY", "ATTRRPLY"}, NEW y \in BOOLEAN,
             NEW b \in {0, das[d].boot}, NEW url \in Texts, NEW urls \in SUBSET (Urls \cup Others),
             r = FromDa(d, type, p.xid, y, b, url, urls)
      PROVE  /\ r \in Packets /\ r.dir = "from" /\ r.da = d /\ r.xid = p.xid
             /\ r.boot \in {0, das[d].boot} /\ r.type = type /\ r.ok = y
  BY <1>1, <1>2, <1>3, Constants DEF FromDa, Packets
<1> DEFINE live == {u \in Urls : das[d].regs[u] # 0} \cup Others
<1>4. live \in SUBSET (Urls \cup Others) /\ {} \in SUBSET (Urls \cup Others)
  OBVIOUS
<1>5. r = CASE p.type = "DISCOVER" -> FromDa(d, "DAADVERT", p.xid, TRUE, das[d].boot, NULL, {})
            [] p.type = "SRVRQST"  -> FromDa(d, "SRVRPLY", p.xid, ok, 0, NULL, live)
            [] p.type = "ATTRRQST" -> FromDa(d, "ATTRRPLY", p.xid, ok, 0, p.url, {})
            [] OTHER               -> FromDa(d, "SVRACK", p.xid, ok, 0, NULL, {})
  BY DEF Reply
<1> HIDE DEF live
<1>6. CASE p.type = "DISCOVER"
  <2>1. r = FromDa(d, "DAADVERT", p.xid, TRUE, das[d].boot, NULL, {})
    BY <1>5, <1>6
  <2> QED
    BY <1>2, <1>3, <1>4, <1>6, <2>1
<1>7. CASE p.type = "SRVRQST"
  <2>1. r = FromDa(d, "SRVRPLY", p.xid, ok, 0, NULL, live)
    BY <1>5, <1>7
  <2> QED
    BY <1>2, <1>3, <1>4, <1>7, <2>1
<1>8. CASE p.type = "ATTRRQST"
  <2>1. r = FromDa(d, "ATTRRPLY", p.xid, ok, 0, p.url, {})
    BY <1>5, <1>8
  <2> QED
    BY <1>2, <1>3, <1>4, <1>8, <2>1
<1>9. CASE p.type \notin {"DISCOVER", "SRVRQST", "ATTRRQST"}
  <2>1. r = FromDa(d, "SVRACK", p.xid, ok, 0, NULL, {})
    BY <1>5, <1>9
  <2> QED
    BY <1>2, <1>3, <1>4, <2>1
<1> QED
  BY <1>6, <1>7, <1>8, <1>9

\* DaAnswers.
LEMMA AnswersIs ==
  ASSUME NEW d, NEW p, NEW ok, DaAnswers(d, p, ok)
  PROVE  /\ Up(d) /\ p \in net /\ p.dir = "to" /\ p.da = d
         /\ net' = (net \ {p}) \cup {Reply(d, p, ok)}
         /\ das' = IF ok /\ p.type \in {"REG", "DEREG"}
                     THEN [das EXCEPT ![d].regs[p.url] = Life(p)] ELSE das
         /\ slp' = slp /\ found' = found /\ gone' = gone
BY DEF DaAnswers, Reply, Life

\* What an accepted registration changes at the DA.
LEMMA AcceptedIs ==
  ASSUME DasOK, NEW d \in DAs, NEW u, NEW life \in Nat, NEW t,
         t = [das EXCEPT ![d].regs[u] = life]
  PROVE  /\ t \in [DAs -> DasEntries]
         /\ \A e \in DAs \ {d} : t[e] = das[e]
         /\ t[d].boot = das[d].boot /\ t[d].last = das[d].last
         /\ \A v \in Urls : t[d].regs[v] = IF v = u THEN life ELSE das[d].regs[v]
<1> DEFINE r == [das[d].regs EXCEPT ![u] = life]
           e == [das[d] EXCEPT !.regs = r]
<1>1. das \in [DAs -> DasEntries] /\ das[d] \in DasEntries
  BY DEF DasOK, DasEntries
<1>2. r \in [Urls -> Nat] /\ \A v \in Urls : r[v] = IF v = u THEN life ELSE das[d].regs[v]
  BY <1>1 DEF DasEntries
<1>3. t = [das EXCEPT ![d] = e]
  OBVIOUS
<1> HIDE DEF r
<1>4. e \in DasEntries /\ e.boot = das[d].boot /\ e.last = das[d].last /\ e.regs = r
  BY <1>1, <1>2 DEF DasEntries
<1> HIDE DEF e, DasEntries
<1> QED
  BY <1>1, <1>2, <1>3, <1>4

\* DaStops.
LEMMA StopsIs ==
  ASSUME DasOK, NEW d \in DAs, DaStops(d)
  PROVE  /\ das' \in [DAs -> DasEntries]
         /\ \A e \in DAs \ {d} : das'[e] = das[e]
         /\ das'[d].boot = 0 /\ das'[d].last = das[d].last
<1> DEFINE none == [u \in Urls |-> 0]
           a == [das[d] EXCEPT !.boot = 0]
           b == [a EXCEPT !.regs = none]
<1>1. das \in [DAs -> DasEntries] /\ das[d] \in DasEntries
  BY DEF DasOK, DasEntries
<1>2. das' = [das EXCEPT ![d] = b]
  BY <1>1 DEF DaStops
<1>3. none \in [Urls -> Nat]
  OBVIOUS
<1> HIDE DEF none
<1>4. a \in DasEntries /\ a.boot = 0 /\ a.last = das[d].last
  BY <1>1, Constants DEF DasEntries
<1> HIDE DEF a
<1>5. b \in DasEntries /\ b.boot = 0 /\ b.last = das[d].last
  BY <1>3, <1>4 DEF DasEntries
<1> HIDE DEF b, DasEntries
<1> QED
  BY <1>1, <1>2, <1>5

\* DaBoots.
LEMMA BootsIs ==
  ASSUME DasOK, NEW d \in DAs, DaBoots(d)
  PROVE  \E n \in 1 .. MaxBoots :
           /\ \A e \in DAs : das[e].last < n
           /\ das' \in [DAs -> DasEntries]
           /\ \A e \in DAs \ {d} : das'[e] = das[e]
           /\ das'[d].boot = n /\ das'[d].last = n /\ das'[d].regs = das[d].regs
<1>1. PICK n \in 1 .. MaxBoots : /\ \A e \in DAs : das[e].last < n
                                 /\ das' = [das EXCEPT ![d].boot = n, ![d].last = n]
  BY DEF DaBoots
<1> DEFINE a == [das[d] EXCEPT !.boot = n]
           b == [a EXCEPT !.last = n]
<1>2. das \in [DAs -> DasEntries] /\ das[d] \in DasEntries
  BY DEF DasOK, DasEntries
<1>3. das' = [das EXCEPT ![d] = b]
  BY <1>1, <1>2
<1>4. n \in 0 .. MaxBoots
  BY Constants
<1>5. a \in DasEntries /\ a.boot = n /\ a.regs = das[d].regs
  BY <1>2, <1>4 DEF DasEntries
<1> HIDE DEF a
<1>6. b \in DasEntries /\ b.boot = n /\ b.last = n /\ b.regs = das[d].regs
  BY <1>4, <1>5 DEF DasEntries
<1> HIDE DEF b, DasEntries
<1> QED
  BY <1>1, <1>2, <1>3, <1>6

\* The registrations age at the DAs.
LEMMA DasAge ==
  ASSUME DasOK, das' = [d \in DAs |-> [das[d] EXCEPT
                          !.regs = [u \in Urls |-> IF @[u] = 0 THEN 0 ELSE @[u] - 1]]]
  PROVE  /\ das' \in [DAs -> DasEntries]
         /\ \A d \in DAs :
              /\ das'[d].boot = das[d].boot /\ das'[d].last = das[d].last
              /\ \A u \in Urls :
                   das'[d].regs[u] = IF das[d].regs[u] = 0 THEN 0 ELSE das[d].regs[u] - 1
<1> DEFINE age(d) == [u \in Urls |-> IF das[d].regs[u] = 0 THEN 0 ELSE das[d].regs[u] - 1]
           entry(d) == [das[d] EXCEPT !.regs = age(d)]
<1>1. das \in [DAs -> DasEntries]
  BY DEF DasOK, DasEntries
<1>2. das' = [d \in DAs |-> entry(d)]
  OBVIOUS
<1>3. ASSUME NEW d \in DAs
      PROVE  /\ entry(d) \in DasEntries
             /\ entry(d).boot = das[d].boot /\ entry(d).last = das[d].last
             /\ entry(d).regs = age(d)
  <2>1. das[d] \in DasEntries /\ das[d].regs \in [Urls -> Nat]
    BY <1>1 DEF DasEntries
  <2>2. age(d) \in [Urls -> Nat]
    <3> DEFINE r == das[d].regs
    <3>1. r \in [Urls -> Nat]
      BY <2>1
    <3> HIDE DEF r
    <3>2. \A u \in Urls : r[u] = 0 \/ r[u] - 1 \in Nat
      BY <3>1
    <3>3. \A u \in Urls : (IF r[u] = 0 THEN 0 ELSE r[u] - 1) \in Nat
      BY <3>2
    <3>4. [u \in Urls |-> IF r[u] = 0 THEN 0 ELSE r[u] - 1] \in [Urls -> Nat]
      BY <3>3
    <3> QED
      BY <3>4 DEF r
  <2> HIDE DEF age
  <2> QED
    BY <2>1, <2>2 DEF DasEntries
<1>4. \A d \in DAs, u \in Urls :
        age(d)[u] = IF das[d].regs[u] = 0 THEN 0 ELSE das[d].regs[u] - 1
  OBVIOUS
<1> HIDE DEF age, entry, DasEntries
<1> QED
  BY <1>2, <1>3, <1>4

-----------------------------------------------------------------------------
(***************************************************************************)
(* The steps, and what they do to the agent.                               *)
(***************************************************************************)
\* Tick.
LEMMA TickStep ==
  ASSUME SlpTypes, Tick
  PROVE  \E delay \in Nat :
           LET r == slp_tick(slp, delay)
           IN  /\ Sound(r.s) /\ r.out \in SUBSET Packets /\ IsFiniteSet(r.out)
               /\ slp' = r.s /\ net' = Aged \cup r.out
<1>1. PICK delay \in Delays : slp' = slp_tick(slp, delay).s
                              /\ net' = Aged \cup slp_tick(slp, delay).out
  BY DEF Tick
<1>2. delay \in Nat
  BY Constants DEF Delays
<1> DEFINE r == slp_tick(slp, delay)
<1>3. Sound(r.s) /\ r.out \in SUBSET Packets /\ IsFiniteSet(r.out)
  <2> HIDE DEF r
  <2>1. r = slp_tick(slp, delay)
    BY DEF r
  <2> QED
    BY <1>2, <2>1, TickIs DEF SlpTypes
<1> QED
  BY <1>1, <1>2, <1>3

\* Open touches no table.
LEMMA OpenStep ==
  ASSUME SlpTypes, Open
  PROVE  /\ Sound(slp') /\ slp'.da = slp.da /\ slp'.msgs = slp.msgs /\ slp'.dda = slp.dda
         /\ slp'.url = slp.url /\ slp'.reg = slp.reg
<1>1. Tabled(slp) /\ SlotsSound(slp.da)
  BY DEF SlpTypes, Sound
<1>2. slp' = [slp EXCEPT !.open = TRUE]
  BY DEF Open
<1>3. /\ Tabled(slp') /\ slp'.da = slp.da /\ slp'.msgs = slp.msgs /\ slp'.dda = slp.dda
      /\ slp'.url = slp.url /\ slp'.reg = slp.reg
  BY <1>1, <1>2 DEF Tabled, Agents
<1> QED
  BY <1>1, <1>3 DEF Sound

\* StartDiscovery begins a search, if none was begun.
LEMMA StartStep ==
  ASSUME SlpTypes, StartDiscovery
  PROVE  /\ Sound(slp') /\ SameButSearch(slp, slp') /\ ~slp.dda.discover
         /\ slp'.dda.discover = TRUE /\ slp'.dda.counter \in Nat /\ slp'.dda.xid = 0
<1>1. Tabled(slp) /\ SlotsSound(slp.da)
  BY DEF SlpTypes, Sound
<1>2. PICK wait \in 0 .. CONFIG_START_WAIT :
        slp' = [slp EXCEPT !.dda = [discover |-> TRUE, counter |-> wait, xmits |-> 0, xid |-> 0]]
  BY DEF StartDiscovery
<1> DEFINE c == [discover |-> TRUE, counter |-> wait, xmits |-> 0, xid |-> 0]
<1>3. c \in Searches /\ c.discover = TRUE /\ c.counter \in Nat /\ c.xid = 0
  BY Constants DEF Searches
<1> HIDE DEF c
<1>4. slp' = [slp EXCEPT !.dda = c]
  BY <1>2 DEF c
<1>5. Tabled(slp') /\ SameButSearch(slp, slp') /\ slp'.dda = c
  BY <1>1, <1>3, <1>4, OtherSearch DEF SameButSearch
<1> QED
  BY <1>1, <1>3, <1>5 DEF Sound, SameButSearch, StartDiscovery

\* Closed empties the slots, and leaves the messages.
LEMMA ClosedStep ==
  ASSUME SlpTypes, Closed
  PROVE  /\ Sound(slp') /\ (\A k \in Slots : slp'.da[k] = EmptySlot)
         /\ slp'.msgs = slp.msgs /\ slp'.dda = slp.dda
         /\ slp'.url = slp.url /\ slp'.reg = slp.reg
<1>1. Tabled(slp) /\ SlotsSound(slp.da)
  BY DEF SlpTypes, Sound
<1> DEFINE da == [k \in Slots |-> EmptySlot]
           a == [slp EXCEPT !.da = da]
           b == [a EXCEPT !.open = FALSE]
<1>2. slp' = [b EXCEPT !.closing = FALSE]
  BY <1>1 DEF Closed, da_delete_all
<1>3. da \in [Slots -> DaEntries] /\ \A k \in Slots : da[k] = EmptySlot
  BY EmptyIs
<1> HIDE DEF da
<1>4. /\ Tabled(a) /\ a.da = da /\ a.msgs = slp.msgs
      /\ a.closing = slp.closing /\ a.dda = slp.dda
      /\ a.url = slp.url /\ a.reg = slp.reg
  BY <1>1, <1>3, OtherDas
<1> HIDE DEF a
<1>5. /\ Tabled(slp') /\ slp'.da = da /\ slp'.msgs = slp.msgs /\ slp'.dda = slp.dda
      /\ slp'.url = slp.url /\ slp'.reg = slp.reg
  BY <1>2, <1>4 DEF Tabled, Agents
<1>6. SlotsSound(slp'.da)
  BY <1>3, <1>5, EmptyIs DEF SlotsSound
<1> QED
  BY <1>3, <1>5, <1>6 DEF Sound

\* Register: every DA of the list is told of u.
LEMMA RegisterStep ==
  ASSUME SlpTypes, NEW u \in Urls, Register(u)
  PROVE  /\ Sound(slp') /\ slp'.da = slp.da /\ slp'.dda = slp.dda /\ slp'.url = u
         /\ slp'.reg = TRUE
         /\ Entries(slp) \subseteq Entries(slp')
         /\ \A e \in Entries(slp') \ Entries(slp) : e.type = "REG"
         /\ Room(slp) => \A k \in Slots : slp.da[k].ip # NULL =>
              \E x \in Nat \ {0} : x \notin Xids(slp) /\ RegEntry(k, u, x) \in Entries(slp')
<1> DEFINE a == [slp EXCEPT !.url = u]
<1>1. slp' = slp_reg(a)
  BY DEF Register
<1>2. Tabled(slp) /\ SlotsSound(slp.da) /\ WireOK
  BY DEF SlpTypes, Sound
<1>3. /\ Tabled(a) /\ a.url = u /\ a.msgs = slp.msgs /\ a.open = slp.open /\ a.dead = slp.dead
      /\ a.closing = slp.closing /\ a.dda = slp.dda /\ a.da = slp.da /\ a.reg = slp.reg
  BY <1>2, OtherUrl
<1> HIDE DEF a
<1>4. Sound(a) /\ a.url \in Urls
  BY <1>2, <1>3 DEF Sound
<1>5. /\ Sound(slp') /\ slp'.da = a.da /\ slp'.dead = a.dead /\ slp'.open = a.open
      /\ slp'.closing = a.closing /\ slp'.dda = a.dda /\ slp'.url = a.url /\ slp'.reg = TRUE
      /\ Only(a, slp', "REG")
      /\ Room(a) => \A k \in Slots : a.da[k].ip # NULL => IsTold(a, slp', k)
  BY <1>1, <1>2, <1>4, RegIs
<1>6. Entries(a) = Entries(slp) /\ Xids(a) = Xids(slp) /\ (Room(a) <=> Room(slp))
  BY <1>3 DEF Entries, Xids, Room
<1>7. Room(slp) => \A k \in Slots : slp.da[k].ip # NULL =>
        \E x \in Nat \ {0} : x \notin Xids(slp) /\ RegEntry(k, u, x) \in Entries(slp')
  BY <1>3, <1>5, <1>6 DEF IsTold
<1> QED
  BY <1>3, <1>5, <1>6, <1>7 DEF Only

\* Deregister.
LEMMA DeregisterStep ==
  ASSUME SlpTypes, NEW u \in Urls, Deregister(u)
  PROVE  /\ Sound(slp') /\ slp'.da = slp.da /\ slp'.dda = slp.dda /\ slp'.url = u
         /\ Entries(slp) \subseteq Entries(slp')
         /\ \A e \in Entries(slp') \ Entries(slp) : e.type = "DEREG" /\ e.url = u
<1> DEFINE a == [slp EXCEPT !.url = u]
<1>1. slp' = slp_dereg(a)
  BY DEF Deregister
<1>2. Tabled(slp) /\ SlotsSound(slp.da) /\ WireOK
  BY DEF SlpTypes, Sound
<1>3. /\ Tabled(a) /\ a.url = u /\ a.msgs = slp.msgs /\ a.open = slp.open /\ a.dead = slp.dead
      /\ a.closing = slp.closing /\ a.dda = slp.dda /\ a.da = slp.da /\ a.reg = slp.reg
  BY <1>2, OtherUrl
<1> HIDE DEF a
<1>4. Sound(a)
  BY <1>2, <1>3 DEF Sound
<1>5. Deregistered(a, slp')
  BY <1>1, <1>2, <1>4, DeregIs
<1>6. Entries(a) = Entries(slp)
  BY <1>3 DEF Entries
<1> QED
  BY <1>3, <1>5, <1>6 DEF Deregistered, Only

\* Discover.
LEMMA DiscoverStep ==
  ASSUME SlpTypes, Discover
  PROVE  Asked(slp, slp')
<1>1. slp' = Ask(slp, "SRVRQST", NULL)
  BY DEF Discover, slp_srvrqst
<1>2. NULL \in Texts /\ "SRVRQST" \in {"SRVRQST", "ATTRRQST"} /\ Sound(slp) /\ WireOK
  BY DEF Texts, SlpTypes
<1> QED
  BY <1>1, <1>2, AskIs

\* Close: nothing is registered then, and no message is lost.
LEMMA CloseStep ==
  ASSUME SlpTypes, Close
  PROVE  /\ Sound(slp') /\ slp'.da = slp.da /\ slp'.dda = slp.dda /\ slp'.url = slp.url
         /\ slp'.reg = FALSE
         /\ Entries(slp) \subseteq Entries(slp')
         /\ \A e \in Entries(slp') \ Entries(slp) : e.type = "DEREG" /\ e.url = slp.url
         /\ ~slp.reg => Entries(slp') = Entries(slp)
<1> DEFINE a == slp_dereg_all(slp)
<1>1. slp' = [a EXCEPT !.closing = TRUE]
  BY DEF Close
<1>2. Sound(slp) /\ WireOK /\ slp.open
  BY DEF SlpTypes, Close, AppFree
<1>3. Deregistered(slp, a) /\ a.reg = FALSE
  BY <1>2, DeregAllIs
<1>4. ~slp.reg => a = slp
  BY DEF slp_dereg_all
<1> HIDE DEF a
<1>5. Tabled(a) /\ a.open
  BY <1>2, <1>3 DEF Deregistered, Sound
<1>6. /\ Tabled(slp') /\ slp'.da = a.da /\ slp'.msgs = a.msgs /\ slp'.dda = a.dda
      /\ slp'.url = a.url /\ slp'.reg = a.reg
  BY <1>1, <1>5 DEF Tabled, Agents
<1>7. Sound(slp')
  BY <1>3, <1>6 DEF Deregistered, Sound
<1>8. Entries(slp') = Entries(a)
  BY <1>6 DEF Entries
<1> QED
  BY <1>3, <1>4, <1>6, <1>7, <1>8 DEF Deregistered, Only

\* An advertisement changes one slot, and may start another round of the search.
LEMMA AdvertStep ==
  ASSUME SlpTypes, NEW p, RxDaAdvert(p)
  PROVE  \E s, out :
           /\ Sound(s) /\ Sound(slp')
           /\ s = slp \/ \E k \in Slots : SameBut(slp, s, k) /\ Added(slp, s, k, p.da, p.boot)
           /\ SameButSearch(s, slp') /\ slp'.dda.discover = s.dda.discover
           /\ out \in SUBSET Packets /\ IsFiniteSet(out)
           /\ net' = (net \ {p}) \cup out
           /\ \/ slp' = s /\ out = {}
              \/ /\ slp'.dda.xid = NewXid(s) /\ slp'.dda.counter = CONFIG_MC_MAX
                 /\ s.dda.discover
                 /\ \A q \in out : q.dir = "to" /\ q.type = "DISCOVER" /\ q.xid = NewXid(s)
<1>1. PICK delay \in Delays :
        LET s == da_add(slp, p.da, p.boot, delay)
            again == s.dda.discover /\ s.dda.xid # 0 /\ p.xid = s.dda.xid
            t == IF again THEN Search(s, 1) ELSE s
        IN  slp' = t /\ net' = (net \ {p}) \cup (IF again THEN slp_discover_da(t) ELSE {})
  BY DEF RxDaAdvert
<1> DEFINE s == da_add(slp, p.da, p.boot, delay)
           again == s.dda.discover /\ s.dda.xid # 0 /\ p.xid = s.dda.xid
           out == IF again THEN slp_discover_da(slp') ELSE {}
<1>2. delay \in Nat /\ p \in Packets /\ Sound(slp) /\ WireOK
  BY Constants DEF Delays, RxDaAdvert, Arrives, SlpTypes, WireOK
<1>3. p.da \in DAs /\ p.boot \in 0 .. MaxBoots
  BY <1>2 DEF Packets
<1>4. slp' = (IF again THEN Search(s, 1) ELSE s) /\ net' = (net \ {p}) \cup out
  BY <1>1
<1>5. Sound(s)
      /\ (s = slp \/ \E k \in Slots : SameBut(slp, s, k) /\ Added(slp, s, k, p.da, p.boot))
  <2> HIDE DEF s
  <2>1. s = da_add(slp, p.da, p.boot, delay)
    BY DEF s
  <2> QED
    BY <1>2, <1>3, <2>1, DaAddIs
<1> HIDE DEF s
<1>6. CASE ~again
  <2>1. slp' = s /\ out = {}
    BY <1>4, <1>6
  <2>2. SameButSearch(s, slp') /\ IsFiniteSet(out) /\ out \in SUBSET Packets
    BY <2>1, FS_EmptySet DEF SameButSearch
  <2> QED
    BY <1>4, <1>5, <2>1, <2>2
<1>7. CASE again
  <2>1. slp' = Search(s, 1) /\ out = slp_discover_da(slp') /\ s.dda.discover
    BY <1>4, <1>7
  <2>2. /\ Sound(slp') /\ SameButSearch(s, slp')
        /\ slp'.dda.discover = s.dda.discover /\ slp'.dda.counter = CONFIG_MC_MAX
        /\ slp'.dda.xid = NewXid(s)
    BY <1>2, <1>5, <2>1, 1 \in Nat, SearchIs
  <2>3. /\ slp_discover_da(slp') \in SUBSET Packets /\ IsFiniteSet(slp_discover_da(slp'))
        /\ \A q \in slp_discover_da(slp') :
             q.dir = "to" /\ q.type = "DISCOVER" /\ q.xid = slp'.dda.xid
    BY <2>2, DiscoverIs DEF Sound
  <2> HIDE DEF out
  <2> QED
    BY <1>4, <1>5, <2>1, <2>2, <2>3
<1> QED
  BY <1>6, <1>7

\* An acknowledgement frees its message; its DA may be silent for a while again, or is
\* dropped, when it refuses.
LEMMA AckStep ==
  ASSUME SlpTypes, NEW p, RxSvrAck(p)
  PROVE  /\ Sound(slp') /\ net' = net \ {p} /\ p \in net
         /\ \/ slp' = slp /\ \A e \in Entries(slp) : e.xid # p.xid
            \/ \E s : \E k \in Slots :
                 /\ \E e \in Entries(slp) : e.xid = p.xid /\ e.slot = k
                 /\ SameButSlot(slp, s, k) /\ Freed(s, slp', p.xid)
                 /\ IF p.ok THEN /\ s.da[k].ip = slp.da[k].ip /\ s.da[k].boot = slp.da[k].boot
                                 /\ s.da[k].counter = slp.da[k].counter
                            ELSE s.da[k] = EmptySlot
<1>1. Sound(slp) /\ p \in net /\ net' = net \ {p}
  BY DEF SlpTypes, RxSvrAck, Arrives
<1>2. Waiting(p) = {i \in DOMAIN slp.msgs : slp.msgs[i].xid = p.xid}
  BY DEF Waiting, Numbered
<1>3. \A i \in DOMAIN slp.msgs : /\ Entry(slp.msgs[i]) \in Entries(slp)
                                 /\ Entry(slp.msgs[i]).xid = slp.msgs[i].xid
                                 /\ Entry(slp.msgs[i]).slot = slp.msgs[i].slot
  BY DEF Entries, EntriesOf, Entry
<1>4. CASE Waiting(p) = {}
  <2>1. slp' = slp
    BY <1>4 DEF RxSvrAck
  <2>2. \A e \in Entries(slp) : e.xid # p.xid
    BY <1>2, <1>4 DEF Entries, EntriesOf, Entry
  <2> QED
    BY <1>1, <2>1, <2>2
<1>5. CASE Waiting(p) # {}
  <2> DEFINE i == CHOOSE j \in Waiting(p) : TRUE
             k == slp.msgs[i].slot
             s == IF p.ok THEN da_service_ack(slp, k) ELSE da_delete(slp, k)
  <2>1. slp' = msg_free(s, p.xid)
    BY <1>5 DEF RxSvrAck
  <2>2. i \in DOMAIN slp.msgs /\ slp.msgs[i].xid = p.xid
    BY <1>2, <1>5
  <2>3. k \in Slots
    <3>1. slp.msgs[i] \in Messages
      BY <1>1, <2>2, AgentFields DEF Sound
    <3> QED
      BY <3>1 DEF Messages
  <2>4. \E e \in Entries(slp) : e.xid = p.xid /\ e.slot = k
    BY <1>3, <2>2
  <2> HIDE DEF k
  <2>5. /\ Sound(s) /\ SameButSlot(slp, s, k)
        /\ IF p.ok THEN /\ s.da[k].ip = slp.da[k].ip /\ s.da[k].boot = slp.da[k].boot
                        /\ s.da[k].counter = slp.da[k].counter
                   ELSE s.da[k] = EmptySlot
    <3>1. CASE p.ok
      <4>1. s = da_service_ack(slp, k)
        BY <3>1
      <4> HIDE DEF s
      <4> QED
        BY <1>1, <2>3, <3>1, <4>1, ServiceAckIs
    <3>2. CASE ~p.ok
      <4>1. s = da_delete(slp, k)
        BY <3>2
      <4> HIDE DEF s
      <4> QED
        BY <1>1, <2>3, <3>2, <4>1, SoundIsBut, DaDeleteIs
    <3> QED
      BY <3>1, <3>2
  <2> HIDE DEF s
  <2>6. Freed(s, slp', p.xid)
    BY <2>1, <2>5, MsgFreeIs
  <2> QED
    BY <1>1, <2>3, <2>4, <2>5, <2>6 DEF Freed
<1> QED
  BY <1>4, <1>5

\* An answer to a request frees it, after the requests it gives rise to were added.
LEMMA SrvRplyStep ==
  ASSUME SlpTypes, NEW p, RxSrvRply(p)
  PROVE  /\ Sound(slp') /\ net' = net \ {p} /\ p \in net
         /\ slp' = slp \/ \E s : Asked(slp, s) /\ Freed(s, slp', p.xid)
<1>1. Sound(slp) /\ WireOK /\ p \in net /\ net' = net \ {p}
  BY DEF SlpTypes, RxSrvRply, Arrives
<1>2. CASE Waiting(p) = {}
  <2>1. slp' = slp
    BY <1>2 DEF RxSrvRply
  <2> QED
    BY <1>1, <2>1
<1>3. CASE Waiting(p) # {}
  <2> DEFINE us == IF p.ok THEN SetToSeq(p.urls) ELSE <<>>
             s == InTurn(srvrqst_callback, slp, us)
  <2>1. slp' = msg_free(s, p.xid)
    BY <1>3 DEF RxSrvRply
  <2>2. p.urls \in SUBSET (Urls \cup Others)
    BY <1>1 DEF WireOK, Packets
  <2>3. IsFiniteSet(p.urls)
    <3>1. IsFiniteSet(Urls \cup Others)
      BY NetworkIsFinite, FS_Union
    <3> QED
      BY <2>2, <3>1, FS_Subset
  <2>4. Len(us) \in Nat /\ \A i \in 1 .. Len(us) : us[i] \in Texts
    <3>1. CASE p.ok
      <4>1. us = SetToSeq(p.urls)
        BY <3>1
      <4> HIDE DEF us
      <4>2. Len(us) \in Nat /\ \A i \in 1 .. Len(us) : us[i] \in p.urls
        BY <2>3, <4>1, SetToSeqIs
      <4> QED
        BY <2>2, <4>2 DEF Texts
    <3>2. CASE ~p.ok
      <4>1. us = <<>>
        BY <3>2
      <4> HIDE DEF us
      <4> QED
        BY <4>1
    <3> QED
      BY <3>1, <3>2
  <2> HIDE DEF us
  <2>5. Asked(slp, s)
    BY <1>1, <2>4, CallbacksAre
  <2> HIDE DEF s
  <2>6. Freed(s, slp', p.xid)
    BY <2>1, <2>5, MsgFreeIs DEF Asked
  <2> QED
    BY <1>1, <2>5, <2>6 DEF Freed
<1> QED
  BY <1>2, <1>3

\* An answer with attributes frees its message.
LEMMA AttrRplyStep ==
  ASSUME SlpTypes, NEW p, RxAttrRply(p)
  PROVE  /\ Freed(slp, slp', p.xid) /\ net' = net \ {p} /\ p \in net
         /\ found' \subseteq Others
<1>1. Sound(slp) /\ p \in net /\ net' = net \ {p} /\ slp' = msg_free(slp, p.xid)
  BY DEF SlpTypes, RxAttrRply, Arrives
<1>2. Freed(slp, slp', p.xid)
  BY <1>1, MsgFreeIs
<1>3. found' \subseteq Others
  BY DEF RxAttrRply, attrrqst_callback, SlpTypes
<1> QED
  BY <1>1, <1>2, <1>3

-----------------------------------------------------------------------------
(***************************************************************************)
(* The types.                                                              *)
(***************************************************************************)
LEMMA InitTypes ==
  ASSUME Init PROVE SlpTypes
<1>1. SlpInit \in Agents
  <2> DEFINE dda == [discover |-> FALSE, counter |-> 0, xmits |-> 0, xid |-> 0]
             da == [k \in Slots |-> EmptySlot]
             msgs == <<>>
  <2>1. dda \in Searches
    BY DEF Searches
  <2>2. da \in [Slots -> DaEntries]
    BY EmptyIs
  <2>3. msgs \in Seq(Messages)
    OBVIOUS
  <2>4. SlpInit = [dead |-> FALSE, open |-> FALSE, closing |-> FALSE, dda |-> dda, da |-> da,
                   msgs |-> msgs, url |-> NULL, reg |-> FALSE]
    BY DEF SlpInit
  <2> HIDE DEF dda, da, msgs, Messages
  <2> QED
    BY <2>1, <2>2, <2>3, <2>4 DEF Agents
<1>2. /\ SlpInit.msgs = <<>> /\ SlpInit.closing = FALSE /\ SlpInit.reg = FALSE
      /\ \A k \in Slots : SlpInit.da[k] = EmptySlot
  BY DEF SlpInit
<1>3. Tabled(SlpInit)
  <2>1. Len(<<>>) = 0 /\ XidsApart(<<>>)
    BY DEF XidsApart
  <2> QED
    BY <1>1, <1>2, <2>1, Constants DEF Tabled
<1>4. SlotsSound(SlpInit.da)
  BY <1>2, EmptyIs DEF SlotsSound
<1>5. Sound(slp)
  BY <1>3, <1>4 DEF Init, Sound
<1>6. WireOK
  BY FS_EmptySet DEF Init, WireOK
<1>7. DasOK
  <2>1. [u \in Urls |-> 0] \in [Urls -> Nat] /\ 0 \in 0 .. MaxBoots
    BY Constants
  <2> QED
    BY <2>1 DEF Init, DasOK
<1> QED
  BY <1>5, <1>6, <1>7 DEF Init, SlpTypes

\* Every step keeps the types.
LEMMA TypesKept ==
  ASSUME SlpTypes, [Next]_vars PROVE SlpTypes'
<1>1. Sound(slp) /\ WireOK /\ DasOK /\ found \subseteq Others /\ gone \subseteq Urls
  BY DEF SlpTypes
<1>2. DasOK <=> das \in [DAs -> DasEntries]
  BY DEF DasOK, DasEntries
<1>3. DasOK' <=> das' \in [DAs -> DasEntries]
  BY DEF DasOK, DasEntries
<1>4. ASSUME Sound(slp'), net' \in SUBSET Packets, IsFiniteSet(net'),
             das' \in [DAs -> DasEntries], found' \subseteq Others, gone' \subseteq Urls
      PROVE  SlpTypes'
  BY <1>3, <1>4 DEF SlpTypes, WireOK
<1> HIDE DEF DasEntries
<1>5. CASE Tick
  <2>1. PICK delay \in Nat :
           LET r == slp_tick(slp, delay)
           IN  /\ Sound(r.s) /\ r.out \in SUBSET Packets /\ IsFiniteSet(r.out)
               /\ slp' = r.s /\ net' = Aged \cup r.out
    BY <1>5, TickStep
  <2>2. Aged \in SUBSET Packets /\ IsFiniteSet(Aged)
    BY <1>1, AgedIs
  <2>3. net' \in SUBSET Packets /\ IsFiniteSet(net')
    BY <2>1, <2>2, FS_Union
  <2>4. das' \in [DAs -> DasEntries]
    BY <1>1, <1>5, DasAge DEF Tick
  <2>5. found' = found /\ gone' = gone
    BY <1>5 DEF Tick
  <2> QED
    BY <1>1, <1>4, <2>1, <2>3, <2>4, <2>5
<1>6. ASSUME NEW p \in net, RxDaAdvert(p) PROVE SlpTypes'
  <2>1. PICK out : /\ Sound(slp') /\ out \in SUBSET Packets /\ IsFiniteSet(out)
                   /\ net' = (net \ {p}) \cup out
    BY <1>6, AdvertStep
  <2>2. net' \in SUBSET Packets /\ IsFiniteSet(net')
    BY <1>1, <2>1, WireIs
  <2>3. das' = das /\ found' = found /\ gone' = gone
    BY <1>6 DEF RxDaAdvert
  <2> QED
    BY <1>1, <1>2, <1>4, <2>1, <2>2, <2>3
<1>7. \A p : net \ {p} \in SUBSET Packets /\ IsFiniteSet(net \ {p})
  BY <1>1, FS_Subset DEF WireOK
<1>8. ASSUME NEW p \in net, RxSvrAck(p) PROVE SlpTypes'
  <2>1. Sound(slp') /\ net' = net \ {p}
    BY <1>8, AckStep
  <2>2. das' = das /\ found' = found /\ gone' = gone
    BY <1>8 DEF RxSvrAck
  <2> QED
    BY <1>1, <1>2, <1>4, <1>7, <2>1, <2>2
<1>9. ASSUME NEW p \in net, RxSrvRply(p) PROVE SlpTypes'
  <2>1. Sound(slp') /\ net' = net \ {p}
    BY <1>9, SrvRplyStep
  <2>2. das' = das /\ found' = found /\ gone' = gone
    BY <1>9 DEF RxSrvRply
  <2> QED
    BY <1>1, <1>2, <1>4, <1>7, <2>1, <2>2
<1>10. ASSUME NEW p \in net, RxAttrRply(p) PROVE SlpTypes'
  <2>1. Sound(slp') /\ net' = net \ {p} /\ found' \subseteq Others
    BY <1>10, AttrRplyStep DEF Freed
  <2>2. das' = das /\ gone' = gone
    BY <1>10 DEF RxAttrRply
  <2> QED
    BY <1>1, <1>2, <1>4, <1>7, <2>1, <2>2
<1>11. CASE AppAny
  <2>1. net' = net /\ das' = das /\ found' = found
    BY <1>11 DEF AppAny, Open, StartDiscovery, Discover, Close, Closed, Register, Deregister
  <2>2. gone' \subseteq Urls
    <3>1. CASE Close
      BY <1>1, <3>1 DEF Close, Sound, Tabled
    <3>2. CASE ~Close
      BY <1>1, <1>11, <3>2
         DEF AppAny, Open, StartDiscovery, Discover, Closed, Register, Deregister
    <3> QED
      BY <3>1, <3>2
  <2>3. Sound(slp')
    <3>1. CASE Open
      BY <3>1, OpenStep
    <3>2. CASE StartDiscovery
      BY <3>2, StartStep
    <3>3. CASE Discover
      BY <3>3, DiscoverStep DEF Asked
    <3>4. CASE Close
      BY <3>4, CloseStep
    <3>5. CASE Closed
      BY <3>5, ClosedStep
    <3>6. ASSUME NEW u \in Urls, Register(u) PROVE Sound(slp')
      BY <3>6, RegisterStep
    <3>7. ASSUME NEW u \in Urls, Deregister(u) PROVE Sound(slp')
      BY <3>7, DeregisterStep
    <3> QED
      BY <1>11, <3>1, <3>2, <3>3, <3>4, <3>5, <3>6, <3>7 DEF AppAny
  <2> QED
    BY <1>1, <1>2, <1>4, <2>1, <2>2, <2>3 DEF WireOK
<1>12. ASSUME NEW d \in DAs, NEW p \in net, NEW ok \in BOOLEAN, DaAnswers(d, p, ok)
       PROVE  SlpTypes'
  <2> DEFINE r == Reply(d, p, ok)
  <2>1. p \in Packets
    BY <1>1 DEF WireOK
  <2>2. r \in Packets
    BY <1>1, <2>1, ReplyIs
  <2>3. /\ net' = (net \ {p}) \cup {r}
        /\ das' = IF ok /\ p.type \in {"REG", "DEREG"}
                    THEN [das EXCEPT ![d].regs[p.url] = Life(p)] ELSE das
        /\ slp' = slp /\ found' = found /\ gone' = gone
    BY <1>12, AnswersIs
  <2> HIDE DEF r
  <2>4. net' \in SUBSET Packets /\ IsFiniteSet(net')
    BY <1>7, <2>2, <2>3, FS_AddElement
  <2>5. Life(p) \in Nat
    BY Constants DEF Life
  <2>6. [das EXCEPT ![d].regs[p.url] = Life(p)] \in [DAs -> DasEntries]
    BY <1>1, <2>5, AcceptedIs
  <2>7. das' \in [DAs -> DasEntries]
    BY <1>1, <1>2, <2>3, <2>6
  <2> QED
    BY <1>1, <1>4, <2>3, <2>4, <2>7
<1>13. ASSUME NEW d \in DAs, NEW boot \in {0, das[d].boot} PROVE
         LET a == FromDa(d, "DAADVERT", 0, TRUE, boot, NULL, {})
         IN  net \cup {a} \in SUBSET Packets /\ IsFiniteSet(net \cup {a})
  <2> DEFINE a == FromDa(d, "DAADVERT", 0, TRUE, boot, NULL, {})
  <2>1. boot \in 0 .. MaxBoots
    BY <1>1, Constants DEF DasOK
  <2>2. a \in Packets
    BY <2>1, Constants DEF FromDa, Packets, Texts
  <2> HIDE DEF a
  <2>3. net \cup {a} \in SUBSET Packets /\ IsFiniteSet(net \cup {a})
    BY <1>1, <2>2, FS_AddElement DEF WireOK
  <2> QED
    BY <2>3 DEF a
<1>14. ASSUME NEW d \in DAs, DaAdvertises(d) PROVE SlpTypes'
  <2>1. /\ net' = net \cup {FromDa(d, "DAADVERT", 0, TRUE, das[d].boot, NULL, {})}
        /\ slp' = slp /\ das' = das /\ found' = found /\ gone' = gone
    BY <1>14 DEF DaAdvertises
  <2>2. net' \in SUBSET Packets /\ IsFiniteSet(net')
    BY <1>13, <2>1
  <2> QED
    BY <1>1, <1>2, <1>4, <2>1, <2>2
<1>15. ASSUME NEW d \in DAs, DaStops(d) PROVE SlpTypes'
  <2>1. /\ net' = net \/ net' = net \cup {FromDa(d, "DAADVERT", 0, TRUE, 0, NULL, {})}
        /\ slp' = slp /\ found' = found /\ gone' = gone
    BY <1>15 DEF DaStops
  <2>2. net' \in SUBSET Packets /\ IsFiniteSet(net')
    BY <1>1, <1>13, <2>1 DEF WireOK
  <2>3. das' \in [DAs -> DasEntries]
    BY <1>1, <1>15, StopsIs
  <2> QED
    BY <1>1, <1>4, <2>1, <2>2, <2>3
<1>16. ASSUME NEW d \in DAs, DaBoots(d) PROVE SlpTypes'
  <2>1. net' = net /\ slp' = slp /\ found' = found /\ gone' = gone
    BY <1>16 DEF DaBoots
  <2>2. das' \in [DAs -> DasEntries]
    BY <1>1, <1>16, BootsIs
  <2> QED
    BY <1>1, <1>4, <2>1, <2>2 DEF WireOK
<1>17. CASE UNCHANGED vars
  <2>1. slp' = slp /\ net' = net /\ das' = das /\ found' = found /\ gone' = gone
    BY <1>17 DEF vars
  <2> QED
    BY <1>1, <1>2, <1>4, <2>1 DEF WireOK
<1>18. CASE RxAny
  BY <1>6, <1>8, <1>9, <1>10, <1>18 DEF RxAny
<1>19. CASE DaAny
  BY <1>12, <1>14, <1>15, <1>16, <1>19 DEF DaAny
<1> QED
  BY <1>5, <1>11, <1>17, <1>18, <1>19 DEF Next

\* The agent's tables, the packets and the DAs keep their types, whatever arrives:
\* numbers of messages are apart, slots hold different DAs, and a DA's timers run.
THEOREM SlpInvariant == Spec => []SlpTypes
<1>1. Init => SlpTypes
  BY InitTypes
<1>2. SlpTypes /\ [Next]_vars => SlpTypes'
  BY TypesKept
<1> QED
  BY <1>1, <1>2, PTL DEF Spec

\* TypeOK for every network: msg_new, msg_free and slp_tick keep the table of
\* messages a table, da_add, da_delete and slp_tick that of the DAs.
THEOREM AgentTypes == Spec => []TypeOK
<1>1. SlpTypes => TypeOK
  <2> SUFFICES ASSUME SlpTypes PROVE TypeOK
    OBVIOUS
  <2>1. Tabled(slp) /\ SlotsSound(slp.da) /\ found \subseteq Others
    BY DEF SlpTypes, Sound
  <2>2. /\ \A i \in DOMAIN slp.msgs : slp.msgs[i] \in Messages
        /\ Len(slp.msgs) <= MAX_RQST
    BY <2>1, AgentFields
  <2>3. \A i, j \in DOMAIN slp.msgs : slp.msgs[i].xid = slp.msgs[j].xid => i = j
    BY <2>1 DEF Tabled, XidsApart
  <2>4. (slp.closing => slp.open) /\ (slp.reg => slp.url \in Urls)
    BY <2>1 DEF Tabled
  <2>5. ASSUME NEW k \in Slots, slp.da[k].ip # NULL
        PROVE  /\ slp.da[k].timeout \in 1 .. CONFIG_DA_BEAT /\ slp.da[k].counter \in 1 .. REFRESH
               /\ \A j \in Slots \ {k} : slp.da[j].ip # slp.da[k].ip
    <3>1. /\ slp.da[k].timeout # 0 /\ slp.da[k].counter # 0
          /\ \A j \in Slots \ {k} : slp.da[j].ip # slp.da[k].ip
      BY <2>1, <2>5 DEF SlotsSound
    <3>2. slp.da[k].timeout \in 0 .. CONFIG_DA_BEAT /\ slp.da[k].counter \in 0 .. REFRESH
      BY <2>1, DaFields
    <3> QED
      BY <3>1, <3>2, Constants
  <2> QED
    BY <2>1, <2>2, <2>3, <2>4, <2>5 DEF TypeOK
<1> QED
  BY <1>1, SlpInvariant, PTL

\* AnsweredOnce for every network: the answer frees the one message of its number, so
\* a second answer to a request that was sent again finds none.
THEOREM AnsweredOnlyOnce == Spec => AnsweredOnce
<1>1. SlpTypes /\ [Next]_vars =>
        [\A p \in net : RxAttrRply(p) =>
           p.xid \notin {slp'.msgs[i].xid : i \in DOMAIN slp'.msgs}]_vars
  <2> SUFFICES ASSUME SlpTypes, NEW p \in net, RxAttrRply(p)
               PROVE  p.xid \notin {slp'.msgs[i].xid : i \in DOMAIN slp'.msgs}
    OBVIOUS
  <2>1. Freed(slp, slp', p.xid)
    BY AttrRplyStep
  <2> QED
    BY <2>1 DEF Freed
<1> QED
  BY <1>1, SlpInvariant, PTL DEF Spec, AnsweredOnce

-----------------------------------------------------------------------------
(***************************************************************************)
(* A registration lasts until it is refreshed.                             *)
(*                                                                         *)
(* The counter of a slot stands still in a tick that sends a request for   *)
(* DAs, while the registration ages at the DA.  After such a tick the      *)
(* search waits CONFIG_MC_MAX ticks, so what the lifetime exceeds the      *)
(* refresh by must pay for one lost tick in CONFIG_MC_MAX.                 *)
(***************************************************************************)
\* The lifetime exceeds the refresh by a share of it that the search cannot use up: in
\* slp.h by 30 seconds, in ticks 300 * 150 >= 3000.
Slack == (LIFETIME - REFRESH) * CONFIG_MC_MAX >= REFRESH

\* What is left of a wait of at most CONFIG_MC_MAX ticks.
Wait(m) == IF m < CONFIG_MC_MAX THEN m ELSE CONFIG_MC_MAX

\* A registration with r ticks to live lasts until c ticks of its slot have gone by,
\* when the next request for DAs is m ticks away.
Lasts(r, c, m) == (r - c) * CONFIG_MC_MAX + Wait(m) >= c

\* Products.
LEMMA Products ==
  ASSUME NEW x \in Int, NEW z \in Nat
  PROVE  /\ x * z \in Int /\ (x - 1) * z = x * z - z
         /\ x < 0 => x * z <= 0 - z
         /\ \A y \in Int : x <= y => x * z <= y * z
<1>1. x * z \in Int /\ (x - 1) * z = x * z - z
  OBVIOUS
<1>2. \A y \in Int : x <= y => x * z <= y * z
  OBVIOUS
<1>3. ASSUME x < 0 PROVE x * z <= 0 - z
  <2>1. x <= -1 /\ -1 \in Int
    BY <1>3
  <2>2. x * z <= (-1) * z
    BY <1>2, <2>1
  <2> QED
    BY <2>2
<1> QED
  BY <1>1, <1>2, <1>3

\* It lives at least as long as that.
LEMMA LastsAlive ==
  ASSUME NEW r \in Nat, NEW c \in Nat \ {0}, NEW m \in Nat, Lasts(r, c, m)
  PROVE  r >= c
<1>1. CONFIG_MC_MAX \in Nat
  BY Constants
<1>2. Wait(m) \in Nat /\ Wait(m) <= CONFIG_MC_MAX
  BY <1>1 DEF Wait
<1> SUFFICES ASSUME r - c < 0 PROVE FALSE
  OBVIOUS
<1>3. r - c \in Int
  OBVIOUS
<1> DEFINE y == (r - c) * CONFIG_MC_MAX
<1>4. y \in Int /\ y <= 0 - CONFIG_MC_MAX
  BY <1>1, <1>3, Products
<1>5. y + Wait(m) >= c
  BY DEF Lasts
<1> HIDE DEF y
<1> QED
  BY <1>1, <1>2, <1>4, <1>5

\* A tick of the slot: the next request may have come one tick nearer.
LEMMA LastsTick ==
  ASSUME NEW r \in Nat, NEW c \in Nat \ {0}, NEW m \in Nat, Lasts(r, c, m),
         NEW n \in Nat, n >= m - 1
  PROVE  Lasts(r - 1, c - 1, n)
<1>1. CONFIG_MC_MAX \in Nat
  BY Constants
<1>2. /\ Wait(m) \in Nat /\ Wait(n) \in Nat /\ Wait(n) >= Wait(m) - 1
  BY <1>1 DEF Wait
<1>3. (r - 1) - (c - 1) = r - c /\ r - c \in Int
  OBVIOUS
<1> DEFINE y == (r - c) * CONFIG_MC_MAX
<1>4. y \in Int /\ y + Wait(m) >= c
  BY <1>1, <1>3, Products DEF Lasts
<1>5. ((r - 1) - (c - 1)) * CONFIG_MC_MAX = y
  BY <1>3
<1> HIDE DEF y
<1>6. y + Wait(n) >= c - 1
  BY <1>2, <1>4
<1> QED
  BY <1>5, <1>6 DEF Lasts

\* A tick that sends a request for DAs.
LEMMA LastsSearch ==
  ASSUME NEW r \in Nat, NEW c \in Nat \ {0}, Lasts(r, c, 0)
  PROVE  Lasts(r - 1, c, CONFIG_MC_MAX)
<1>1. CONFIG_MC_MAX \in Nat
  BY Constants
<1>2. Wait(0) = 0 /\ Wait(CONFIG_MC_MAX) = CONFIG_MC_MAX
  BY <1>1 DEF Wait
<1>3. (r - 1) - c = (r - c) - 1 /\ r - c \in Int
  OBVIOUS
<1> DEFINE y == (r - c) * CONFIG_MC_MAX
<1>4. y \in Int /\ y + 0 >= c /\ ((r - c) - 1) * CONFIG_MC_MAX = y - CONFIG_MC_MAX
  BY <1>1, <1>2, <1>3, Products DEF Lasts
<1>5. ((r - 1) - c) * CONFIG_MC_MAX = y - CONFIG_MC_MAX
  BY <1>3, <1>4
<1> HIDE DEF y
<1>6. (y - CONFIG_MC_MAX) + CONFIG_MC_MAX >= c
  BY <1>1, <1>4
<1> QED
  BY <1>2, <1>5, <1>6 DEF Lasts

\* The next request is put off.
LEMMA LastsLonger ==
  ASSUME NEW r \in Nat, NEW c \in Nat \ {0}, NEW m \in Nat, Lasts(r, c, m),
         NEW n \in Nat, n >= m \/ n = CONFIG_MC_MAX
  PROVE  Lasts(r, c, n)
<1>1. CONFIG_MC_MAX \in Nat
  BY Constants
<1>2. Wait(m) \in Nat /\ Wait(n) \in Nat /\ Wait(n) >= Wait(m)
  BY <1>1 DEF Wait
<1> DEFINE y == (r - c) * CONFIG_MC_MAX
<1>3. y \in Int /\ y + Wait(m) >= c
  BY <1>1, Products DEF Lasts
<1> HIDE DEF y
<1>4. y + Wait(n) >= c
  BY <1>2, <1>3
<1> QED
  BY <1>4 DEF Lasts, y

\* A registration that a DA has just accepted.
LEMMA LastsNew ==
  ASSUME Slack, NEW c \in 0 .. REFRESH, NEW m \in Nat
  PROVE  Lasts(LIFETIME, c, m)
<1>1. CONFIG_MC_MAX \in Nat /\ REFRESH \in Nat /\ LIFETIME \in Nat
  BY Constants
<1>2. Wait(m) \in Nat
  BY <1>1 DEF Wait
<1>3. /\ LIFETIME - REFRESH \in Int /\ LIFETIME - c \in Int
      /\ LIFETIME - REFRESH <= LIFETIME - c
  BY <1>1
<1> DEFINE y == (LIFETIME - c) * CONFIG_MC_MAX
           z == (LIFETIME - REFRESH) * CONFIG_MC_MAX
<1>4. y \in Int /\ z \in Int /\ z <= y
  BY <1>1, <1>3, Products
<1>5. z >= REFRESH
  BY DEF Slack
<1> HIDE DEF y, z
<1>6. y + Wait(m) >= c
  BY <1>1, <1>2, <1>4, <1>5
<1> QED
  BY <1>6 DEF Lasts, y

-----------------------------------------------------------------------------
(***************************************************************************)
(* What is registered is known to the DAs, or on the way.                  *)
(***************************************************************************)
\* The DA of slot k is the one agent s knows, with the DAs ds.
Known(s, ds, k) ==
  s.da[k].ip # NULL /\ ds[s.da[k].ip].boot # 0 /\ ds[s.da[k].ip].boot = s.da[k].boot

\* It has the registration, for long enough.
Fed(s, ds, k) == Lasts(ds[s.da[k].ip].regs[s.url], s.da[k].counter, s.dda.counter)

\* A packet that brings the registration to the DA of slot k, or its refusal.
Ours(s, k, p) ==
  \/ p.dir = "to" /\ p.type = "REG" /\ p.da = s.da[k].ip /\ p.url = s.url
  \/ p.dir = "from" /\ p.type = "SVRACK" /\ ~p.ok

\* Message x is to tell that DA, and no packet of the network n says it was told.
Pending(s, n, k, x) ==
  /\ x \in Nat \ {0} /\ x # s.dda.xid
  /\ RegEntry(k, s.url, x) \in Entries(s)
  /\ \A p \in n : p.xid = x => Ours(s, k, p)

\* One or the other, for the DA of one slot and for every DA that is known.
Provided(s, n, ds, k) == Fed(s, ds, k) \/ \E x : Pending(s, n, k, x)

Covered(s, n, ds, g) ==
  s.reg /\ s.url \notin g => \A k \in Slots : Known(s, ds, k) => Provided(s, n, ds, k)

\* Boot times are those of the DAs, or older.
BootsKnown ==
  /\ \A d \in DAs : das[d].boot \in {0, das[d].last}
  /\ \A k \in Slots : slp.da[k].ip # NULL => slp.da[k].boot <= das[slp.da[k].ip].last
  /\ \A p \in net : p.dir = "from" => p.boot <= das[p.da].last

\* Only what was deregistered is told to be.
DeregsGone ==
  /\ \A e \in Entries(slp) : e.type = "DEREG" => e.url \in gone
  /\ \A p \in net : p.dir = "to" /\ p.type = "DEREG" => p.url \in gone

\* Without discovery no search is due.
NoSearch == ~slp.dda.discover => slp.dda.counter = 0

\* What a slot in use and its DA hold.
LEMMA FedFields ==
  ASSUME NEW s, Sound(s), NEW ds \in [DAs -> DasEntries], NEW k \in Slots, s.da[k].ip # NULL,
         s.reg
  PROVE  /\ s.da[k].ip \in DAs /\ s.url \in Urls
         /\ ds[s.da[k].ip].regs[s.url] \in Nat
         /\ s.da[k].counter \in Nat \ {0} /\ s.da[k].counter \in 0 .. REFRESH
         /\ s.da[k].boot \in 0 .. MaxBoots
         /\ s.dda.counter \in Nat
<1>1. Tabled(s) /\ SlotsSound(s.da)
  BY DEF Sound
<1>2. s.da[k].ip \in DAs /\ s.da[k].counter \in 0 .. REFRESH /\ s.da[k].boot \in 0 .. MaxBoots
  BY <1>1, DaFields
<1>3. s.da[k].counter # 0 /\ s.url \in Urls
  BY <1>1 DEF SlotsSound, Tabled
<1>4. s.dda.counter \in Nat
  BY <1>1, AgentFields DEF Searches
<1>5. ds[s.da[k].ip].regs \in [Urls -> Nat]
  BY <1>2 DEF DasEntries
<1> QED
  BY <1>2, <1>3, <1>4, <1>5, Constants

\* Entries of one number are one entry.
LEMMA OneEntry ==
  ASSUME NEW s, Tabled(s), NEW e \in Entries(s), NEW f \in Entries(s), e.xid = f.xid
  PROVE  e = f
<1>1. PICK i \in DOMAIN s.msgs : e = Entry(s.msgs[i])
  BY DEF Entries, EntriesOf
<1>2. PICK j \in DOMAIN s.msgs : f = Entry(s.msgs[j])
  BY DEF Entries, EntriesOf
<1>3. s.msgs[i].xid = s.msgs[j].xid
  BY <1>1, <1>2 DEF Entry
<1>4. i = j
  BY <1>3 DEF Tabled, XidsApart
<1> QED
  BY <1>1, <1>2, <1>4

\* The number of a registration.
LEMMA RegEntryIs ==
  ASSUME NEW k, NEW u, NEW x
  PROVE  /\ RegEntry(k, u, x).type = "REG" /\ RegEntry(k, u, x).slot = k
         /\ RegEntry(k, u, x).url = u /\ RegEntry(k, u, x).xid = x
BY DEF RegEntry

\* A message on the table has a number that is in use.
LEMMA PendingUses ==
  ASSUME NEW s, Tabled(s), NEW k, NEW u, NEW x, RegEntry(k, u, x) \in Entries(s)
  PROVE  x \in Xids(s)
BY XidsAre, RegEntryIs

\* Packets o are some of the packets n, or not of number x, or ours.
Harmless(n, o, s, k, x) ==
  \A p \in o : p.xid = x => (\E q \in n : Same(p, q)) \/ Ours(s, k, p)

\* A message stays pending while its entry stays.
LEMMA PendingStill ==
  ASSUME NEW s, NEW t, NEW n, NEW o, NEW k, NEW x, Pending(s, n, k, x),
         t.url = s.url, t.da[k].ip = s.da[k].ip, RegEntry(k, s.url, x) \in Entries(t),
         t.dda.xid # x, Harmless(n, o, t, k, x)
  PROVE  Pending(t, o, k, x)
<1>1. ASSUME NEW p \in o, p.xid = x PROVE Ours(t, k, p)
  <2>1. CASE Ours(t, k, p)
    BY <2>1
  <2>2. CASE \E q \in n : Same(p, q)
    <3>1. PICK q \in n : Same(p, q)
      BY <2>2
    <3>2. q.xid = x /\ p.dir = q.dir /\ p.da = q.da /\ p.type = q.type /\ p.url = q.url
          /\ p.ok = q.ok
      BY <1>1, <3>1 DEF Same
    <3>3. Ours(s, k, q)
      BY <3>2 DEF Pending
    <3> QED
      BY <3>2, <3>3 DEF Ours
  <2> QED
    BY <1>1, <2>1, <2>2 DEF Harmless
<1> QED
  BY <1>1 DEF Pending

\* A message that is new is pending.
LEMMA PendingNew ==
  ASSUME NEW s, Tabled(s), NEW t, NEW o, NEW k, NEW x \in Nat \ {0}, x \notin Xids(s),
         RegEntry(k, t.url, x) \in Entries(t), t.dda.xid # x, Harmless(net, o, t, k, x)
  PROVE  Pending(t, o, k, x)
<1>1. ASSUME NEW p \in o, p.xid = x PROVE Ours(t, k, p)
  <2>1. CASE Ours(t, k, p)
    BY <2>1
  <2>2. CASE \E q \in net : Same(p, q)
    <3>1. PICK q \in net : Same(p, q)
      BY <2>2
    <3>2. q.xid = x
      BY <1>1, <3>1 DEF Same
    <3> QED
      BY <3>2 DEF Xids
  <2> QED
    BY <1>1, <2>1, <2>2 DEF Harmless
<1> QED
  BY <1>1 DEF Pending

\* Packets are Same as themselves.
LEMMA SomeAreHarmless ==
  ASSUME NEW n, NEW o, NEW s, NEW k, NEW x, \A p \in o : p \in n \/ p.xid # x
  PROVE  Harmless(n, o, s, k, x)
BY DEF Harmless, Same

\* What is sent for a pending message, and what is left of the other packets.
LEMMA SentIsHarmless ==
  ASSUME WireOK, NEW u, Tabled(u), NEW s, NEW k, NEW x, RegEntry(k, u.url, x) \in Entries(u),
         NEW out, \A p \in out : \E e \in Entries(u) : Sent(u, e, p),
         s.url = u.url, s.da[k].ip = u.da[k].ip
  PROVE  Harmless(net, Aged \cup out, s, k, x)
<1>1. ASSUME NEW p \in Aged PROVE \E q \in net : Same(p, q)
  BY <1>1, AgedIs
<1>2. ASSUME NEW p \in out, p.xid = x PROVE Ours(s, k, p)
  <2> DEFINE f == RegEntry(k, u.url, x)
  <2>1. PICK e \in Entries(u) : Sent(u, e, p)
    OBVIOUS
  <2>2. e.xid = x
    BY <1>2, <2>1 DEF Sent
  <2>3. f \in Entries(u) /\ f.type = "REG" /\ f.slot = k /\ f.url = u.url /\ f.xid = x
    BY RegEntryIs
  <2> HIDE DEF f
  <2>4. e = f
    BY <2>2, <2>3, OneEntry
  <2> QED
    BY <2>1, <2>3, <2>4 DEF Sent, Ours
<1> QED
  BY <1>1, <1>2 DEF Harmless

-----------------------------------------------------------------------------
(***************************************************************************)
(* Boots, deregistrations and searches.                                    *)
(***************************************************************************)
\* What is around the registrations.
Around == BootsKnown /\ DeregsGone /\ NoSearch

\* A step that boots no DA with an old time,
DasGoOn ==
  \A d \in DAs : das'[d].boot \in {0, das'[d].last} /\ das[d].last <= das'[d].last

\* puts no DA on the list with a boot it never had,
SlotsGoOn ==
  \A k \in Slots : slp'.da[k].ip # NULL =>
    \/ slp'.da[k].ip = slp.da[k].ip /\ slp'.da[k].boot = slp.da[k].boot
    \/ slp'.da[k].boot <= das[slp'.da[k].ip].last

\* makes no such packet,
PacketsGoOn ==
  \A p \in net' :
    \/ \E q \in net : Same(p, q)
    \/ /\ p.dir = "from" => p.boot <= das'[p.da].last
       /\ p.dir = "to" /\ p.type = "DEREG" => p.url \in gone'

\* deregisters nothing but what is gone,
EntriesGoOn ==
  /\ gone \subseteq gone'
  /\ \A e \in Entries(slp') : e \in Entries(slp) \/ e.type # "DEREG" \/ e.url \in gone'

\* and starts no search without discovery.
SearchGoesOn == slp'.dda = slp.dda \/ slp'.dda.discover

\* Such a step changes nothing of it.
LEMMA AroundStill ==
  ASSUME SlpTypes, SlpTypes', Around, DasGoOn, SlotsGoOn, PacketsGoOn, EntriesGoOn, SearchGoesOn
  PROVE  Around'
<1>1. /\ \A k \in Slots : slp'.da[k] \in DaEntries /\ slp'.da[k].ip \in DAs \cup {NULL}
                          /\ slp'.da[k].boot \in Int
      /\ \A d \in DAs : das[d].last \in Int /\ das'[d].last \in Int
      /\ \A p \in net' : p.da \in DAs /\ p.boot \in Int
  <2>1. slp'.da \in [Slots -> DaEntries]
    <3>1. Tabled(slp)'
      BY DEF SlpTypes, Sound
    <3> QED
      BY <3>1 DEF Tabled, Agents
  <2>2. \A k \in Slots : slp'.da[k].ip \in DAs \cup {NULL} /\ slp'.da[k].boot \in Int
    BY <2>1 DEF DaEntries
  <2>3. DasOK /\ DasOK' /\ WireOK'
    BY DEF SlpTypes
  <2>4. \A d \in DAs : das[d].last \in Int /\ das'[d].last \in Int
    BY <2>3 DEF DasOK
  <2>5. \A p \in net' : p.da \in DAs /\ p.boot \in Int
    BY <2>3 DEF WireOK, Packets
  <2> QED
    BY <2>1, <2>2, <2>4, <2>5
<1>2. BootsKnown'
  <2>1. \A d \in DAs : das'[d].boot \in {0, das'[d].last}
    BY DEF DasGoOn
  <2>2. ASSUME NEW k \in Slots, slp'.da[k].ip # NULL
        PROVE  slp'.da[k].boot <= das'[slp'.da[k].ip].last
    <3>1. slp'.da[k].ip \in DAs
      BY <1>1, <2>2
    <3>2. slp'.da[k].boot <= das[slp'.da[k].ip].last
      BY <2>2 DEF SlotsGoOn, Around, BootsKnown
    <3> QED
      BY <1>1, <3>1, <3>2 DEF DasGoOn
  <2>3. ASSUME NEW p \in net', p.dir = "from" PROVE p.boot <= das'[p.da].last
    <3>1. CASE \E q \in net : Same(p, q)
      <4>1. PICK q \in net : Same(p, q)
        BY <3>1
      <4>2. p.boot <= das[p.da].last
        BY <2>3, <4>1 DEF Same, Around, BootsKnown
      <4> QED
        BY <1>1, <4>2 DEF DasGoOn
    <3>2. CASE p.boot <= das'[p.da].last
      BY <3>2
    <3> QED
      BY <2>3, <3>1, <3>2 DEF PacketsGoOn
  <2> QED
    BY <2>1, <2>2, <2>3 DEF BootsKnown
<1>3. DeregsGone'
  <2>1. \A e \in Entries(slp') : e.type = "DEREG" => e.url \in gone'
    BY DEF EntriesGoOn, Around, DeregsGone
  <2>2. ASSUME NEW p \in net', p.dir = "to", p.type = "DEREG" PROVE p.url \in gone'
    <3>1. CASE \E q \in net : Same(p, q)
      BY <2>2, <3>1 DEF Same, Around, DeregsGone, EntriesGoOn
    <3> QED
      BY <2>2, <3>1 DEF PacketsGoOn
  <2> QED
    BY <2>1, <2>2 DEF DeregsGone
<1>4. NoSearch'
  BY DEF SearchGoesOn, Around, NoSearch
<1> QED
  BY <1>2, <1>3, <1>4 DEF Around

\* A tick that sends the request out for DAs.
SearchTick(out) ==
  /\ SearchDue(slp) /\ SameButSearch(slp, slp')
  /\ slp'.dda.discover = slp.dda.discover /\ slp'.dda.counter = CONFIG_MC_MAX
  /\ slp'.dda.xid = NewXid(slp)
  /\ \A p \in out : p.dir = "to" /\ p.type = "DISCOVER" /\ p.xid = NewXid(slp)
  /\ net' = Aged \cup out

\* A tick that counts (t), looks at the DAs (u) and sends the messages out.
RoundTick(t, u, out) ==
  /\ Sound(t) /\ SameButSearch(slp, t)
  /\ t.dda.xid \in {0, slp.dda.xid} /\ t.dda.counter \in Nat
  /\ t.dda.counter >= slp.dda.counter - 1
  /\ t.dda = slp.dda \/ t.dda.discover
  /\ Sound(u) /\ SameButTables(t, u) /\ OnlyRegs(t, u) /\ \A k \in Slots : AfterTick(t, u, k)
  /\ SameButTables(u, slp')
  /\ \A k \in Slots : slp'.da[k] \in {u.da[k], EmptySlot}
  /\ Entries(slp') \subseteq Entries(u)
  /\ \A e \in Entries(u) : slp'.da[e.slot] # EmptySlot => e \in Entries(slp')
  /\ \A p \in out : \E e \in Entries(u) : Sent(u, e, p)
  /\ net' = Aged \cup out

\* Tick is one or the other.
LEMMA TickDone ==
  ASSUME SlpTypes, NoSearch, Tick
  PROVE  (\E out : SearchTick(out)) \/ (\E t, u, out : RoundTick(t, u, out))
<1>1. PICK delay \in Nat : LET r == slp_tick(slp, delay)
                           IN  slp' = r.s /\ net' = Aged \cup r.out
  BY TickStep
<1> DEFINE r == slp_tick(slp, delay)
           t == TickSearch(slp)
           u == TickDas(t, delay)
<1>2. slp' = r.s /\ net' = Aged \cup r.out
  BY <1>1
<1>3. Sound(slp) /\ WireOK
  BY DEF SlpTypes
<1>4. \/ /\ SearchDue(slp) /\ SameButSearch(slp, r.s)
         /\ r.s.dda.discover = slp.dda.discover /\ r.s.dda.counter = CONFIG_MC_MAX
         /\ r.s.dda.xid = NewXid(slp)
         /\ \A p \in r.out : p.dir = "to" /\ p.type = "DISCOVER" /\ p.xid = NewXid(slp)
      \/ r = TickMsgs(u)
  <2> HIDE DEF r
  <2>1. r = slp_tick(slp, delay)
    BY DEF r
  <2> QED
    BY <1>3, <2>1, TickIs
<1> HIDE DEF r
<1>5. CASE SearchTick(r.out)
  BY <1>5
<1>6. CASE r = TickMsgs(u)
  <2>1. /\ Sound(t) /\ SameButSearch(slp, t)
        /\ t.dda.discover = slp.dda.discover /\ t.dda.xid \in {0, slp.dda.xid}
        /\ \/ t = slp /\ ~slp.dda.discover
           \/ slp.dda.counter # 0 /\ t.dda.counter = slp.dda.counter - 1
           \/ slp.dda.counter = 0 /\ slp.dda.discover /\ t.dda.xmits = 0
              /\ t.dda.counter = CONFIG_DA_FIND
    BY <1>3, TickSearchIs
  <2> HIDE DEF t
  <2>2. slp.dda.counter \in Nat /\ t.dda.counter \in Nat
    BY <1>3, <2>1, AgentFields DEF Sound, Searches
  <2>3. t.dda.counter >= slp.dda.counter - 1
    BY <2>1, <2>2, Constants
  <2>4. t.dda = slp.dda \/ t.dda.discover
    BY <2>1 DEF NoSearch
  <2>5. Sound(u) /\ SameButTables(t, u) /\ OnlyRegs(t, u) /\ \A k \in Slots : AfterTick(t, u, k)
    BY <1>3, <2>1, TickDasEffect
  <2> HIDE DEF u
  <2>6. /\ SameButTables(u, slp')
        /\ \A k \in Slots : slp'.da[k] \in {u.da[k], EmptySlot}
        /\ Entries(slp') \subseteq Entries(u)
        /\ \A e \in Entries(u) : slp'.da[e.slot] # EmptySlot => e \in Entries(slp')
        /\ \A p \in r.out : \E e \in Entries(u) : Sent(u, e, p)
    BY <1>2, <1>6, <2>5, TickMsgsEffect
  <2>7. RoundTick(t, u, r.out)
    BY <1>2, <2>1, <2>2, <2>3, <2>4, <2>5, <2>6 DEF RoundTick
  <2> QED
    BY <2>7
<1> QED
  BY <1>2, <1>4, <1>5, <1>6 DEF SearchTick

\* Every step goes on so.
LEMMA AroundKept ==
  ASSUME SlpTypes, Around, [Next]_vars PROVE Around'
<1>1. Sound(slp) /\ WireOK /\ DasOK /\ SlpTypes'
  BY TypesKept DEF SlpTypes
<1>2. \A p : Same(p, p)
  BY DEF Same
<1>3. ASSUME das' = das PROVE DasGoOn
  BY <1>1, <1>3 DEF DasGoOn, DasOK, Around, BootsKnown
<1>4. ASSUME slp'.da = slp.da PROVE SlotsGoOn
  BY <1>4 DEF SlotsGoOn
<1>5. ASSUME slp'.dda = slp.dda PROVE SearchGoesOn
  BY <1>5 DEF SearchGoesOn
<1>6. ASSUME net' \subseteq net PROVE PacketsGoOn
  BY <1>2, <1>6 DEF PacketsGoOn
<1>7. ASSUME slp'.msgs = slp.msgs, gone \subseteq gone' PROVE EntriesGoOn
  BY <1>7 DEF EntriesGoOn, Entries
<1>8. ASSUME DasGoOn, SlotsGoOn, PacketsGoOn, EntriesGoOn, SearchGoesOn PROVE Around'
  BY <1>1, <1>8, AroundStill
<1>9. CASE Tick
  <2>1. DasGoOn
    <3>1. das' = [d \in DAs |-> [das[d] EXCEPT
                    !.regs = [u \in Urls |-> IF @[u] = 0 THEN 0 ELSE @[u] - 1]]]
      BY <1>9, Zenon DEF Tick
    <3>2. \A d \in DAs : das'[d].boot = das[d].boot /\ das'[d].last = das[d].last
      BY <1>1, <3>1, DasAge
    <3>3. \A d \in DAs : das[d].last \in 0 .. MaxBoots /\ das[d].boot \in {0, das[d].last}
      BY <1>1 DEF DasOK, Around, BootsKnown
    <3> QED
      BY <3>2, <3>3 DEF DasGoOn
  <2>2. gone' = gone
    BY <1>9 DEF Tick
  <2>3. (\E out : SearchTick(out)) \/ (\E t, u, out : RoundTick(t, u, out))
    BY <1>9, TickDone DEF Around
  <2>4. \A p \in Aged : \E q \in net : Same(p, q)
    BY <1>1, AgedIs
  <2>5. ASSUME NEW out, SearchTick(out) PROVE Around'
    <3>1. SlotsGoOn /\ EntriesGoOn
      BY <1>4, <1>7, <2>2, <2>5 DEF SearchTick, SameButSearch
    <3>2. PacketsGoOn
      BY <2>4, <2>5 DEF SearchTick, PacketsGoOn
    <3>3. SearchGoesOn
      BY <2>5 DEF SearchTick, SearchDue, SearchGoesOn
    <3> QED
      BY <1>8, <2>1, <3>1, <3>2, <3>3
  <2>6. ASSUME NEW t, NEW u, NEW out, RoundTick(t, u, out) PROVE Around'
    <3>1. t.da = slp.da /\ t.msgs = slp.msgs
      BY <2>6 DEF RoundTick, SameButSearch
    <3>2. SlotsGoOn
      <4> SUFFICES ASSUME NEW k \in Slots, slp'.da[k].ip # NULL
                   PROVE  slp'.da[k].ip = slp.da[k].ip /\ slp'.da[k].boot = slp.da[k].boot
        BY DEF SlotsGoOn
      <4>1. slp'.da[k] = u.da[k] /\ u.da[k] # EmptySlot
        BY <2>6, EmptyIs DEF RoundTick
      <4>2. AfterTick(t, u, k)
        BY <2>6 DEF RoundTick
      <4> QED
        BY <3>1, <4>1, <4>2 DEF AfterTick
    <3>3. Entries(t) = Entries(slp)
      BY <3>1 DEF Entries
    <3>4. \A e \in Entries(u) : e \in Entries(slp) \/ e.type = "REG"
      BY <2>6, <3>3 DEF RoundTick, OnlyRegs
    <3>5. EntriesGoOn
      BY <2>2, <2>6, <3>4 DEF RoundTick, EntriesGoOn
    <3>6. ASSUME NEW p \in out PROVE p.dir = "to" /\ (p.type = "DEREG" => p.url \in gone')
      <4>1. PICK e \in Entries(u) : Sent(u, e, p)
        BY <2>6, <3>6 DEF RoundTick
      <4>2. p.dir = "to" /\ p.type = e.type /\ (e.type = "DEREG" => p.url = e.url)
        BY <4>1 DEF Sent
      <4>3. e.type = "DEREG" => e.url \in gone
        BY <3>4 DEF Around, DeregsGone
      <4> QED
        BY <2>2, <4>2, <4>3
    <3>7. PacketsGoOn
      BY <2>4, <2>6, <3>6 DEF RoundTick, PacketsGoOn
    <3>8. SearchGoesOn
      BY <2>6 DEF RoundTick, SameButTables, SearchGoesOn
    <3> QED
      BY <1>8, <2>1, <3>2, <3>5, <3>7, <3>8
  <2> QED
    BY <2>3, <2>5, <2>6
<1>10. ASSUME NEW p \in net, RxDaAdvert(p) PROVE Around'
  <2>1. PICK s, out :
           /\ s = slp \/ \E k \in Slots : SameBut(slp, s, k) /\ Added(slp, s, k, p.da, p.boot)
           /\ SameButSearch(s, slp') /\ slp'.dda.discover = s.dda.discover
           /\ net' = (net \ {p}) \cup out
           /\ \/ slp' = s /\ out = {}
              \/ /\ s.dda.discover
                 /\ \A q \in out : q.dir = "to" /\ q.type = "DISCOVER" /\ q.xid = NewXid(s)
    BY <1>10, AdvertStep
  <2>2. das' = das /\ gone' = gone /\ p.dir = "from"
    BY <1>10 DEF RxDaAdvert, Arrives
  <2>3. p.boot <= das[p.da].last
    BY <2>2 DEF Around, BootsKnown
  <2>4. slp'.da = s.da /\ Entries(slp') = Entries(s)
    BY <2>1 DEF SameButSearch, Entries
  <2>5. SlotsGoOn
    <3>1. CASE s = slp
      BY <1>4, <2>4, <3>1
    <3>2. ASSUME NEW k \in Slots, SameBut(slp, s, k), Added(slp, s, k, p.da, p.boot)
          PROVE  SlotsGoOn
      <4> SUFFICES ASSUME NEW j \in Slots, s.da[j].ip # NULL
                   PROVE  \/ s.da[j].ip = slp.da[j].ip /\ s.da[j].boot = slp.da[j].boot
                          \/ s.da[j].boot <= das[s.da[j].ip].last
        BY <2>4 DEF SlotsGoOn
      <4>1. CASE j # k
        BY <3>2, <4>1 DEF SameBut
      <4>2. CASE j = k
        BY <2>3, <3>2, <4>2, EmptyIs DEF Added
      <4> QED
        BY <4>1, <4>2
    <3> QED
      BY <2>1, <3>1, <3>2
  <2>6. EntriesGoOn
    <3>1. \A e \in Entries(s) : e \in Entries(slp) \/ e.type = "REG"
      BY <2>1, RegEntryIs DEF Added, Told, Entries
    <3> QED
      BY <2>2, <2>4, <3>1 DEF EntriesGoOn
  <2>7. PacketsGoOn
    BY <1>2, <2>1 DEF PacketsGoOn
  <2>8. SearchGoesOn
    <3>1. s.dda = slp.dda
      BY <2>1 DEF SameBut
    <3> QED
      BY <2>1, <3>1 DEF SearchGoesOn
  <2> QED
    BY <1>3, <1>8, <2>2, <2>5, <2>6, <2>7, <2>8
<1>11. ASSUME NEW p \in net, RxSvrAck(p) PROVE Around'
  <2>1. das' = das /\ gone' = gone /\ net' \subseteq net
    BY <1>11 DEF RxSvrAck
  <2>2. \/ slp' = slp
        \/ \E s : \E k \in Slots :
             /\ SameButSlot(slp, s, k) /\ Freed(s, slp', p.xid)
             /\ IF p.ok THEN s.da[k].ip = slp.da[k].ip /\ s.da[k].boot = slp.da[k].boot
                        ELSE s.da[k] = EmptySlot
    BY <1>11, AckStep
  <2>3. SlotsGoOn /\ EntriesGoOn /\ SearchGoesOn
    <3>1. CASE slp' = slp
      BY <1>4, <1>5, <1>7, <2>1, <3>1
    <3>2. ASSUME NEW s, NEW k \in Slots, SameButSlot(slp, s, k), Freed(s, slp', p.xid),
                 IF p.ok THEN s.da[k].ip = slp.da[k].ip /\ s.da[k].boot = slp.da[k].boot
                         ELSE s.da[k] = EmptySlot
          PROVE  SlotsGoOn /\ EntriesGoOn /\ SearchGoesOn
      <4>1. slp'.da = s.da /\ slp'.dda = slp.dda /\ Entries(slp') \subseteq Entries(slp)
        BY <3>2 DEF SameButSlot, Freed, SameButMsgs, Entries
      <4>2. \A j \in Slots : s.da[j].ip # NULL =>
              s.da[j].ip = slp.da[j].ip /\ s.da[j].boot = slp.da[j].boot
        BY <3>2, EmptyIs DEF SameButSlot
      <4> QED
        BY <1>5, <2>1, <4>1, <4>2 DEF SlotsGoOn, EntriesGoOn
    <3> QED
      BY <2>2, <3>1, <3>2
  <2> QED
    BY <1>3, <1>6, <1>8, <2>1, <2>3
<1>12. ASSUME NEW p \in net, RxSrvRply(p) PROVE Around'
  <2>1. das' = das /\ gone' = gone /\ net' \subseteq net
    BY <1>12 DEF RxSrvRply
  <2>2. slp' = slp \/ \E s : Asked(slp, s) /\ Freed(s, slp', p.xid)
    BY <1>12, SrvRplyStep
  <2>3. SlotsGoOn /\ EntriesGoOn /\ SearchGoesOn
    <3>1. CASE slp' = slp
      BY <1>4, <1>5, <1>7, <2>1, <3>1
    <3>2. ASSUME NEW s, Asked(slp, s), Freed(s, slp', p.xid)
          PROVE  SlotsGoOn /\ EntriesGoOn /\ SearchGoesOn
      <4>1. slp'.da = slp.da /\ slp'.dda = slp.dda /\ Entries(slp') \subseteq Entries(s)
        BY <3>2 DEF Asked, Freed, SameButMsgs
      <4>2. EntriesGoOn
        BY <2>1, <3>2, <4>1 DEF Asked, EntriesGoOn
      <4> QED
        BY <1>4, <1>5, <4>1, <4>2
    <3> QED
      BY <2>2, <3>1, <3>2
  <2> QED
    BY <1>3, <1>6, <1>8, <2>1, <2>3
<1>13. ASSUME NEW p \in net, RxAttrRply(p) PROVE Around'
  <2>1. das' = das /\ gone' = gone /\ net' \subseteq net
    BY <1>13 DEF RxAttrRply
  <2>2. slp'.da = slp.da /\ slp'.dda = slp.dda /\ Entries(slp') \subseteq Entries(slp)
    BY <1>13, AttrRplyStep DEF Freed, SameButMsgs
  <2>3. EntriesGoOn
    BY <2>1, <2>2 DEF EntriesGoOn
  <2> QED
    BY <1>3, <1>4, <1>5, <1>6, <1>8, <2>1, <2>2, <2>3
<1>14. CASE AppAny
  <2>1. net' = net /\ das' = das
    BY <1>14 DEF AppAny, Open, StartDiscovery, Discover, Close, Closed, Register, Deregister
  <2>2. DasGoOn /\ PacketsGoOn
    BY <1>3, <1>6, <2>1
  <2>3. CASE Open
    BY <1>4, <1>5, <1>7, <1>8, <2>2, <2>3, OpenStep DEF Open
  <2>4. CASE StartDiscovery
    <3>1. SameButSearch(slp, slp') /\ slp'.dda.discover = TRUE /\ gone' = gone
      BY <2>4, StartStep DEF StartDiscovery
    <3>2. SearchGoesOn /\ EntriesGoOn /\ SlotsGoOn
      BY <1>4, <1>7, <3>1 DEF SearchGoesOn, SameButSearch
    <3> QED
      BY <1>8, <2>2, <3>2
  <2>5. CASE Closed
    <3>1. /\ \A k \in Slots : slp'.da[k] = EmptySlot
          /\ slp'.msgs = slp.msgs /\ slp'.dda = slp.dda /\ gone' = gone
      BY <2>5, ClosedStep DEF Closed
    <3>2. SlotsGoOn
      BY <3>1, EmptyIs DEF SlotsGoOn
    <3> QED
      BY <1>5, <1>7, <1>8, <2>2, <3>1, <3>2
  <2>6. ASSUME slp'.da = slp.da, slp'.dda = slp.dda, gone \subseteq gone',
               \A e \in Entries(slp') \ Entries(slp) : e.type # "DEREG" \/ e.url \in gone'
        PROVE  Around'
    <3>1. EntriesGoOn
      BY <2>6 DEF EntriesGoOn
    <3> QED
      BY <1>4, <1>5, <1>8, <2>2, <2>6, <3>1
  <2>7. CASE Discover
    <3>1. /\ slp'.da = slp.da /\ slp'.dda = slp.dda /\ gone' = gone
          /\ \A e \in Entries(slp') \ Entries(slp) : e.type \in {"SRVRQST", "ATTRRQST"}
      BY <2>7, DiscoverStep DEF Discover, Asked, SameButMsgs
    <3> QED
      BY <2>6, <3>1
  <2>8. CASE Close
    <3>1. /\ slp'.da = slp.da /\ slp'.dda = slp.dda
          /\ \A e \in Entries(slp') \ Entries(slp) : e.type = "DEREG" /\ e.url = slp.url
          /\ ~slp.reg => Entries(slp') = Entries(slp)
      BY <2>8, CloseStep
    <3>2. gone' = IF slp.reg THEN gone \cup {slp.url} ELSE gone
      BY <2>8 DEF Close
    <3>3. \A e \in Entries(slp') \ Entries(slp) : e.url \in gone'
      BY <1>1, <3>1, <3>2, AgentFields DEF Sound
    <3> QED
      BY <2>6, <3>1, <3>2, <3>3
  <2>9. ASSUME NEW u \in Urls, Register(u) PROVE Around'
    <3>1. /\ slp'.da = slp.da /\ slp'.dda = slp.dda /\ gone' = gone
          /\ \A e \in Entries(slp') \ Entries(slp) : e.type = "REG"
      BY <2>9, RegisterStep DEF Register
    <3> QED
      BY <2>6, <3>1
  <2>10. ASSUME NEW u \in Urls, Deregister(u) PROVE Around'
    <3>1. /\ slp'.da = slp.da /\ slp'.dda = slp.dda /\ gone' = gone \cup {u}
          /\ \A e \in Entries(slp') \ Entries(slp) : e.type = "DEREG" /\ e.url = u
      BY <2>10, DeregisterStep DEF Deregister
    <3> QED
      BY <2>6, <3>1
  <2> QED
    BY <1>14, <2>3, <2>4, <2>5, <2>7, <2>8, <2>9, <2>10 DEF AppAny
<1>15. ASSUME slp' = slp, gone' = gone PROVE SlotsGoOn /\ EntriesGoOn /\ SearchGoesOn
  BY <1>4, <1>5, <1>7, <1>15
<1>16. \A d \in DAs : /\ das[d].boot \in {0, das[d].last} /\ das[d].last \in Nat
                      /\ das[d].boot \in Nat
  BY <1>1, Constants DEF DasOK, Around, BootsKnown
<1>17. ASSUME NEW d \in DAs, NEW p \in net, NEW ok \in BOOLEAN, DaAnswers(d, p, ok)
       PROVE  Around'
  <2> DEFINE r == Reply(d, p, ok)
             t == [das EXCEPT ![d].regs[p.url] = Life(p)]
  <2>1. /\ net' = (net \ {p}) \cup {r}
        /\ das' = IF ok /\ p.type \in {"REG", "DEREG"} THEN t ELSE das
        /\ slp' = slp /\ gone' = gone
    BY <1>17, AnswersIs
  <2>2. p \in Packets /\ Life(p) \in Nat
    BY <1>1, Constants DEF WireOK, Life
  <2>3. r.dir = "from" /\ r.da = d /\ r.boot \in {0, das[d].boot}
    BY <1>1, <2>2, ReplyIs
  <2>4. /\ \A e \in DAs \ {d} : t[e] = das[e]
        /\ t[d].boot = das[d].boot /\ t[d].last = das[d].last
    BY <1>1, <2>2, AcceptedIs
  <2> HIDE DEF r, t
  <2>5. \A e \in DAs : das'[e].boot = das[e].boot /\ das'[e].last = das[e].last
    BY <2>1, <2>4
  <2>6. DasGoOn
    BY <1>16, <2>5 DEF DasGoOn
  <2>7. PacketsGoOn
    BY <1>2, <1>16, <2>1, <2>3, <2>5 DEF PacketsGoOn
  <2> QED
    BY <1>8, <1>15, <2>1, <2>6, <2>7
<1>18. ASSUME NEW d \in DAs, NEW b \in {0, das[d].boot}, NEW out,
              out \subseteq {FromDa(d, "DAADVERT", 0, TRUE, b, NULL, {})},
              net' = net \cup out, das'[d].last = das[d].last
       PROVE  PacketsGoOn
  <2>1. \A p \in out : p.dir = "from" /\ p.da = d /\ p.boot = b
    BY <1>18 DEF FromDa
  <2>2. \A p \in out : p.dir = "from" /\ p.boot <= das'[p.da].last
    BY <1>16, <1>18, <2>1
  <2> QED
    BY <1>2, <1>18, <2>2 DEF PacketsGoOn
<1>19. ASSUME NEW d \in DAs, DaAdvertises(d) PROVE Around'
  <2>1. /\ net' = net \cup {FromDa(d, "DAADVERT", 0, TRUE, das[d].boot, NULL, {})}
        /\ slp' = slp /\ das' = das /\ gone' = gone
    BY <1>19 DEF DaAdvertises
  <2>2. PacketsGoOn
    BY <1>18, <2>1
  <2> QED
    BY <1>3, <1>8, <1>15, <2>1, <2>2
<1>20. ASSUME NEW d \in DAs, DaStops(d) PROVE Around'
  <2>1. /\ net' = net \/ net' = net \cup {FromDa(d, "DAADVERT", 0, TRUE, 0, NULL, {})}
        /\ slp' = slp /\ gone' = gone
    BY <1>20 DEF DaStops
  <2>2. /\ \A e \in DAs \ {d} : das'[e] = das[e]
        /\ das'[d].boot = 0 /\ das'[d].last = das[d].last
    BY <1>1, <1>20, StopsIs
  <2>3. DasGoOn
    BY <1>16, <2>2 DEF DasGoOn
  <2>4. PacketsGoOn
    BY <1>6, <1>18, <2>1, <2>2
  <2> QED
    BY <1>8, <1>15, <2>1, <2>3, <2>4
<1>21. ASSUME NEW d \in DAs, DaBoots(d) PROVE Around'
  <2>1. net' = net /\ slp' = slp /\ gone' = gone
    BY <1>21 DEF DaBoots
  <2>2. PICK n \in 1 .. MaxBoots :
           /\ \A e \in DAs : das[e].last < n
           /\ \A e \in DAs \ {d} : das'[e] = das[e]
           /\ das'[d].boot = n /\ das'[d].last = n
    BY <1>1, <1>21, BootsIs
  <2>3. DasGoOn
    BY <1>16, <2>2 DEF DasGoOn
  <2> QED
    BY <1>6, <1>8, <1>15, <2>1, <2>3
<1>22. CASE UNCHANGED vars
  BY <1>3, <1>6, <1>8, <1>15, <1>22 DEF vars
<1>23. CASE RxAny
  BY <1>10, <1>11, <1>12, <1>13, <1>23 DEF RxAny
<1>24. CASE DaAny
  BY <1>17, <1>19, <1>20, <1>21, <1>24 DEF DaAny
<1> QED
  BY <1>9, <1>14, <1>22, <1>23, <1>24 DEF Next

-----------------------------------------------------------------------------
(***************************************************************************)
(* A registration is kept, or on the way, at every step.                   *)
(***************************************************************************)
\* The inductive invariant of the registrations.
SlpInv == SlpTypes /\ Around /\ Covered(slp, net, das, gone)

\* What is pending in s is on the table of t.
StillThere(s, n, t, k) == \A x : Pending(s, n, k, x) => RegEntry(k, s.url, x) \in Entries(t)

\* No packets are new but advertisements nobody asked for.
NoneNew(n, o) == \A p \in o : p \in n \/ p.xid = 0

\* A DA whose slot nothing happens to.
LEMMA ProvidedStill ==
  ASSUME NEW s, NEW t, NEW n, NEW o, NEW ds, NEW es, NEW k, Provided(s, n, ds, k),
         t.url = s.url, t.dda = s.dda, t.da[k].ip = s.da[k].ip,
         t.da[k].counter = s.da[k].counter,
         es[s.da[k].ip].regs = ds[s.da[k].ip].regs, StillThere(s, n, t, k), NoneNew(n, o)
  PROVE  Provided(t, o, es, k)
<1>1. CASE Fed(s, ds, k)
  BY <1>1 DEF Fed, Provided
<1>2. ASSUME NEW x, Pending(s, n, k, x) PROVE Pending(t, o, k, x)
  <2>1. x # 0 /\ t.dda.xid # x /\ RegEntry(k, s.url, x) \in Entries(t)
    BY <1>2 DEF Pending, StillThere
  <2>2. Harmless(n, o, t, k, x)
    BY <2>1 DEF NoneNew, Harmless, Same
  <2> QED
    BY <1>2, <2>1, <2>2, PendingStill
<1> QED
  BY <1>1, <1>2 DEF Provided

\* Tick.
LEMMA TickProvides ==
  ASSUME SlpInv, Room(slp), Tick, slp'.reg, slp'.url \notin gone', NEW k \in Slots,
         Known(slp', das', k)
  PROVE  Provided(slp', net', das', k)
<1> DEFINE d == slp.da[k].ip
           c == slp.da[k].counter
           m == slp.dda.counter
           r == das[d].regs[slp.url]
<1>1. Sound(slp) /\ WireOK /\ DasOK /\ das \in [DAs -> DasEntries]
  BY DEF SlpInv, SlpTypes, DasOK, DasEntries
<1>2. gone' = gone
  BY DEF Tick
<1>3. \A e \in DAs : /\ das'[e].boot = das[e].boot
                     /\ \A u \in Urls :
                          das'[e].regs[u] = IF das[e].regs[u] = 0 THEN 0 ELSE das[e].regs[u] - 1
  BY <1>1, DasAge DEF Tick
<1>4. ASSUME slp'.url = slp.url, slp'.reg = slp.reg,
             slp'.da[k].ip = d, slp'.da[k].boot = slp.da[k].boot
      PROVE  /\ d # NULL /\ d \in DAs /\ r \in Nat /\ c \in Nat \ {0} /\ m \in Nat
             /\ das'[d].regs[slp.url] = IF r = 0 THEN 0 ELSE r - 1
             /\ Provided(slp, net, das, k)
  <2>1. d # NULL
    BY <1>4 DEF Known
  <2>2. d \in DAs /\ slp.url \in Urls /\ r \in Nat /\ c \in Nat \ {0} /\ m \in Nat
    BY <1>1, <1>4, <2>1, FedFields
  <2>3. Known(slp, das, k)
    BY <1>3, <1>4, <2>1, <2>2 DEF Known
  <2>4. Provided(slp, net, das, k)
    BY <1>2, <1>4, <2>3 DEF SlpInv, Covered
  <2> QED
    BY <1>3, <2>1, <2>2, <2>4
<1>5. ASSUME NEW out, SearchTick(out) PROVE Provided(slp', net', das', k)
  <2>1. /\ slp'.da = slp.da /\ slp'.msgs = slp.msgs /\ slp'.url = slp.url /\ slp'.reg = slp.reg
        /\ slp'.dda.counter = CONFIG_MC_MAX /\ slp'.dda.xid = NewXid(slp) /\ m = 0
    BY <1>5 DEF SearchTick, SameButSearch, SearchDue
  <2>2. /\ r \in Nat /\ c \in Nat \ {0} /\ Provided(slp, net, das, k)
        /\ das'[d].regs[slp.url] = IF r = 0 THEN 0 ELSE r - 1
    BY <1>4, <2>1
  <2>3. CASE Fed(slp, das, k)
    <3> HIDE DEF d, c, m, r
    <3>1. Lasts(r, c, 0)
      BY <2>1, <2>3 DEF Fed, d, c, m, r
    <3>2. r >= c /\ Lasts(r - 1, c, CONFIG_MC_MAX)
      BY <2>2, <3>1, LastsAlive, LastsSearch
    <3>3. das'[d].regs[slp.url] = r - 1
      BY <2>2, <3>2
    <3>4. Fed(slp', das', k)
      BY <2>1, <3>2, <3>3 DEF Fed, d, c, m, r
    <3> QED
      BY <3>4 DEF Provided
  <2>4. ASSUME NEW x, Pending(slp, net, k, x) PROVE Provided(slp', net', das', k)
    <3>1. RegEntry(k, slp.url, x) \in Entries(slp)
      BY <2>4 DEF Pending
    <3>2. x \in Xids(slp)
      BY <1>1, <3>1, PendingUses DEF Sound
    <3>3. NewXid(slp) # x
      BY <1>1, <3>2, NewXidIs DEF Sound, Tabled
    <3>4. Harmless(net, net', slp', k, x)
      <4>1. \A p \in Aged : \E q \in net : Same(p, q)
        BY <1>1, AgedIs
      <4> QED
        BY <1>5, <3>3, <4>1 DEF SearchTick, Harmless
    <3>5. RegEntry(k, slp.url, x) \in Entries(slp')
      BY <2>1, <3>1 DEF Entries
    <3>6. Pending(slp', net', k, x)
      BY <2>1, <2>4, <3>3, <3>4, <3>5, PendingStill
    <3> QED
      BY <3>6 DEF Provided
  <2> QED
    BY <2>2, <2>3, <2>4 DEF Provided
<1>6. ASSUME NEW t, NEW u, NEW out, RoundTick(t, u, out) PROVE Provided(slp', net', das', k)
  <2>1. /\ t.da = slp.da /\ t.msgs = slp.msgs /\ t.url = slp.url /\ t.reg = slp.reg
        /\ u.url = slp.url /\ u.reg = slp.reg /\ slp'.url = slp.url /\ slp'.reg = slp.reg
        /\ slp'.dda = t.dda /\ Tabled(t) /\ Tabled(u)
    BY <1>6 DEF RoundTick, SameButSearch, SameButTables, Sound
  <2>2. slp'.da[k] = u.da[k] /\ slp'.da[k] # EmptySlot
    BY <1>6, EmptyIs DEF RoundTick, Known
  <2>3. AfterTick(t, u, k)
    BY <1>6 DEF RoundTick
  <2>4. /\ u.da[k].ip = d /\ u.da[k].boot = slp.da[k].boot
        /\ u.da[k].counter = c - 1 \/ IsTold(t, u, k)
    <3>1. Room(t)
      BY <2>1 DEF Room
    <3> QED
      BY <2>1, <2>2, <2>3, <3>1 DEF AfterTick, Known
  <2>5. /\ r \in Nat /\ c \in Nat \ {0} /\ m \in Nat /\ Provided(slp, net, das, k)
        /\ das'[d].regs[slp.url] = IF r = 0 THEN 0 ELSE r - 1
    BY <1>4, <2>1, <2>2, <2>4
  <2>6. \A x : RegEntry(k, slp.url, x) \in Entries(u) => RegEntry(k, slp.url, x) \in Entries(slp')
    <3>1. \A x : RegEntry(k, slp.url, x).slot = k
      BY RegEntryIs
    <3> QED
      BY <1>6, <2>2, <3>1 DEF RoundTick
  <2>7. ASSUME NEW x, RegEntry(k, slp.url, x) \in Entries(u) PROVE Harmless(net, net', slp', k, x)
    <3>1. net' = Aged \cup out /\ \A p \in out : \E e \in Entries(u) : Sent(u, e, p)
      BY <1>6 DEF RoundTick
    <3>2. slp'.url = u.url /\ slp'.da[k].ip = u.da[k].ip /\ RegEntry(k, u.url, x) \in Entries(u)
      BY <2>1, <2>2, <2>7
    <3> QED
      BY <1>1, <2>1, <3>1, <3>2, SentIsHarmless
  <2>8. CASE IsTold(t, u, k)
    <3>1. PICK x \in Nat \ {0} : x \notin Xids(t) /\ RegEntry(k, slp.url, x) \in Entries(u)
      BY <2>1, <2>8 DEF IsTold
    <3>2. slp'.dda.xid # x
      BY <2>1, <3>1 DEF Xids
    <3>3. Pending(slp', net', k, x)
      BY <2>1, <2>6, <2>7, <3>1, <3>2, PendingNew
    <3> QED
      BY <3>3 DEF Provided
  <2>9. CASE Fed(slp, das, k) /\ u.da[k].counter = c - 1
    <3> DEFINE n == slp'.dda.counter
    <3>1. n \in Nat /\ n >= m - 1
      BY <1>6, <2>1 DEF RoundTick
    <3> HIDE DEF d, c, m, r, n
    <3>2. Lasts(r, c, m)
      BY <2>9 DEF Fed, d, c, m, r
    <3>3. r >= c /\ Lasts(r - 1, c - 1, n)
      BY <2>5, <3>1, <3>2, LastsAlive, LastsTick
    <3>4. das'[d].regs[slp.url] = r - 1
      BY <2>5, <3>3
    <3>5. Fed(slp', das', k)
      BY <2>1, <2>2, <2>4, <2>9, <3>3, <3>4 DEF Fed, n
    <3> QED
      BY <3>5 DEF Provided
  <2>10. ASSUME NEW x, Pending(slp, net, k, x) PROVE Provided(slp', net', das', k)
    <3>1. RegEntry(k, slp.url, x) \in Entries(slp) /\ x # 0 /\ x # slp.dda.xid
      BY <2>10 DEF Pending
    <3>2. RegEntry(k, slp.url, x) \in Entries(u)
      BY <1>6, <2>1, <3>1 DEF RoundTick, OnlyRegs, Entries
    <3>3. slp'.dda.xid # x
      BY <1>6, <2>1, <3>1 DEF RoundTick
    <3>4. slp'.url = slp.url /\ slp'.da[k].ip = slp.da[k].ip
      BY <2>1, <2>2, <2>4
    <3>5. Pending(slp', net', k, x)
      BY <2>6, <2>7, <2>10, <3>2, <3>3, <3>4, PendingStill
    <3> QED
      BY <3>5 DEF Provided
  <2> QED
    BY <2>4, <2>5, <2>8, <2>9, <2>10 DEF Provided
<1>7. (\E out : SearchTick(out)) \/ (\E t, u, out : RoundTick(t, u, out))
  BY TickDone DEF SlpInv, Around
<1> QED
  BY <1>5, <1>6, <1>7

\* RxDaAdvert.
LEMMA AdvertProvides ==
  ASSUME SlpInv, Room(slp), NEW p, RxDaAdvert(p), slp'.reg, slp'.url \notin gone',
         NEW k \in Slots, Known(slp', das', k)
  PROVE  Provided(slp', net', das', k)
<1>1. SlpTypes /\ Sound(slp) /\ WireOK /\ das \in [DAs -> DasEntries]
  BY DEF SlpInv, SlpTypes, DasOK, DasEntries
<1>2. das' = das /\ gone' = gone
  BY DEF RxDaAdvert
<1>3. PICK s, out :
        /\ Sound(s)
        /\ s = slp \/ \E j \in Slots : SameBut(slp, s, j) /\ Added(slp, s, j, p.da, p.boot)
        /\ SameButSearch(s, slp')
        /\ net' = (net \ {p}) \cup out
        /\ \/ slp' = s /\ out = {}
           \/ /\ slp'.dda.xid = NewXid(s) /\ slp'.dda.counter = CONFIG_MC_MAX
              /\ s.dda.discover
              /\ \A q \in out : q.dir = "to" /\ q.type = "DISCOVER" /\ q.xid = NewXid(s)
  BY <1>1, AdvertStep
<1>4. /\ slp'.da = s.da /\ slp'.url = slp.url /\ slp'.reg = slp.reg /\ s.dda = slp.dda
      /\ s.url = slp.url /\ Entries(slp') = Entries(s)
  BY <1>3 DEF SameButSearch, SameBut, Entries
<1>5. Entries(slp) \subseteq Entries(s)
  BY <1>3 DEF Added, Told, Entries
<1>6. ASSUME NEW x, x # slp.dda.xid, RegEntry(k, slp.url, x) \in Entries(s)
      PROVE  slp'.dda.xid # x /\ Harmless(net, net', slp', k, x)
  <2>1. CASE slp' = s /\ out = {}
    <3>1. \A q \in net' : q \in net
      BY <1>3, <2>1
    <3> QED
      BY <1>4, <1>6, <2>1, <3>1, SomeAreHarmless
  <2>2. CASE slp'.dda.xid = NewXid(s) /\ \A q \in out : q.xid = NewXid(s)
    <3>1. x \in Xids(s)
      BY <1>3, <1>6, PendingUses DEF Sound
    <3>2. NewXid(s) # x
      BY <1>1, <1>3, <3>1, NewXidIs DEF Sound, Tabled
    <3>3. \A q \in net' : q \in net \/ q.xid # x
      BY <1>3, <2>2, <3>2
    <3> QED
      BY <2>2, <3>2, <3>3, SomeAreHarmless
  <2> QED
    BY <1>3, <2>1, <2>2
<1>7. ASSUME s.da[k].ip = slp.da[k].ip, s.da[k].boot = slp.da[k].boot,
             s.da[k].counter = slp.da[k].counter
      PROVE  Provided(slp', net', das', k)
  <2>1. Known(slp, das, k)
    BY <1>2, <1>4, <1>7 DEF Known
  <2>2. Provided(slp, net, das, k)
    BY <1>2, <1>4, <2>1 DEF SlpInv, Covered
  <2>3. CASE Fed(slp, das, k)
    <3> DEFINE c == slp.da[k].counter
               m == slp.dda.counter
               n == slp'.dda.counter
               r == das[slp.da[k].ip].regs[slp.url]
    <3>1. r \in Nat /\ c \in Nat \ {0} /\ m \in Nat
      BY <1>1, <1>4, <2>1, FedFields DEF Known
    <3>2. n = m \/ n = CONFIG_MC_MAX
      BY <1>3, <1>4
    <3>3. n \in Nat /\ (n >= m \/ n = CONFIG_MC_MAX)
      BY <3>1, <3>2, Constants
    <3>4. Lasts(r, c, m)
      BY <2>3 DEF Fed
    <3> HIDE DEF c, m, n, r
    <3>5. Lasts(r, c, n)
      BY <3>1, <3>3, <3>4, LastsLonger
    <3>6. Fed(slp', das', k)
      BY <1>2, <1>4, <1>7, <3>5 DEF Fed, c, m, n, r
    <3> QED
      BY <3>6 DEF Provided
  <2>4. ASSUME NEW x, Pending(slp, net, k, x) PROVE Provided(slp', net', das', k)
    <3>1. x # slp.dda.xid /\ RegEntry(k, slp.url, x) \in Entries(s)
      BY <1>5, <2>4 DEF Pending
    <3>2. slp'.dda.xid # x /\ Harmless(net, net', slp', k, x)
      BY <1>6, <3>1
    <3>3. RegEntry(k, slp.url, x) \in Entries(slp') /\ slp'.da[k].ip = slp.da[k].ip
      BY <1>4, <1>7, <3>1
    <3>4. Pending(slp', net', k, x)
      BY <1>4, <2>4, <3>2, <3>3, PendingStill
    <3> QED
      BY <3>4 DEF Provided
  <2> QED
    BY <2>2, <2>3, <2>4 DEF Provided
<1>8. CASE s = slp
  BY <1>7, <1>8
<1>9. ASSUME NEW j \in Slots, SameBut(slp, s, j), Added(slp, s, j, p.da, p.boot)
      PROVE  Provided(slp', net', das', k)
  <2>1. CASE j # k
    BY <1>7, <1>9, <2>1 DEF SameBut
  <2>2. CASE j = k /\ \E x : Told(slp, s, k, x)
    <3>1. PICK x : Told(slp, s, k, x)
      BY <2>2
    <3>2. slp.reg /\ Len(slp.msgs) < MAX_RQST
      BY <1>1, <1>4, AgentFields, Constants DEF Sound, Room
    <3>3. x \in Nat \ {0} /\ x \notin Xids(slp) /\ RegEntry(k, slp.url, x) \in Entries(s)
      BY <3>1, <3>2 DEF Told
    <3>4. x # slp.dda.xid
      BY <3>3 DEF Xids
    <3>5. slp'.dda.xid # x /\ Harmless(net, net', slp', k, x)
      BY <1>6, <3>3, <3>4
    <3>6. RegEntry(k, slp'.url, x) \in Entries(slp')
      BY <1>4, <3>3
    <3>7. Pending(slp', net', k, x)
      BY <1>1, <3>3, <3>5, <3>6, PendingNew DEF Sound
    <3> QED
      BY <3>7 DEF Provided
  <2>3. CASE j = k /\ ~(\E x : Told(slp, s, k, x))
    <3>1. s.da[k] # EmptySlot
      BY <1>4, EmptyIs DEF Known
    <3> QED
      BY <1>7, <1>9, <2>3, <3>1 DEF Added
  <2> QED
    BY <2>1, <2>2, <2>3
<1> QED
  BY <1>3, <1>8, <1>9

\* RxSvrAck: an answer to a pending message can only be a refusal.
LEMMA AckProvides ==
  ASSUME SlpInv, NEW p, RxSvrAck(p), slp'.reg, slp'.url \notin gone',
         NEW k \in Slots, Known(slp', das', k)
  PROVE  Provided(slp', net', das', k)
<1>1. Sound(slp) /\ Tabled(slp) /\ SlpTypes
  BY DEF SlpInv, SlpTypes, Sound
<1>2. das' = das /\ gone' = gone /\ p.dir = "from"
  BY DEF RxSvrAck, Arrives
<1>3. /\ net' = net \ {p} /\ p \in net
      /\ \/ slp' = slp
         \/ \E s : \E j \in Slots :
              /\ \E e \in Entries(slp) : e.xid = p.xid /\ e.slot = j
              /\ SameButSlot(slp, s, j) /\ Freed(s, slp', p.xid)
              /\ IF p.ok THEN /\ s.da[j].ip = slp.da[j].ip /\ s.da[j].boot = slp.da[j].boot
                              /\ s.da[j].counter = slp.da[j].counter
                         ELSE s.da[j] = EmptySlot
  BY <1>1, AckStep
<1>4. NoneNew(net, net')
  BY <1>3 DEF NoneNew
<1>5. CASE slp' = slp
  <2>1. Provided(slp, net, das, k)
    BY <1>2, <1>5 DEF SlpInv, Covered
  <2>2. StillThere(slp, net, slp', k)
    BY <1>5 DEF StillThere, Pending
  <2> QED
    BY <1>2, <1>4, <1>5, <2>1, <2>2, ProvidedStill
<1>6. ASSUME NEW s, NEW j \in Slots, NEW e \in Entries(slp), e.xid = p.xid, e.slot = j,
             SameButSlot(slp, s, j), Freed(s, slp', p.xid),
             IF p.ok THEN /\ s.da[j].ip = slp.da[j].ip /\ s.da[j].boot = slp.da[j].boot
                          /\ s.da[j].counter = slp.da[j].counter
                     ELSE s.da[j] = EmptySlot
      PROVE  Provided(slp', net', das', k)
  <2>1. /\ slp'.da = s.da /\ slp'.dda = slp.dda /\ slp'.url = slp.url /\ slp'.reg = slp.reg
        /\ Entries(slp') = {f \in Entries(slp) : f.xid # p.xid}
    BY <1>6 DEF SameButSlot, Freed, SameButMsgs, Entries
  <2>2. s.da[k] # EmptySlot
    BY <2>1, EmptyIs DEF Known
  <2>3. /\ s.da[k].ip = slp.da[k].ip /\ s.da[k].boot = slp.da[k].boot
        /\ s.da[k].counter = slp.da[k].counter
    <3>1. CASE j = k
      BY <1>6, <2>2, <3>1
    <3>2. CASE j # k
      BY <1>6, <3>2 DEF SameButSlot
    <3> QED
      BY <3>1, <3>2
  <2>4. Known(slp, das, k)
    BY <1>2, <2>1, <2>3 DEF Known
  <2>5. Provided(slp, net, das, k)
    BY <1>2, <2>1, <2>4 DEF SlpInv, Covered
  <2>6. StillThere(slp, net, slp', k)
    <3> SUFFICES ASSUME NEW x, Pending(slp, net, k, x)
                 PROVE  RegEntry(k, slp.url, x) \in Entries(slp')
      BY DEF StillThere
    <3>1. RegEntry(k, slp.url, x) \in Entries(slp)
      BY DEF Pending
    <3>2. RegEntry(k, slp.url, x).xid = x /\ RegEntry(k, slp.url, x).slot = k
      BY RegEntryIs
    <3>3. CASE x # p.xid
      BY <2>1, <3>1, <3>2, <3>3
    <3>4. CASE x = p.xid
      <4>1. ~p.ok
        BY <1>2, <1>3, <3>4 DEF Pending, Ours
      <4>2. e = RegEntry(k, slp.url, x)
        BY <1>1, <1>6, <3>1, <3>2, <3>4, OneEntry
      <4>3. j = k
        BY <1>6, <3>2, <4>2
      <4> QED
        BY <1>6, <2>2, <4>1, <4>3
    <3> QED
      BY <3>3, <3>4
  <2>7. slp'.da[k].ip = slp.da[k].ip /\ slp'.da[k].counter = slp.da[k].counter
    BY <2>1, <2>3
  <2> QED
    BY <1>2, <1>4, <2>1, <2>5, <2>6, <2>7, ProvidedStill
<1> QED
  BY <1>3, <1>5, <1>6

\* RxSrvRply and RxAttrRply do not answer a registration.
LEMMA RplyProvides ==
  ASSUME SlpInv, NEW p, RxSrvRply(p) \/ RxAttrRply(p), slp'.reg, slp'.url \notin gone',
         NEW k \in Slots, Known(slp', das', k)
  PROVE  Provided(slp', net', das', k)
<1>1. das' = das /\ gone' = gone /\ p \in net /\ p.dir = "from" /\ p.type # "SVRACK"
      /\ net' = net \ {p}
  BY DEF RxSrvRply, RxAttrRply, Arrives
<1>2. slp' = slp \/ Freed(slp, slp', p.xid) \/ \E s : Asked(slp, s) /\ Freed(s, slp', p.xid)
  BY SrvRplyStep, AttrRplyStep DEF SlpInv
<1>3. /\ slp'.da = slp.da /\ slp'.dda = slp.dda /\ slp'.url = slp.url /\ slp'.reg = slp.reg
      /\ {f \in Entries(slp) : f.xid # p.xid} \subseteq Entries(slp')
  BY <1>2 DEF Freed, Asked, SameButMsgs
<1>4. Provided(slp, net, das, k)
  BY <1>1, <1>3 DEF SlpInv, Covered, Known
<1>5. StillThere(slp, net, slp', k)
  <2> SUFFICES ASSUME NEW x, Pending(slp, net, k, x)
               PROVE  RegEntry(k, slp.url, x) \in Entries(slp')
    BY DEF StillThere
  <2>1. x # p.xid
    BY <1>1 DEF Pending, Ours
  <2> QED
    BY <1>3, <2>1, RegEntryIs DEF Pending
<1>6. NoneNew(net, net')
  BY <1>1 DEF NoneNew
<1> QED
  BY <1>1, <1>3, <1>4, <1>5, <1>6, ProvidedStill

\* What the application does.
LEMMA AppProvides ==
  ASSUME SlpInv, Room(slp), AppAny, slp'.reg, slp'.url \notin gone',
         NEW k \in Slots, Known(slp', das', k)
  PROVE  Provided(slp', net', das', k)
<1>1. SlpTypes /\ Sound(slp) /\ Tabled(slp) /\ WireOK /\ das \in [DAs -> DasEntries]
  BY DEF SlpInv, SlpTypes, Sound, DasOK, DasEntries
<1>2. net' = net /\ das' = das
  BY DEF AppAny, Open, StartDiscovery, Discover, Close, Closed, Register, Deregister
<1>3. NoneNew(net, net')
  BY <1>2 DEF NoneNew
<1>4. ASSUME slp'.url = slp.url, slp'.reg = slp.reg, slp'.da = slp.da, gone' = gone
      PROVE  Provided(slp, net, das, k) /\ Known(slp, das, k)
  BY <1>2, <1>4 DEF SlpInv, Covered, Known
<1>5. ASSUME slp'.url = slp.url, slp'.reg = slp.reg, slp'.da = slp.da, gone' = gone,
             slp'.dda = slp.dda, Entries(slp) \subseteq Entries(slp')
      PROVE  Provided(slp', net', das', k)
  <2>1. Provided(slp, net, das, k)
    BY <1>4, <1>5
  <2>2. StillThere(slp, net, slp', k)
    BY <1>5 DEF StillThere, Pending
  <2> QED
    BY <1>2, <1>3, <1>5, <2>1, <2>2, ProvidedStill
<1>6. CASE Open
  <2>1. /\ slp'.da = slp.da /\ slp'.msgs = slp.msgs /\ slp'.dda = slp.dda
        /\ slp'.url = slp.url /\ slp'.reg = slp.reg /\ gone' = gone
    BY <1>1, <1>6, OpenStep DEF Open
  <2> QED
    BY <1>5, <2>1 DEF Entries
<1>7. CASE StartDiscovery
  <2>1. /\ slp'.da = slp.da /\ slp'.msgs = slp.msgs /\ slp'.url = slp.url
        /\ slp'.reg = slp.reg /\ gone' = gone /\ ~slp.dda.discover
        /\ slp'.dda.counter \in Nat /\ slp'.dda.xid = 0
    BY <1>1, <1>7, StartStep DEF StartDiscovery, SameButSearch
  <2>2. Provided(slp, net, das, k) /\ Known(slp, das, k)
    BY <1>4, <2>1
  <2>3. CASE Fed(slp, das, k)
    <3> DEFINE c == slp.da[k].counter
               n == slp'.dda.counter
               r == das[slp.da[k].ip].regs[slp.url]
    <3>1. r \in Nat /\ c \in Nat \ {0} /\ n \in Nat /\ 0 \in Nat
      BY <1>1, <2>1, <2>2, FedFields DEF Known
    <3>2. slp.dda.counter = 0
      BY <2>1 DEF SlpInv, Around, NoSearch
    <3>3. Lasts(r, c, 0)
      BY <2>3, <3>2 DEF Fed
    <3> HIDE DEF c, n, r
    <3>4. n >= 0
      BY <3>1
    <3>5. Lasts(r, c, n)
      BY <3>1, <3>3, <3>4, LastsLonger
    <3>6. Fed(slp', das', k)
      BY <1>2, <2>1, <3>5 DEF Fed, c, n, r
    <3> QED
      BY <3>6 DEF Provided
  <2>4. ASSUME NEW x, Pending(slp, net, k, x) PROVE Provided(slp', net', das', k)
    <3>1. x # 0 /\ RegEntry(k, slp.url, x) \in Entries(slp')
      BY <2>1, <2>4 DEF Pending, Entries
    <3>2. \A q \in net' : q \in net \/ q.xid # x
      BY <1>2
    <3>3. Harmless(net, net', slp', k, x)
      BY <3>2, SomeAreHarmless
    <3>4. Pending(slp', net', k, x)
      BY <2>1, <2>4, <3>1, <3>3, PendingStill
    <3> QED
      BY <3>4 DEF Provided
  <2> QED
    BY <2>2, <2>3, <2>4 DEF Provided
<1>8. CASE Discover
  <2>1. /\ slp'.da = slp.da /\ slp'.dda = slp.dda /\ slp'.url = slp.url
        /\ slp'.reg = slp.reg /\ gone' = gone /\ Entries(slp) \subseteq Entries(slp')
    BY <1>1, <1>8, DiscoverStep DEF Discover, Asked, SameButMsgs
  <2> QED
    BY <1>5, <2>1
<1>9. CASE Close
  BY <1>1, <1>9, CloseStep
<1>10. CASE Closed
  BY <1>1, <1>10, ClosedStep, EmptyIs DEF Known
<1>11. ASSUME NEW u \in Urls, Register(u) PROVE Provided(slp', net', das', k)
  <2>1. /\ slp'.da = slp.da /\ slp'.dda = slp.dda /\ slp'.url = u
        /\ \A j \in Slots : slp.da[j].ip # NULL =>
             \E x \in Nat \ {0} : x \notin Xids(slp) /\ RegEntry(j, u, x) \in Entries(slp')
    BY <1>1, <1>11, RegisterStep
  <2>2. PICK x \in Nat \ {0} : x \notin Xids(slp) /\ RegEntry(k, u, x) \in Entries(slp')
    BY <2>1 DEF Known
  <2>3. slp'.dda.xid # x
    BY <2>1, <2>2 DEF Xids
  <2>4. \A q \in net' : q \in net \/ q.xid # x
    BY <1>2
  <2>5. Harmless(net, net', slp', k, x)
    BY <2>4, SomeAreHarmless
  <2>6. Pending(slp', net', k, x)
    BY <1>1, <2>1, <2>2, <2>3, <2>5, PendingNew
  <2> QED
    BY <2>6 DEF Provided
<1>12. ASSUME NEW u \in Urls, Deregister(u) PROVE FALSE
  BY <1>1, <1>12, DeregisterStep DEF Deregister
<1> QED
  BY <1>6, <1>7, <1>8, <1>9, <1>10, <1>11, <1>12 DEF AppAny

\* A DA answers: what it accepts it keeps for LIFETIME, what it refuses stays pending,
\* and it drops nothing but what is gone.
LEMMA AnswerProvides ==
  ASSUME Slack, SlpInv, NEW d \in DAs, NEW p \in net, NEW ok \in BOOLEAN, DaAnswers(d, p, ok),
         slp'.reg, slp'.url \notin gone', NEW k \in Slots, Known(slp', das', k)
  PROVE  Provided(slp', net', das', k)
<1> DEFINE r == Reply(d, p, ok)
           t == [das EXCEPT ![d].regs[p.url] = Life(p)]
<1>1. SlpTypes /\ Sound(slp) /\ Tabled(slp) /\ WireOK /\ DasOK /\ das \in [DAs -> DasEntries]
  BY DEF SlpInv, SlpTypes, Sound, DasOK, DasEntries
<1>2. /\ net' = (net \ {p}) \cup {r}
      /\ das' = IF ok /\ p.type \in {"REG", "DEREG"} THEN t ELSE das
      /\ slp' = slp /\ gone' = gone /\ p.dir = "to" /\ p.da = d
  BY AnswersIs
<1>3. p \in Packets /\ Life(p) \in Nat
  BY <1>1, Constants DEF WireOK, Life
<1>4. /\ r.dir = "from" /\ r.xid = p.xid
      /\ p.type \in {"REG", "DEREG"} => r.type = "SVRACK" /\ r.ok = ok
  BY <1>1, <1>3, ReplyIs
<1>5. /\ \A e \in DAs \ {d} : t[e] = das[e]
      /\ t[d].boot = das[d].boot
      /\ \A v \in Urls : t[d].regs[v] = IF v = p.url THEN Life(p) ELSE das[d].regs[v]
  <2> DEFINE url == p.url
             life == Life(p)
             b == [das EXCEPT ![d].regs[url] = life]
  <2>1. life \in Nat
    BY <1>3
  <2> HIDE DEF url, life
  <2>2. b = [das EXCEPT ![d].regs[url] = life]
    OBVIOUS
  <2> HIDE DEF b
  <2>3. /\ \A e \in DAs \ {d} : b[e] = das[e]
        /\ b[d].boot = das[d].boot
        /\ \A v \in Urls : b[d].regs[v] = IF v = url THEN life ELSE das[d].regs[v]
    BY <1>1, <2>1, <2>2, AcceptedIs
  <2> QED
    BY <2>3 DEF url, life, b
<1> HIDE DEF r, t
<1> DEFINE a == slp.da[k].ip
           u == slp.url
<1>6. /\ a # NULL /\ a \in DAs /\ u \in Urls
      /\ slp.da[k].counter \in 0 .. REFRESH /\ slp.dda.counter \in Nat
  <2>1. a # NULL /\ slp.reg
    BY <1>2 DEF Known
  <2> QED
    BY <1>1, <2>1, FedFields
<1>7. Known(slp, das, k)
  BY <1>2, <1>5, <1>6 DEF Known
<1>8. Provided(slp, net, das, k)
  BY <1>2, <1>7 DEF SlpInv, Covered
<1>9. p.type = "DEREG" => p.url # u
  BY <1>2 DEF SlpInv, Around, DeregsGone
<1>10. CASE ok /\ p.type = "REG" /\ p.url = u /\ d = a
  <2>1. das'[a].regs[u] = LIFETIME
    BY <1>2, <1>5, <1>6, <1>10 DEF Life
  <2>2. Lasts(LIFETIME, slp.da[k].counter, slp.dda.counter)
    BY <1>6, LastsNew
  <2>3. Fed(slp', das', k)
    BY <1>2, <2>1, <2>2 DEF Fed
  <2> QED
    BY <2>3 DEF Provided
<1>11. CASE ~(ok /\ p.type = "REG" /\ p.url = u /\ d = a)
  <2>1. das'[a].regs[u] = das[a].regs[u]
    <3>1. CASE das' = das
      BY <3>1
    <3>2. CASE ok /\ p.type \in {"REG", "DEREG"}
      <4>1. das' = t
        BY <1>2, <3>2
      <4>2. CASE d # a
        BY <1>5, <1>6, <4>1, <4>2
      <4>3. CASE d = a
        BY <1>5, <1>6, <1>9, <1>11, <3>2, <4>1, <4>3
      <4> QED
        BY <4>2, <4>3
    <3> QED
      BY <1>2, <3>1, <3>2
  <2>2. CASE Fed(slp, das, k)
    <3>1. Fed(slp', das', k)
      BY <1>2, <2>1, <2>2 DEF Fed
    <3> QED
      BY <3>1 DEF Provided
  <2>3. ASSUME NEW x, Pending(slp, net, k, x) PROVE Provided(slp', net', das', k)
    <3>1. x # slp.dda.xid /\ RegEntry(k, u, x) \in Entries(slp)
      BY <2>3 DEF Pending
    <3>2. ASSUME p.xid = x PROVE Ours(slp, k, r)
      <4>1. p.type = "REG" /\ p.da = a /\ p.url = u
        BY <1>2, <2>3, <3>2 DEF Pending, Ours
      <4>2. ~ok
        BY <1>2, <1>11, <4>1
      <4> QED
        BY <1>4, <4>1, <4>2 DEF Ours
    <3>3. Harmless(net, net', slp', k, x)
      BY <1>2, <1>4, <3>2 DEF Harmless, Same
    <3>4. Pending(slp', net', k, x)
      BY <1>2, <2>3, <3>1, <3>3, PendingStill
    <3> QED
      BY <3>4 DEF Provided
  <2> QED
    BY <1>8, <2>2, <2>3 DEF Provided
<1> QED
  BY <1>10, <1>11

\* Other things a DA does: it advertises, stops, or boots with a time no slot has.
LEMMA OtherDaProvides ==
  ASSUME SlpInv, NEW d \in DAs, DaAdvertises(d) \/ DaStops(d) \/ DaBoots(d),
         slp'.reg, slp'.url \notin gone', NEW k \in Slots, Known(slp', das', k)
  PROVE  Provided(slp', net', das', k)
<1> DEFINE a == slp.da[k].ip
<1>1. /\ SlpTypes /\ Sound(slp) /\ DasOK /\ das \in [DAs -> DasEntries]
      /\ BootsKnown
  BY DEF SlpInv, SlpTypes, DasOK, DasEntries, Around
<1>2. slp' = slp /\ gone' = gone
  BY DEF DaAdvertises, DaStops, DaBoots
<1>3. a # NULL /\ a \in DAs /\ slp.da[k].boot \in Nat
  <2>1. a # NULL /\ slp.reg
    BY <1>2 DEF Known
  <2>2. a \in DAs /\ slp.da[k].boot \in 0 .. MaxBoots
    BY <1>1, <2>1, FedFields
  <2> QED
    BY <2>1, <2>2, Constants
<1>4. das'[a] = das[a]
  <2>1. CASE DaAdvertises(d)
    BY <2>1 DEF DaAdvertises
  <2>2. CASE DaStops(d)
    <3>1. /\ \A e \in DAs \ {d} : das'[e] = das[e]
          /\ das'[d].boot = 0
      BY <1>1, <2>2, StopsIs
    <3> QED
      BY <1>2, <1>3, <3>1 DEF Known
  <2>3. CASE DaBoots(d)
    <3>1. PICK n \in 1 .. MaxBoots :
            /\ \A e \in DAs : das[e].last < n
            /\ \A e \in DAs \ {d} : das'[e] = das[e]
            /\ das'[d].boot = n
      BY <1>1, <2>3, BootsIs
    <3>2. das[a].last \in Nat /\ n \in Nat
      BY <1>1, <1>3, Constants DEF DasOK
    <3>3. slp.da[k].boot <= das[a].last /\ das[a].last < n
      BY <1>1, <1>3, <3>1 DEF BootsKnown
    <3>4. slp.da[k].boot # n
      BY <1>3, <3>2, <3>3
    <3> QED
      BY <1>2, <1>3, <3>1, <3>4 DEF Known
  <2> QED
    BY <2>1, <2>2, <2>3
<1>5. Provided(slp, net, das, k)
  <2>1. Known(slp, das, k)
    BY <1>2, <1>4 DEF Known
  <2> QED
    BY <1>2, <2>1 DEF SlpInv, Covered
<1>6. NoneNew(net, net')
  <2>1. \A b : FromDa(d, "DAADVERT", 0, TRUE, b, NULL, {}).xid = 0
    BY DEF FromDa
  <2> QED
    BY <2>1 DEF NoneNew, DaAdvertises, DaStops, DaBoots
<1>7. StillThere(slp, net, slp', k)
  BY <1>2 DEF StillThere, Pending
<1> QED
  BY <1>2, <1>4, <1>5, <1>6, <1>7, ProvidedStill

\* At first nothing is registered.
LEMMA InitProvides ==
  ASSUME Init PROVE SlpInv
<1>1. SlpTypes
  BY InitTypes
<1>2. /\ slp.reg = FALSE /\ slp.msgs = <<>> /\ slp.dda.counter = 0 /\ net = {}
      /\ \A k \in Slots : slp.da[k].ip = NULL
      /\ \A d \in DAs : das[d].boot = 0
  BY EmptyIs DEF Init, SlpInit
<1>3. Entries(slp) = {}
  BY <1>2 DEF Entries, EntriesOf
<1>4. Around
  BY <1>2, <1>3 DEF Around, BootsKnown, DeregsGone, NoSearch
<1>5. Covered(slp, net, das, gone)
  BY <1>2 DEF Covered
<1> QED
  BY <1>1, <1>4, <1>5 DEF SlpInv

\* Every step provides, while the table of messages has room for one for each DA.
LEMMA SlpInvKept ==
  ASSUME Slack, SlpInv, Room(slp), [Next]_vars PROVE SlpInv'
<1>1. SlpTypes' /\ Around'
  BY TypesKept, AroundKept DEF SlpInv
<1>2. ASSUME slp'.reg, slp'.url \notin gone', NEW k \in Slots, Known(slp', das', k)
      PROVE  Provided(slp', net', das', k)
  <2>1. CASE Tick
    BY <1>2, <2>1, TickProvides
  <2>2. CASE RxAny
    <3>1. PICK p \in net : RxDaAdvert(p) \/ RxSvrAck(p) \/ RxSrvRply(p) \/ RxAttrRply(p)
      BY <2>2 DEF RxAny
    <3>2. CASE RxDaAdvert(p)
      BY <1>2, <3>2, AdvertProvides
    <3>3. CASE RxSvrAck(p)
      BY <1>2, <3>3, AckProvides
    <3>4. CASE RxSrvRply(p) \/ RxAttrRply(p)
      BY <1>2, <3>4, RplyProvides
    <3> QED
      BY <3>1, <3>2, <3>3, <3>4
  <2>3. CASE AppAny
    BY <1>2, <2>3, AppProvides
  <2>4. CASE DaAny
    <3>1. PICK d \in DAs : \/ \E p \in net, ok \in BOOLEAN : DaAnswers(d, p, ok)
                           \/ DaAdvertises(d) \/ DaStops(d) \/ DaBoots(d)
      BY <2>4 DEF DaAny
    <3>2. ASSUME NEW p \in net, NEW ok \in BOOLEAN, DaAnswers(d, p, ok)
          PROVE  Provided(slp', net', das', k)
      BY <1>2, <3>2, AnswerProvides
    <3>3. CASE DaAdvertises(d) \/ DaStops(d) \/ DaBoots(d)
      BY <1>2, <3>3, OtherDaProvides
    <3> QED
      BY <3>1, <3>2, <3>3
  <2>5. CASE UNCHANGED vars
    <3>1. slp' = slp /\ net' = net /\ das' = das /\ gone' = gone
      BY <2>5 DEF vars
    <3> QED
      BY <1>2, <3>1 DEF SlpInv, Covered
  <2> QED
    BY <2>1, <2>2, <2>3, <2>4, <2>5 DEF Next
<1>3. Covered(slp', net', das', gone')
  BY <1>2 DEF Covered
<1> QED
  BY <1>1, <1>3 DEF SlpInv

\* What the invariant says of the registrations.
LEMMA ProvidedMeans ==
  ASSUME SlpInv PROVE RegisteredOrOnTheWay
<1>1. Sound(slp) /\ das \in [DAs -> DasEntries]
  BY DEF SlpInv, SlpTypes, DasOK, DasEntries
<1> SUFFICES ASSUME slp.reg, slp.url \notin gone, NEW k \in Slots, Current(k)
             PROVE  \/ das[slp.da[k].ip].regs[slp.url] > 0
                    \/ \E i \in DOMAIN slp.msgs : LET m == slp.msgs[i] IN
                         m.type = "REG" /\ m.slot = k /\ m.url = slp.url
  BY DEF RegisteredOrOnTheWay
<1>2. Known(slp, das, k)
  BY DEF Current, Up, Known
<1>3. Provided(slp, net, das, k)
  BY <1>2 DEF SlpInv, Covered
<1>4. CASE Fed(slp, das, k)
  <2> DEFINE r == das[slp.da[k].ip].regs[slp.url]
             c == slp.da[k].counter
             m == slp.dda.counter
  <2>1. r \in Nat /\ c \in Nat \ {0} /\ m \in Nat
    BY <1>1, <1>2, FedFields DEF Known
  <2>2. Lasts(r, c, m)
    BY <1>4 DEF Fed
  <2> HIDE DEF r, c, m
  <2>3. r > 0
    BY <2>1, <2>2, LastsAlive
  <2> QED
    BY <2>3 DEF r
<1>5. ASSUME NEW x, Pending(slp, net, k, x)
      PROVE  \E i \in DOMAIN slp.msgs :
               slp.msgs[i].type = "REG" /\ slp.msgs[i].slot = k /\ slp.msgs[i].url = slp.url
  <2>1. PICK i \in DOMAIN slp.msgs : RegEntry(k, slp.url, x) = Entry(slp.msgs[i])
    BY <1>5 DEF Pending, Entries, EntriesOf
  <2>2. Entry(slp.msgs[i]).type = "REG" /\ Entry(slp.msgs[i]).slot = k
        /\ Entry(slp.msgs[i]).url = slp.url
    BY <2>1, RegEntryIs
  <2> QED
    BY <2>2 DEF Entry
<1> QED
  BY <1>3, <1>4, <1>5 DEF Provided

\* RegisteredOrOnTheWay for every network: while the table of messages has room for a
\* message to each DA (msg_new refuses silently when it is full, and nobody looks), and
\* with the slack the constants of slp.h have, what is registered is known to the DAs or
\* on the way to them, whatever is lost, refused, late or given up.
THEOREM RegisteredWhileRoom ==
  ASSUME Slack PROVE Spec /\ []Room(slp) => []RegisteredOrOnTheWay
<1>1. Init => SlpInv
  BY InitProvides
<1>2. SlpInv /\ Room(slp) /\ [Next]_vars => SlpInv'
  BY SlpInvKept
<1>3. SlpInv => RegisteredOrOnTheWay
  BY ProvidedMeans
<1> QED
  BY <1>1, <1>2, <1>3, PTL DEF Spec
=============================================================================
