-------------------------- MODULE SdtSessionProofs --------------------------
(***************************************************************************)
(* Proofs about SdtSession, for any two hosts, any applications and any    *)
(* bounds.                                                                 *)
(***************************************************************************)
EXTENDS SdtSession, FiniteSetTheorems, TLAPS

(***************************************************************************)
(* The inductive invariant.                                                *)
(***************************************************************************)
Numbers == 0..MaxChannels

OwnRecords == [num : Numbers, next : Nat, total : 0..MaxSeq, rel : Nat, oldest : Nat]
CopyRecords == [is : BOOLEAN, num : Numbers, total : Nat, rel : Nat, addr : BOOLEAN]

HostRecords ==
  [alive : BOOLEAN, fault : {"none", "assert", "null"}, locked : BOOLEAN,
   comp : {"none", "JOIN", "DISC"},
   own : OwnRecords, flag : BOOLEAN, fm : MemberRecords, copy : CopyRecords,
   lm : MemberRecords, lst : {"none", "live", "freed"},
   reg : [1..MaxChannels -> Nat], gen : Numbers]

\* The records of one host agree: our channel has just the one foreign member,
\* which is the first that it numbered; the copy of the peer's channel has
\* just the local member, which has a number once a JOIN gave it one.
OwnOK(s) ==
  /\ s.own.oldest <= s.own.rel
  /\ s.own.num <= s.gen
  /\ s.own.num = 0 => s.own = NoOwn /\ s.fm = NoMember
  /\ s.own.num # 0 => /\ s.comp # "none"
                      /\ s.own.next = 2
                      /\ s.fm.mid = 1
                      /\ s.fm.st \notin {"none", "EMPTY"}

CopyOK(s) ==
  /\ ~s.copy.is => s.copy = NoCopy /\ s.lm = NoMember
  /\ s.copy.is => s.comp # "none" /\ s.lm.st # "none"
  /\ s.copy.num = 0 => s.lm.mid = 0 /\ s.lm.st \in {"none", "EMPTY", "DELETE"}
  /\ s.copy.num # 0 => s.lm.mid = 1
  /\ s.lst = "live" => s.copy.num # 0 /\ s.reg[s.copy.num] > 0

\* What host h relies on was said: it has accepted the channel it has a copy of, and
\* the peer has accepted what h takes its member for.
Backed(h, s, S) ==
  /\ s.copy.num # 0 => <<h, "JOIN", s.copy.num, 1>> \in S
  /\ s.fm.st = "WAIT_FOR_ACK" => <<Peer(h), "JOIN", s.own.num, 1>> \in S
  /\ s.fm.st = "JOINED" => \/ <<Peer(h), "JOIN", s.own.num, 1>> \in S
                           \/ <<Peer(h), "DISCONNECTING">> \in S
  /\ s.fm.st = "CONNECTED" => <<Peer(h), "CONNECT", s.own.num, 1>> \in S

ConnectAfterJoin(S) ==
  \A h \in Hosts, c \in 1..MaxChannels :
    <<h, "CONNECT", c, 1>> \in S => <<h, "JOIN", c, 1>> \in S

\* The messages, by type.
Joins == [type : {"JOIN"}, chan : 1..MaxChannels, mid : {1}, recip : Numbers,
          total : Nat, rel : Nat, params : {Long}]
Accepts == [type : {"JOIN_ACCEPT"}, chan : 1..MaxChannels, mid : {1}, recip : Numbers]
Refuses == [type : {"JOIN_REFUSE"}, mid : {1}]
Leavings == [type : {"LEAVING"}, chan : Numbers, mid : Nat]
Pdus == {"ACK", "LEAVE", "CONNECT", "CONNECT_ACCEPT", "DISCONNECTING", "DATA"}
Wrappers == [type : {"WRAPPER"}, chan : 1..MaxChannels, total : Nat, rel : Nat, oldest : Nat,
             reliable : BOOLEAN, mid : {1}, assoc : Numbers, pdu : Pdus]

\* A message that h, in state s, has sent some time: its channel is one of h's, and
\* if it is the present one, its numbers are not ahead; what it tells was said.
MessageOK(h, s, S, m) ==
  \/ /\ m \in Joins
     /\ m.chan <= s.gen
     /\ m.chan = s.own.num => m.total <= s.own.total /\ m.rel <= s.own.rel
  \/ m \in Accepts /\ <<h, "JOIN", m.chan, 1>> \in S
  \/ m \in Refuses
  \/ m \in Leavings
  \/ /\ m \in Wrappers
     /\ m.chan <= s.gen
     /\ m.chan = s.own.num => m.total <= s.own.total /\ m.rel <= s.own.rel
     /\ m.pdu = "CONNECT_ACCEPT" => <<h, "CONNECT", m.assoc, 1>> \in S /\ m.assoc # 0
     /\ m.pdu = "DISCONNECTING" => <<h, "DISCONNECTING">> \in S

HostsOK ==
  /\ host \in [Hosts -> HostRecords]
  /\ \A h \in Hosts : OwnOK(host[h]) /\ CopyOK(host[h]) /\ Backed(h, host[h], said)

NetOK ==
  \A p \in net : /\ p.from \in Hosts
                 /\ p = [from |-> p.from, body |-> p.body]
                 /\ MessageOK(p.from, host[p.from], said, p.body)

IInv ==
  /\ HostsOK
  /\ NetOK
  /\ ConnectAfterJoin(said)
  /\ crashes \in 0..MaxCrashes

\* With a network that delivers nothing twice, of host h in state s with a peer in
\* state q: the copy is of a channel that the peer had, and not ahead of it; who has a
\* session hears it; there is one listener, that of the copy; and a JOIN on its way
\* was not received yet.
Hearing == {"WAIT_FOR_ACK", "JOINED", "CONNECTED"}

OnceAt(h, s, q, N) ==
  /\ s.copy.num <= q.gen
  /\ s.copy.num # 0 /\ s.copy.num = q.own.num =>
       s.copy.total <= q.own.total /\ s.copy.rel <= q.own.rel
  /\ s.lm.st \in Hearing => s.lst = "live"
  /\ \A c \in 1..MaxChannels :
       s.reg[c] = IF s.lst = "live" /\ s.copy.num = c THEN 1 ELSE 0
  /\ \A p \in N : p.from = Peer(h) /\ p.body.type = "JOIN" => p.body.chan # s.copy.num

OneJoin(N) ==
  \A p1, p2 \in N :
    /\ p1.body.type = "JOIN" /\ p2.body.type = "JOIN"
    /\ p1.from = p2.from /\ p1.body.chan = p2.body.chan
    => p1 = p2

Once ==
  /\ \A h \in Hosts : OnceAt(h, host[h], host[Peer(h)], net)
  /\ OneJoin(net)

(***************************************************************************)
(* One host.                                                               *)
(***************************************************************************)
\* What a host in state s may become, and send, by r, if all it tells is in S:
\* our channel goes, stays and counts on, or is a new one.
OwnMoves(s, t) ==
  /\ s.gen <= t.gen
  /\ \/ t.own.num = 0
     \/ t.own.num = s.own.num /\ s.own.total <= t.own.total /\ s.own.rel <= t.own.rel
     \/ s.gen < t.own.num

\* What is ours, and what we keep of the peer, is as before.
SameOwn(s, t) == t.own = s.own /\ t.fm = s.fm /\ t.gen = s.gen
SameCopy(s, t) == t.copy = s.copy /\ t.lm = s.lm /\ t.lst = s.lst /\ t.reg = s.reg

\* The copy as it was, whatever became of its member; the copy gone.
CopyKept(s, t) == t.copy = s.copy /\ t.lst = s.lst /\ t.reg = s.reg
CopyGone(s, t) ==
  /\ t.copy = NoCopy /\ t.lm = NoMember /\ t.lst = "none"
  /\ \A c \in 1..MaxChannels :
       t.reg[c] = IF s.lst = "live" /\ c = s.copy.num THEN s.reg[c] - 1 ELSE s.reg[c]

Told(h, r, S) ==
  \A x \in r.out :
    /\ x.type = "JOIN_ACCEPT" => <<h, "JOIN", x.chan, x.mid>> \in S
    /\ x.type = "WRAPPER" /\ x.pdu = "CONNECT_ACCEPT" =>
         <<h, "CONNECT", x.assoc, r.s.lm.mid>> \in S
    /\ x.type = "WRAPPER" /\ x.pdu = "DISCONNECTING" => <<h, "DISCONNECTING">> \in S

Moves(h, s, r, S) ==
  /\ r.s \in HostRecords
  /\ OwnOK(r.s)
  /\ CopyOK(r.s)
  /\ Backed(h, r.s, S)
  /\ OwnMoves(s, r.s)
  /\ \A m \in r.out :
       /\ MessageOK(h, r.s, S, m)
       /\ m.type = "WRAPPER" /\ m.pdu = "CONNECT_ACCEPT" =>
            m.assoc = s.copy.num /\ m.assoc # 0 /\ r.s.lm.mid = 1

HostOK(h, s, S) ==
  /\ s \in HostRecords
  /\ OwnOK(s)
  /\ CopyOK(s)
  /\ Backed(h, s, S)

\* The records that the code starts from have their types.
LEMMA RecordTypes ==
  /\ NoMember \in MemberRecords
  /\ NewMember \in MemberRecords
  /\ Short \in Off..Long /\ Long \in Off..Long /\ 0 \in Off..Long
  /\ \A n \in Numbers : Fresh(n) \in HostRecords
BY Timeouts, Bounds DEF NoMember, NewMember, MemberRecords, MemberStates, Off, Fresh, HostRecords,
   Numbers, NoOwn, NoCopy, OwnRecords, CopyRecords

\* A record stays of its type when one field is set.
LEMMA HostUpdate ==
  \A s \in HostRecords :
    /\ \A v \in BOOLEAN : [s EXCEPT !.alive = v] \in HostRecords
    /\ \A v \in {"none", "assert", "null"} : [s EXCEPT !.fault = v] \in HostRecords
    /\ \A v \in BOOLEAN : [s EXCEPT !.locked = v] \in HostRecords
    /\ \A v \in {"none", "JOIN", "DISC"} : [s EXCEPT !.comp = v] \in HostRecords
    /\ \A v \in OwnRecords : [s EXCEPT !.own = v] \in HostRecords
    /\ \A v \in BOOLEAN : [s EXCEPT !.flag = v] \in HostRecords
    /\ \A v \in MemberRecords : [s EXCEPT !.fm = v] \in HostRecords
    /\ \A v \in CopyRecords : [s EXCEPT !.copy = v] \in HostRecords
    /\ \A v \in MemberRecords : [s EXCEPT !.lm = v] \in HostRecords
    /\ \A v \in {"none", "live", "freed"} : [s EXCEPT !.lst = v] \in HostRecords
    /\ \A v \in [1..MaxChannels -> Nat] : [s EXCEPT !.reg = v] \in HostRecords
    /\ \A v \in Numbers : [s EXCEPT !.gen = v] \in HostRecords
BY DEF HostRecords

\* A field of our channel set to a value of its type leaves a record of
\* that type.  The same for the two records that follow.
LEMMA OwnUpdate ==
  \A o \in OwnRecords :
    /\ \A v \in Numbers : [o EXCEPT !.num = v] \in OwnRecords
    /\ \A v \in Nat : [o EXCEPT !.next = v] \in OwnRecords
    /\ \A v \in 0..MaxSeq : [o EXCEPT !.total = v] \in OwnRecords
    /\ \A v \in Nat : [o EXCEPT !.rel = v] \in OwnRecords
    /\ \A v \in Nat : [o EXCEPT !.oldest = v] \in OwnRecords
BY DEF OwnRecords

\* The same for our copy of the peer's channel.
LEMMA CopyUpdate ==
  \A c \in CopyRecords :
    /\ \A v \in BOOLEAN : [c EXCEPT !.is = v] \in CopyRecords
    /\ \A v \in Numbers : [c EXCEPT !.num = v] \in CopyRecords
    /\ \A v \in Nat : [c EXCEPT !.total = v] \in CopyRecords
    /\ \A v \in Nat : [c EXCEPT !.rel = v] \in CopyRecords
    /\ \A v \in BOOLEAN : [c EXCEPT !.addr = v] \in CopyRecords
BY DEF CopyRecords

\* The same for a member.
LEMMA MemberUpdate ==
  \A x \in MemberRecords :
    /\ \A v \in MemberStates : [x EXCEPT !.st = v] \in MemberRecords
    /\ \A v \in Nat : [x EXCEPT !.mid = v] \in MemberRecords
    /\ \A v \in Off..Long : [x EXCEPT !.timer = v] \in MemberRecords
    /\ \A v \in {0, Long} : [x EXCEPT !.exp = v] \in MemberRecords
BY DEF MemberRecords

\* sdt_format_wrapper: the counters of our channel move on, nothing else does.
LEMMA SendWrapperMoves ==
  ASSUME NEW s \in HostRecords, OwnOK(s), CanSend(s),
         NEW reliable \in BOOLEAN, NEW pdu \in Pdus, NEW assoc \in Numbers
  PROVE  LET r == SendWrapper(s, reliable, pdu, assoc)
         IN  /\ r.s \in HostRecords
             /\ OwnOK(r.s)
             /\ r.s.fm = s.fm /\ r.s.gen = s.gen /\ r.s.comp = s.comp /\ SameCopy(s, r.s)
             /\ r.s.own.num = s.own.num /\ r.s.own.next = s.own.next
             /\ s.own.total <= r.s.own.total /\ s.own.rel <= r.s.own.rel
             /\ \E m \in Wrappers : /\ r.out = {m}
                                    /\ m.chan = s.own.num /\ m.pdu = pdu /\ m.assoc = assoc
                                    /\ m.total = r.s.own.total /\ m.rel = r.s.own.rel
<1> DEFINE r == IF reliable THEN s.own.rel + 1 ELSE s.own.rel
           old == CASE ~reliable -> s.own.oldest
                    [] reliable /\ ~s.flag -> r
                    [] reliable /\ s.flag ->
                         IF r - s.own.oldest = SDT_MAX_RESENDS
                           THEN r - SDT_MAX_RESENDS + 1 ELSE s.own.oldest
           o == [s.own EXCEPT !.total = @ + 1, !.rel = r, !.oldest = old]
           t == [s EXCEPT !.own = o, !.flag = @ \/ reliable]
           m == [type |-> "WRAPPER", chan |-> o.num, total |-> o.total, rel |-> r,
                 oldest |-> old, reliable |-> reliable,
                 mid |-> s.fm.mid, assoc |-> assoc, pdu |-> pdu]
<1>1. SendWrapper(s, reliable, pdu, assoc) = [s |-> t, out |-> {m}]
  BY DEF SendWrapper, Result
<1>2. /\ s.own \in OwnRecords
      /\ s.own.num \in Numbers /\ s.own.total \in 0..MaxSeq /\ s.own.rel \in Nat
      /\ s.own.oldest \in Nat
      /\ s.own.num # 0 /\ s.own.total < MaxSeq /\ s.flag \in BOOLEAN
      /\ s.own.oldest <= s.own.rel
      /\ s.fm.mid = 1
  BY DEF HostRecords, CanSend, OwnOK, OwnRecords
<1>3. r \in Nat /\ s.own.rel <= r
  BY <1>2
<1>4. old \in Nat /\ old <= r
  BY <1>2, <1>3, Bounds
<1> HIDE DEF r, old
<1>5. s.own.total + 1 \in 0..MaxSeq /\ s.own.total <= s.own.total + 1
  BY <1>2, Bounds
<1>6. o \in OwnRecords
  BY <1>2, <1>3, <1>4, <1>5, OwnUpdate
<1>7. /\ o.num = s.own.num /\ o.next = s.own.next /\ o.total = s.own.total + 1
      /\ o.rel = r /\ o.oldest = old
  BY <1>2 DEF OwnRecords
<1> HIDE DEF o
<1>8. m \in Wrappers
  BY <1>2, <1>3, <1>4, <1>5, <1>7 DEF Wrappers, Numbers
<1>9. m.chan = s.own.num /\ m.pdu = pdu /\ m.assoc = assoc /\ m.total = o.total /\ m.rel = o.rel
  BY <1>7
<1>10. t \in HostRecords
  BY <1>2, <1>6, HostUpdate
<1>11. /\ t.own = o /\ t.fm = s.fm /\ t.comp = s.comp /\ t.gen = s.gen /\ t.flag = (s.flag \/ reliable)
  BY DEF HostRecords
<1>12. OwnOK(t)
  BY <1>2, <1>3, <1>4, <1>7, <1>11 DEF OwnOK
<1>13. SameCopy(s, t)
  BY DEF HostRecords, SameCopy
<1> DEFINE res == SendWrapper(s, reliable, pdu, assoc)
<1> HIDE DEF t, m, res
<1>14. res.s = t /\ res.out = {m}
  BY <1>1 DEF res
<1>15. s.own.total <= t.own.total /\ s.own.rel <= t.own.rel
  BY <1>5, <1>3, <1>7, <1>11
<1>16. \E x \in Wrappers : /\ res.out = {x}
                          /\ x.chan = s.own.num /\ x.pdu = pdu /\ x.assoc = assoc
                          /\ x.total = res.s.own.total /\ x.rel = res.s.own.rel
  BY <1>8, <1>9, <1>11, <1>14
<1>17. QED
  BY <1>7, <1>10, <1>11, <1>12, <1>13, <1>14, <1>15, <1>16 DEF res

\* What an operation does to a channel: sdt_add_channel, unless there is one ...
LEMMA WithOwnIs ==
  ASSUME NEW s \in HostRecords, s.own.num <= s.gen, s.own.num # 0 \/ s.gen < MaxChannels
  PROVE  LET t == WithOwn(s)
         IN  /\ t \in HostRecords
             /\ t.fm = s.fm /\ t.comp = s.comp /\ SameCopy(s, t)
             /\ t.own.num # 0 /\ t.own.num <= t.gen /\ s.gen <= t.gen
             /\ s.own.num # 0 => t = s
             /\ s.own.num = 0 => /\ s.gen < t.own.num
                                 /\ t.own.next = 1 /\ t.own.oldest = 0 /\ t.own.rel = 0
<1>1. /\ s.gen \in Numbers /\ s.own.num \in Numbers /\ s.own.num <= s.gen
      /\ NoOwn \in OwnRecords
  BY Bounds DEF HostRecords, OwnRecords, NoOwn, Numbers
<1>2. CASE s.own.num # 0
  <2>1. WithOwn(s) = s
    BY <1>2 DEF WithOwn
  <2>2. QED
    BY <1>1, <1>2, <2>1 DEF SameCopy, Numbers
<1>3. CASE s.own.num = 0
  <2> DEFINE n == s.gen + 1
             o == [NoOwn EXCEPT !.num = n]
             t == [s EXCEPT !.own = o, !.gen = n]
  <2>1. n \in Numbers /\ n # 0 /\ s.gen < n /\ s.gen <= n /\ n <= n
    BY <1>1, <1>3, Bounds DEF Numbers
  <2>2. o \in OwnRecords
    BY <1>1, <2>1, OwnUpdate
  <2>3. o.num = n /\ o.next = 1 /\ o.oldest = 0 /\ o.rel = 0
    BY DEF NoOwn
  <2>4. WithOwn(s) = t
    BY <1>3 DEF WithOwn
  <2> HIDE DEF o, n
  <2>5. t \in HostRecords
    BY <2>1, <2>2, HostUpdate
  <2>6. t.own = o /\ t.gen = n /\ t.fm = s.fm /\ t.comp = s.comp /\ SameCopy(s, t)
    BY DEF HostRecords, SameCopy
  <2> HIDE DEF t
  <2>7. QED
    BY <1>3, <2>1, <2>3, <2>4, <2>5, <2>6
<1>4. QED
  BY <1>2, <1>3

\* ... sdt_del_channel for the peer's channel ...
LEMMA DelCopyIs ==
  ASSUME NEW s \in HostRecords,
         s.lst = "live" => s.copy.num # 0 /\ s.reg[s.copy.num] > 0
  PROVE  LET t == DelCopy(s)
         IN  /\ t \in HostRecords
             /\ t.comp = s.comp /\ SameOwn(s, t)
             /\ CopyGone(s, t)
<1> DEFINE reg == IF s.lst = "live" THEN [s.reg EXCEPT ![s.copy.num] = @ - 1] ELSE s.reg
           t == [s EXCEPT !.copy = NoCopy, !.lm = NoMember, !.lst = "none", !.reg = reg]
<1>1. s.reg \in [1..MaxChannels -> Nat] /\ s.copy.num \in Numbers
  BY DEF HostRecords, CopyRecords
<1>2. reg \in [1..MaxChannels -> Nat]
  BY <1>1, Bounds DEF Numbers
<1>3. NoCopy \in CopyRecords /\ NoMember \in MemberRecords
  BY RecordTypes, Bounds DEF NoCopy, CopyRecords, Numbers
<1>4. \A c \in 1..MaxChannels :
         reg[c] = IF s.lst = "live" /\ c = s.copy.num THEN s.reg[c] - 1 ELSE s.reg[c]
  BY <1>1
<1>5. DelCopy(s) = t
  BY DEF DelCopy
<1> HIDE DEF reg
<1>6. t \in HostRecords
  BY <1>2, <1>3, HostUpdate
<1>7. /\ t.reg = reg /\ t.copy = NoCopy /\ t.lm = NoMember /\ t.lst = "none"
      /\ t.comp = s.comp /\ SameOwn(s, t)
  BY DEF HostRecords, SameOwn
<1> HIDE DEF t
<1>8. QED
  BY <1>4, <1>5, <1>6, <1>7 DEF CopyGone

\* ... and for our own.
LEMMA DelOwnIs ==
  ASSUME NEW s \in HostRecords
  PROVE  LET t == DelOwn(s)
         IN  /\ t \in HostRecords
             /\ t.own = NoOwn /\ t.fm = NoMember /\ t.gen = s.gen /\ t.comp = s.comp
             /\ SameCopy(s, t)
             /\ OwnOK(t)
<1> DEFINE t == [s EXCEPT !.own = NoOwn, !.fm = NoMember]
<1>1. NoOwn \in OwnRecords /\ NoMember \in MemberRecords
  BY RecordTypes, Bounds DEF NoOwn, OwnRecords, Numbers
<1>2. t \in HostRecords
  BY <1>1, HostUpdate
<1>3. /\ t.own = NoOwn /\ t.fm = NoMember /\ t.gen = s.gen /\ t.comp = s.comp
      /\ SameCopy(s, t) /\ s.gen \in Numbers
  BY DEF HostRecords, SameCopy
<1>4. DelOwn(s) = t
  BY DEF DelOwn
<1> HIDE DEF t
<1>5. OwnOK(t)
  BY <1>3, Bounds DEF OwnOK, NoOwn, Numbers
<1>6. QED
  BY <1>2, <1>3, <1>4, <1>5

\* sdt_tx_join for a peer that is no member: the foreign member is the first that
\* the channel numbers, and the JOIN carries the channel and its numbers.
Joining(s, r) ==
  LET t == r.s
  IN  /\ t \in HostRecords
      /\ t.comp = s.comp /\ t.lst = s.lst /\ t.reg = s.reg
      /\ t.own.num # 0 /\ t.own.num <= t.gen /\ s.gen <= t.gen
      /\ t.own.next = 2 /\ t.own.oldest <= t.own.rel
      /\ s.own.num = 0 => s.gen < t.own.num
      /\ s.own.num # 0 => t.own.num = s.own.num
      /\ t.fm.mid = 1
      /\ t.copy = [s.copy EXCEPT !.is = TRUE]
      /\ t.lm = IF s.lm.st = "none" THEN NewMember ELSE s.lm
      /\ \E m \in Joins : /\ r.out = {m} /\ m.chan = t.own.num
                          /\ m.total = t.own.total /\ m.rel = t.own.rel

\* sdt_tx_join marks the member as waiting, starts its timer, and sends a
\* JOIN that carries the channel's numbers as they are.
LEMMA TxJoinIs ==
  ASSUME NEW s \in HostRecords, NEW reciprocal \in BOOLEAN,
         s.own.num # 0 \/ s.gen < MaxChannels, s.own.next = 1, s.own.num <= s.gen,
         s.own.oldest <= s.own.rel
  PROVE  Joining(s, TxJoin(s, reciprocal))
<1> DEFINE o == WithOwn(s)
           m == [(IF o.fm.st = "none" THEN NewMember ELSE o.fm)
                   EXCEPT !.mid = o.own.next, !.timer = Short]
           own == [o.own EXCEPT !.next = @ + 1]
           copy == [o.copy EXCEPT !.is = TRUE]
           lm == IF o.lm.st = "none" THEN NewMember ELSE o.lm
           t == [o EXCEPT !.own = own, !.fm = m, !.copy = copy, !.lm = lm]
           j == [type |-> "JOIN", chan |-> t.own.num, mid |-> m.mid,
                 recip |-> IF reciprocal THEN t.copy.num ELSE 0,
                 total |-> t.own.total, rel |-> t.own.rel, params |-> Long]
<1>1. TxJoin(s, reciprocal) = [s |-> t, out |-> {j}]
  BY DEF TxJoin, Result, marshal_channel_param_block
<1>2. /\ o \in HostRecords /\ o.comp = s.comp /\ SameCopy(s, o)
      /\ o.own.num # 0 /\ o.own.num <= o.gen /\ s.gen <= o.gen
      /\ s.own.num # 0 => o.own.num = s.own.num
      /\ s.own.num = 0 => s.gen < o.own.num
      /\ o.own.next = 1 /\ o.own.oldest <= o.own.rel
  BY WithOwnIs
<1>3. /\ o.own \in OwnRecords /\ o.fm \in MemberRecords /\ o.lm \in MemberRecords
      /\ o.copy \in CopyRecords /\ o.copy = s.copy /\ o.lm = s.lm
      /\ o.lst = s.lst /\ o.reg = s.reg
  BY <1>2 DEF HostRecords, SameCopy
<1> HIDE DEF o
<1>4. m \in MemberRecords /\ m.mid = 1
  <2> DEFINE b == IF o.fm.st = "none" THEN NewMember ELSE o.fm
  <2>1. b \in MemberRecords
    BY <1>3, RecordTypes
  <2> HIDE DEF b
  <2>2. [b EXCEPT !.mid = o.own.next, !.timer = Short] \in MemberRecords
    BY <1>2, <2>1, RecordTypes, MemberUpdate
  <2>3. [b EXCEPT !.mid = o.own.next, !.timer = Short].mid = 1
    BY <1>2, <2>1 DEF MemberRecords
  <2>4. QED
    BY <2>2, <2>3 DEF b
<1>5. /\ own \in OwnRecords /\ own.next = 2 /\ own.num = o.own.num
      /\ own.total = o.own.total /\ own.rel = o.own.rel /\ own.oldest = o.own.oldest
  BY <1>2, <1>3 DEF OwnRecords
<1>6. copy \in CopyRecords /\ copy.num \in Numbers
  BY <1>3 DEF CopyRecords
<1>7. lm \in MemberRecords
  BY <1>3, RecordTypes
<1>8. copy = [s.copy EXCEPT !.is = TRUE] /\ lm = IF s.lm.st = "none" THEN NewMember ELSE s.lm
  BY <1>3
<1> HIDE DEF m, own, copy, lm
<1>9. t \in HostRecords
  BY <1>2, <1>4, <1>5, <1>6, <1>7, HostUpdate
<1>10. /\ t.own = own /\ t.fm = m /\ t.copy = copy /\ t.lm = lm /\ t.gen = o.gen
       /\ t.comp = s.comp /\ t.lst = s.lst /\ t.reg = s.reg
  BY <1>2, <1>3 DEF HostRecords
<1> HIDE DEF t
<1>11. own.num \in Numbers /\ own.total \in Nat /\ own.rel \in Nat
  BY <1>5, Bounds DEF OwnRecords
<1>12. j \in Joins /\ j.chan = t.own.num /\ j.total = t.own.total /\ j.rel = t.own.rel
  BY <1>2, <1>4, <1>5, <1>6, <1>10, <1>11, Timeouts, Bounds DEF Joins, Numbers
<1> HIDE DEF j
<1> DEFINE r == TxJoin(s, reciprocal)
<1>13. r.s = t /\ r.out = {j}
  BY <1>1
<1> HIDE DEF r
<1>14. \E x \in Joins : /\ r.out = {x} /\ x.chan = r.s.own.num
                       /\ x.total = r.s.own.total /\ x.rel = r.s.own.rel
  BY <1>12, <1>13
<1>15. QED
  BY <1>2, <1>4, <1>5, <1>8, <1>9, <1>10, <1>13, <1>14 DEF Joining, r

(***************************************************************************)
(* The handlers that leave the records where they are.                     *)
(***************************************************************************)
\* The same channels and members, with the same numbers.
Keeps(s, t) ==
  /\ t.gen = s.gen /\ t.comp = s.comp /\ t.lst = s.lst /\ t.reg = s.reg
  /\ t.own.num = s.own.num /\ t.own.next = s.own.next
  /\ s.own.total <= t.own.total /\ s.own.rel <= t.own.rel /\ t.own.oldest <= t.own.rel
  /\ t.fm.mid = s.fm.mid
  /\ s.own.num = 0 => t.own = s.own /\ t.fm = s.fm
  /\ s.own.num # 0 => t.fm.st \notin {"none", "EMPTY"}
  /\ t.copy.is = s.copy.is /\ t.copy.num = s.copy.num
  /\ t.lm.mid = s.lm.mid
  /\ ~s.copy.is => t.copy = s.copy /\ t.lm = s.lm
  /\ s.copy.is => t.lm.st # "none"

\* What the states of the members of such a host are backed by.
BackedNow(h, s, t, S) ==
  /\ s.copy.num = 0 => t.lm.st \in {"none", "EMPTY", "DELETE"}
  /\ t.fm.st = s.fm.st \/
       /\ t.fm.st = "WAIT_FOR_ACK" => <<Peer(h), "JOIN", s.own.num, 1>> \in S
       /\ t.fm.st = "JOINED" => \/ <<Peer(h), "JOIN", s.own.num, 1>> \in S
                                \/ <<Peer(h), "DISCONNECTING">> \in S
       /\ t.fm.st = "CONNECTED" => <<Peer(h), "CONNECT", s.own.num, 1>> \in S

\* A host whose records stay where they are is still sound, if whatever its
\* member became is backed by a message that was sent.
LEMMA KeepsOK ==
  ASSUME NEW h, NEW S0, NEW S, S0 \subseteq S, NEW s, HostOK(h, s, S0),
         NEW t \in HostRecords, Keeps(s, t), BackedNow(h, s, t, S)
  PROVE  HostOK(h, t, S) /\ OwnMoves(s, t)
<1>1. OwnOK(t)
  BY DEF HostOK, OwnOK, Keeps
<1>2. CopyOK(t)
  BY DEF HostOK, CopyOK, Keeps, BackedNow
<1>3. Backed(h, t, S)
  BY DEF HostOK, Backed, Keeps, BackedNow
<1>4. s.gen \in Int
  BY Bounds DEF HostOK, HostRecords, Numbers
<1>5. OwnMoves(s, t)
  BY <1>4 DEF OwnMoves, Keeps
<1>6. QED
  BY <1>1, <1>2, <1>3, <1>5 DEF HostOK

\* A sound host may be left as it is.
LEMMA KeepsItself ==
  ASSUME NEW h, NEW S, NEW s, HostOK(h, s, S)
  PROVE  Keeps(s, s)
BY DEF HostOK, Keeps, OwnOK, CopyOK, HostRecords, OwnRecords

\* What a handler that keeps its records leaves behind may be left as it is.
LEMMA KeepsEnd ==
  ASSUME NEW s, NEW t \in HostRecords, Keeps(s, t)
  PROVE  Keeps(t, t)
<1>1. t.own.total \in Nat /\ t.own.rel \in Nat
  BY DEF HostRecords, OwnRecords
<1>2. t.own.total <= t.own.total /\ t.own.rel <= t.own.rel
  BY <1>1
<1>3. QED
  BY <1>2 DEF Keeps

\* Two steps that keep the records are one that does: sdt_tick and
\* sdt_shutdown do several things to a host in a row.
LEMMA KeepsOn ==
  ASSUME NEW s \in HostRecords, NEW t \in HostRecords, NEW u \in HostRecords,
         Keeps(s, t), Keeps(t, u)
  PROVE  Keeps(s, u)
<1>1. /\ s.own.total \in Int /\ t.own.total \in Int /\ u.own.total \in Int
      /\ s.own.rel \in Int /\ t.own.rel \in Int /\ u.own.rel \in Int
  BY DEF HostRecords, OwnRecords
<1>2. s.own.total <= u.own.total /\ s.own.rel <= u.own.rel
  BY <1>1 DEF Keeps
<1>3. QED
  BY <1>2 DEF Keeps

\* A member record is changed, which is not one that a channel lacks.
LEMMA FmKeeps ==
  ASSUME NEW s \in HostRecords, Keeps(s, s), s.own.num # 0,
         NEW x \in MemberRecords, x.mid = s.fm.mid, x.st \notin {"none", "EMPTY"}
  PROVE  LET t == [s EXCEPT !.fm = x]
         IN  /\ t \in HostRecords /\ Keeps(s, t)
             /\ t.fm = x /\ t.own = s.own /\ SameCopy(s, t) /\ t.comp = s.comp
<1> DEFINE t == [s EXCEPT !.fm = x]
<1>1. t \in HostRecords
  BY HostUpdate
<1>2. t.fm = x /\ t.own = s.own /\ t.comp = s.comp /\ t.gen = s.gen /\ SameCopy(s, t)
  BY DEF HostRecords, SameCopy
<1> HIDE DEF t
<1>3. Keeps(s, t)
  BY <1>2 DEF Keeps, SameCopy
<1>4. QED
  BY <1>1, <1>2, <1>3 DEF t

\* Changing the local member, but for its mid, keeps the records.
LEMMA LmKeeps ==
  ASSUME NEW s \in HostRecords, Keeps(s, s), s.copy.is,
         NEW x \in MemberRecords, x.mid = s.lm.mid, x.st # "none"
  PROVE  LET t == [s EXCEPT !.lm = x]
         IN  /\ t \in HostRecords /\ Keeps(s, t)
             /\ t.lm = x /\ SameOwn(s, t) /\ t.copy = s.copy /\ t.comp = s.comp
<1> DEFINE t == [s EXCEPT !.lm = x]
<1>1. t \in HostRecords
  BY HostUpdate
<1>2. /\ t.lm = x /\ SameOwn(s, t) /\ t.copy = s.copy /\ t.comp = s.comp
      /\ t.lst = s.lst /\ t.reg = s.reg
  BY DEF HostRecords, SameOwn
<1> HIDE DEF t
<1>3. Keeps(s, t)
  BY <1>2 DEF Keeps, SameOwn
<1>4. QED
  BY <1>1, <1>2, <1>3 DEF t

\* What a wrapper may carry.
LEMMA PdusAre == {"ACK", "LEAVE", "CONNECT", "CONNECT_ACCEPT", "DISCONNECTING", "DATA"} \subseteq Pdus
BY DEF Pdus

\* A wrapper goes out: the same, and it is a message that its sender may have sent.
Sent(s, r, pdu, assoc) ==
  /\ r.s \in HostRecords /\ Keeps(s, r.s) /\ OwnOK(r.s)
  /\ r.s.own.num # 0
  /\ r.s.fm = s.fm /\ r.s.gen = s.gen /\ r.s.comp = s.comp /\ SameCopy(s, r.s)
  /\ \E m \in Wrappers : /\ r.out = {m}
                         /\ m.chan = s.own.num /\ m.pdu = pdu /\ m.assoc = assoc
                         /\ m.total = r.s.own.total /\ m.rel = r.s.own.rel

\* Sending a wrapper numbers it and keeps the records; the numbers of the
\* wrapper are those that the channel has now.
LEMMA SendKeeps ==
  ASSUME NEW s \in HostRecords, Keeps(s, s), OwnOK(s), CanSend(s),
         NEW pdu \in Pdus, NEW reliable \in BOOLEAN, NEW assoc \in Numbers
  PROVE  Sent(s, SendWrapper(s, reliable, pdu, assoc), pdu, assoc)
<1> DEFINE r == SendWrapper(s, reliable, pdu, assoc)
<1>1. /\ r.s \in HostRecords
      /\ OwnOK(r.s)
      /\ r.s.fm = s.fm /\ r.s.gen = s.gen /\ r.s.comp = s.comp /\ SameCopy(s, r.s)
      /\ r.s.own.num = s.own.num /\ r.s.own.next = s.own.next
      /\ s.own.total <= r.s.own.total /\ s.own.rel <= r.s.own.rel
      /\ \E m \in Wrappers : /\ r.out = {m}
                             /\ m.chan = s.own.num /\ m.pdu = pdu /\ m.assoc = assoc
                             /\ m.total = r.s.own.total /\ m.rel = r.s.own.rel
  BY SendWrapperMoves
<1>2. s.own.num # 0
  BY DEF CanSend
<1> HIDE DEF r
<1>3. Keeps(s, r.s)
  BY <1>1, <1>2 DEF Keeps, SameCopy, OwnOK
<1>4. Sent(s, r, pdu, assoc)
  BY <1>1, <1>2, <1>3 DEF Sent
<1>5. QED
  BY <1>4 DEF r

\* What may be sent.
LEMMA WrapperOK ==
  ASSUME NEW h, NEW S, NEW s \in HostRecords, OwnOK(s), NEW m \in Wrappers,
         m.chan = s.own.num, m.total = s.own.total, m.rel = s.own.rel,
         m.pdu = "CONNECT_ACCEPT" => <<h, "CONNECT", m.assoc, 1>> \in S /\ m.assoc # 0,
         m.pdu = "DISCONNECTING" => <<h, "DISCONNECTING">> \in S
  PROVE  MessageOK(h, s, S, m)
<1>1. m.total <= s.own.total /\ m.rel <= s.own.rel
  BY Bounds DEF HostRecords, OwnRecords
<1>2. QED
  BY <1>1 DEF MessageOK, OwnOK

\* A LEAVING names the channel and no number of it, so no channel has to
\* back it.
LEMMA LeavingOK ==
  ASSUME NEW s \in HostRecords
  PROVE  /\ Leaving(s) \in Leavings /\ Leaving(s).type = "LEAVING"
         /\ \A h, t, S : MessageOK(h, t, S, Leaving(s))
<1>1. s.copy.num \in Numbers /\ s.lm.mid \in Nat
  BY DEF HostRecords, CopyRecords, MemberRecords
<1>2. Leaving(s) \in Leavings /\ Leaving(s).type = "LEAVING"
  BY <1>1 DEF Leaving, Leavings
<1>3. QED
  BY <1>2 DEF MessageOK

\* All that is to show of a handler that keeps the records.
OutOK(h, s, r, S) ==
  \A m \in r.out :
    /\ MessageOK(h, r.s, S, m)
    /\ m.type = "WRAPPER" /\ m.pdu = "CONNECT_ACCEPT" =>
         m.assoc = s.copy.num /\ m.assoc # 0 /\ r.s.lm.mid = 1

\* A handler that keeps the records, backs its member and sends sound
\* messages is a sound move of the host.
LEMMA KeepsMoves ==
  ASSUME NEW h, NEW S0, NEW S, S0 \subseteq S, NEW s, HostOK(h, s, S0),
         NEW r, r.s \in HostRecords, Keeps(s, r.s), BackedNow(h, s, r.s, S), OutOK(h, s, r, S)
  PROVE  Moves(h, s, r, S)
BY KeepsOK DEF HostOK, Moves, OutOK

\* Nothing happens.
LEMMA StaysMoves ==
  ASSUME NEW h, NEW S0, NEW S, S0 \subseteq S, NEW s, HostOK(h, s, S0),
         NEW out, \A m \in out : m.type # "WRAPPER" /\ MessageOK(h, s, S, m)
  PROVE  Moves(h, s, Result(s, out), S)
<1>1. Result(s, out).s = s /\ Result(s, out).out = out
  BY DEF Result
<1>2. Keeps(s, s) /\ BackedNow(h, s, s, S) /\ s \in HostRecords
  BY KeepsItself DEF HostOK, BackedNow, CopyOK
<1>3. OutOK(h, s, Result(s, out), S)
  BY <1>1 DEF OutOK
<1>4. QED
  BY <1>1, <1>2, <1>3, KeepsMoves

\* A handler that only changes the foreign member, or the local one.
LEMMA FmMoves ==
  ASSUME NEW h, NEW S0, NEW S, S0 \subseteq S, NEW s, HostOK(h, s, S0), s.own.num # 0,
         NEW x \in MemberRecords, x.mid = s.fm.mid, x.st \notin {"none", "EMPTY"},
         x.st = s.fm.st \/
           /\ x.st = "WAIT_FOR_ACK" => <<Peer(h), "JOIN", s.own.num, 1>> \in S
           /\ x.st = "JOINED" => \/ <<Peer(h), "JOIN", s.own.num, 1>> \in S
                                 \/ <<Peer(h), "DISCONNECTING">> \in S
           /\ x.st = "CONNECTED" => <<Peer(h), "CONNECT", s.own.num, 1>> \in S
  PROVE  Moves(h, s, Result([s EXCEPT !.fm = x], {}), S)
<1> DEFINE t == [s EXCEPT !.fm = x]
<1>1. s \in HostRecords /\ Keeps(s, s)
  BY KeepsItself DEF HostOK
<1>2. t \in HostRecords /\ Keeps(s, t) /\ t.fm = x /\ SameCopy(s, t)
  BY <1>1, FmKeeps
<1> HIDE DEF t
<1>3. Result(t, {}).s = t /\ Result(t, {}).out = {}
  BY DEF Result
<1>4. BackedNow(h, s, t, S)
  BY <1>2 DEF BackedNow, HostOK, CopyOK, SameCopy
<1>5. OutOK(h, s, Result(t, {}), S)
  BY <1>3 DEF OutOK
<1>6. Moves(h, s, Result(t, {}), S)
  BY <1>2, <1>3, <1>4, <1>5, KeepsMoves
<1>7. QED
  BY <1>6 DEF t

\* A handler that changes only the local member and sends no wrapper is a
\* sound move: sdt_rx_connect and sdt_rx_disconnect.
LEMMA LmMoves ==
  ASSUME NEW h, NEW S0, NEW S, S0 \subseteq S, NEW s, HostOK(h, s, S0), s.copy.is,
         NEW x \in MemberRecords, x.mid = s.lm.mid, x.st # "none",
         s.copy.num = 0 => x.st \in {"none", "EMPTY", "DELETE"},
         NEW out, \A m \in out : m.type # "WRAPPER" /\ \A t \in HostRecords : MessageOK(h, t, S, m)
  PROVE  Moves(h, s, Result([s EXCEPT !.lm = x], out), S)
<1> DEFINE t == [s EXCEPT !.lm = x]
<1>1. s \in HostRecords /\ Keeps(s, s)
  BY KeepsItself DEF HostOK
<1>2. t \in HostRecords /\ Keeps(s, t) /\ t.lm = x /\ SameOwn(s, t)
  BY <1>1, LmKeeps
<1> HIDE DEF t
<1>3. Result(t, out).s = t /\ Result(t, out).out = out
  BY DEF Result
<1>4. BackedNow(h, s, t, S)
  BY <1>2 DEF BackedNow, SameOwn
<1>5. OutOK(h, s, Result(t, out), S)
  BY <1>2, <1>3 DEF OutOK
<1>6. Moves(h, s, Result(t, out), S)
  BY <1>2, <1>3, <1>4, <1>5, KeepsMoves
<1>7. QED
  BY <1>6 DEF t

\* The foreign member that a message finds is there.
LEMMA FoundIsThere ==
  ASSUME NEW s \in HostRecords, NEW m, FindsForeignMember(s, m)
  PROVE  /\ s.own.num # 0 /\ s.fm.st # "none"
         /\ \A st \in MemberStates : [s.fm EXCEPT !.st = st] \in MemberRecords
         /\ \A st \in MemberStates : [s.fm EXCEPT !.st = st].st = st
         /\ \A st \in MemberStates : [s.fm EXCEPT !.st = st].mid = s.fm.mid
         /\ \A st \in MemberStates : [s EXCEPT !.fm.st = st] = [s EXCEPT !.fm = [s.fm EXCEPT !.st = st]]
<1>1. s.fm \in MemberRecords
  BY DEF HostRecords
<1>2. QED
  BY <1>1, MemberUpdate DEF FindsForeignMember, MemberRecords

\* sdt_rx_join_refuse, sdt_rx_leaving.
LEMMA DeleteMoves ==
  ASSUME NEW h, NEW S0, NEW S, S0 \subseteq S, NEW s, HostOK(h, s, S0), NEW m,
         FindsForeignMember(s, m)
  PROVE  Moves(h, s, Result([s EXCEPT !.fm.st = "DELETE"], {}), S)
<1> DEFINE x == [s.fm EXCEPT !.st = "DELETE"]
<1>1. "DELETE" \in MemberStates
  BY DEF MemberStates
<1>2. /\ s.own.num # 0 /\ x \in MemberRecords /\ x.st = "DELETE" /\ x.mid = s.fm.mid
      /\ [s EXCEPT !.fm.st = "DELETE"] = [s EXCEPT !.fm = x]
  BY <1>1, FoundIsThere DEF HostOK
<1> HIDE DEF x
<1>3. Moves(h, s, Result([s EXCEPT !.fm = x], {}), S)
  BY <1>2, FmMoves
<1>4. QED
  BY <1>2, <1>3

\* sdt_rx_join_refuse marks the member and nothing else.
LEMMA RxJoinRefuseMoves ==
  ASSUME NEW h, NEW S0, NEW S, S0 \subseteq S, NEW s, HostOK(h, s, S0), NEW m
  PROVE  Moves(h, s, RxJoinRefuse(s, m), S)
BY DeleteMoves, StaysMoves DEF RxJoinRefuse

\* sdt_rx_leaving marks the member and nothing else.
LEMMA RxLeavingMoves ==
  ASSUME NEW h, NEW S0, NEW S, S0 \subseteq S, NEW s, HostOK(h, s, S0), NEW m
  PROVE  Moves(h, s, RxLeaving(s, m), S)
BY DeleteMoves, StaysMoves DEF RxLeaving

\* A member with its state or its timer set.
LEMMA MemberSet ==
  ASSUME NEW x \in MemberRecords
  PROVE  /\ \A st \in MemberStates : /\ [x EXCEPT !.st = st] \in MemberRecords
                                     /\ [x EXCEPT !.st = st].st = st
                                     /\ [x EXCEPT !.st = st].mid = x.mid
         /\ \A n \in Off..Long : /\ [x EXCEPT !.timer = n] \in MemberRecords
                                 /\ [x EXCEPT !.timer = n].st = x.st
                                 /\ [x EXCEPT !.timer = n].mid = x.mid
BY MemberUpdate DEF MemberRecords

\* sdt_rx_join_accept.
LEMMA RxJoinAcceptMoves ==
  ASSUME NEW h, NEW S0, NEW S, S0 \subseteq S, NEW s, HostOK(h, s, S0),
         NEW m \in Accepts, <<Peer(h), "JOIN", m.chan, 1>> \in S0
  PROVE  Moves(h, s, RxJoinAccept(s, m), S)
<1> DEFINE none == ~(FindsForeignMember(s, m) /\ s.own.num = m.chan /\ s.copy.is /\ s.lm.st # "none")
           waits == s.fm.st = "WAIT_FOR_ACCEPT" /\ s.lm.st = "WAIT_FOR_ACK"
           first == [s.fm EXCEPT !.st = "WAIT_FOR_ACK"]
           armed == [first EXCEPT !.timer = Long]
           again == [s.fm EXCEPT !.timer = Long]
           ack == SendAck(s)
<1>1. /\ s \in HostRecords /\ s.fm \in MemberRecords /\ Keeps(s, s) /\ OwnOK(s)
      /\ s.copy.num \in Numbers
  BY KeepsItself DEF HostOK, HostRecords, CopyRecords
<1>2. Long \in Off..Long /\ "WAIT_FOR_ACK" \in MemberStates
  BY RecordTypes DEF MemberStates
<1>3. /\ first \in MemberRecords /\ first.st = "WAIT_FOR_ACK" /\ first.mid = s.fm.mid
      /\ again \in MemberRecords /\ again.st = s.fm.st /\ again.mid = s.fm.mid
  BY <1>1, <1>2, MemberSet
<1>4. armed \in MemberRecords /\ armed.st = "WAIT_FOR_ACK" /\ armed.mid = s.fm.mid
  <2> HIDE DEF first
  <2>1. QED
    BY <1>2, <1>3, MemberSet
<1>5. CASE none
  <2>1. RxJoinAccept(s, m) = Result(s, {})
    BY <1>5 DEF RxJoinAccept
  <2>2. QED
    BY <2>1, StaysMoves
<1>6. CASE ~none
  <2>1. s.own.num = m.chan /\ s.own.num # 0 /\ s.fm.st \notin {"none", "EMPTY"}
    BY <1>1, <1>6 DEF FindsForeignMember, OwnOK
  <2>2. <<Peer(h), "JOIN", s.own.num, 1>> \in S
    BY <2>1
  <2>3. CASE s.fm.st = "WAIT_FOR_ACCEPT" /\ s.lm.st = "EMPTY"
    <3>1. RxJoinAccept(s, m) = Result([s EXCEPT !.fm = armed], {})
      BY <1>1, <1>6, <2>3 DEF RxJoinAccept, HostRecords
    <3> HIDE DEF armed
    <3>2. Moves(h, s, Result([s EXCEPT !.fm = armed], {}), S)
      BY <1>4, <2>1, <2>2, FmMoves
    <3>3. QED
      BY <3>1, <3>2
  <2>4. CASE waits
    <3>1. CASE s.copy.num \notin {0, m.recip} \/ ~CanSend(s)
      <4>1. RxJoinAccept(s, m) = Result(s, {})
        BY <1>6, <2>4, <3>1 DEF RxJoinAccept
      <4>2. QED
        BY <4>1, StaysMoves
    <3>2. CASE ~(s.copy.num \notin {0, m.recip} \/ ~CanSend(s))
      <4> DEFINE u == [ack.s EXCEPT !.fm = armed]
      <4>1. /\ ack.s \in HostRecords /\ Keeps(s, ack.s) /\ OwnOK(ack.s)
            /\ ack.s.own.num # 0
            /\ ack.s.fm = s.fm /\ ack.s.gen = s.gen /\ SameCopy(s, ack.s)
            /\ \E w \in Wrappers : /\ ack.out = {w}
                                   /\ w.chan = s.own.num /\ w.pdu = "ACK"
                                   /\ w.total = ack.s.own.total /\ w.rel = ack.s.own.rel
        <5>1. Sent(s, ack, "ACK", s.copy.num)
          BY <1>1, <3>2, SendKeeps, PdusAre DEF SendAck
        <5> HIDE DEF ack
        <5>2. QED
          BY <5>1 DEF Sent
      <4>2. RxJoinAccept(s, m) = Result(u, ack.out)
        <5>1. RxJoinAccept(s, m) =
                Result([[ack.s EXCEPT !.fm.st = "WAIT_FOR_ACK"] EXCEPT !.fm.timer = Long], ack.out)
          BY <1>6, <2>4, <3>2 DEF RxJoinAccept
        <5> HIDE DEF ack
        <5>2. [[ack.s EXCEPT !.fm.st = "WAIT_FOR_ACK"] EXCEPT !.fm.timer = Long] = u
          BY <4>1 DEF HostRecords
        <5>3. QED
          BY <5>1, <5>2
      <4> HIDE DEF ack, armed
      <4>3. Keeps(ack.s, ack.s)
        BY <4>1, KeepsEnd
      <4>4. /\ u \in HostRecords /\ Keeps(ack.s, u) /\ u.fm = armed /\ u.own = ack.s.own
            /\ SameCopy(ack.s, u)
        BY <1>4, <4>1, <4>3, FmKeeps
      <4> HIDE DEF u
      <4>5. Keeps(s, u)
        BY <1>1, <4>1, <4>4, KeepsOn
      <4>6. BackedNow(h, s, u, S)
        BY <1>4, <2>2, <4>1, <4>4 DEF BackedNow, HostOK, CopyOK, SameCopy
      <4>7. Result(u, ack.out).s = u /\ Result(u, ack.out).out = ack.out
        BY DEF Result
      <4>8. HostOK(h, u, S)
        BY <4>4, <4>5, <4>6, KeepsOK
      <4>9. OutOK(h, s, Result(u, ack.out), S)
        <5>1. PICK w \in Wrappers : /\ ack.out = {w}
                                    /\ w.chan = u.own.num /\ w.pdu = "ACK"
                                    /\ w.total = u.own.total /\ w.rel = u.own.rel
          BY <4>1, <4>4 DEF Keeps
        <5>2. MessageOK(h, u, S, w)
          BY <4>4, <4>8, <5>1, WrapperOK DEF HostOK
        <5>3. QED
          BY <4>7, <5>1, <5>2 DEF OutOK
      <4>10. Moves(h, s, Result(u, ack.out), S)
        BY <4>4, <4>5, <4>6, <4>7, <4>9, KeepsMoves
      <4>11. QED
        BY <4>2, <4>10
    <3>3. QED
      BY <3>1, <3>2
  <2>5. CASE ~(s.fm.st = "WAIT_FOR_ACCEPT" /\ s.lm.st = "EMPTY") /\ ~waits
    <3>1. RxJoinAccept(s, m) = Result([s EXCEPT !.fm = again], {})
      BY <1>1, <1>6, <2>5 DEF RxJoinAccept, HostRecords
    <3> HIDE DEF again
    <3>2. Moves(h, s, Result([s EXCEPT !.fm = again], {}), S)
      BY <1>3, <2>1, FmMoves
    <3>3. QED
      BY <3>1, <3>2
  <2>6. QED
    BY <2>3, <2>4, <2>5
<1>7. QED
  BY <1>5, <1>6

\* A wrapper that a host sends after it has changed the members.
LEMMA SendMoves ==
  ASSUME NEW h, NEW S0, NEW S, S0 \subseteq S, NEW s, HostOK(h, s, S0),
         NEW t \in HostRecords, Keeps(s, t), BackedNow(h, s, t, S), CanSend(t),
         NEW pdu \in Pdus, pdu \notin {"CONNECT_ACCEPT", "DISCONNECTING"},
         NEW reliable \in BOOLEAN, NEW assoc \in Numbers
  PROVE  Moves(h, s, SendWrapper(t, reliable, pdu, assoc), S)
<1> DEFINE r == SendWrapper(t, reliable, pdu, assoc)
<1>1. HostOK(h, t, S) /\ Keeps(t, t)
  BY KeepsOK, KeepsItself
<1>2. /\ r.s \in HostRecords /\ Keeps(t, r.s) /\ OwnOK(r.s) /\ r.s.own.num = t.own.num
      /\ r.s.fm = t.fm /\ SameCopy(t, r.s)
      /\ \E m \in Wrappers : /\ r.out = {m}
                             /\ m.chan = t.own.num /\ m.pdu = pdu /\ m.assoc = assoc
                             /\ m.total = r.s.own.total /\ m.rel = r.s.own.rel
  <2>1. Sent(t, r, pdu, assoc)
    BY <1>1, SendKeeps DEF HostOK
  <2> HIDE DEF r
  <2>2. QED
    BY <2>1 DEF Sent, Keeps
<1> HIDE DEF r
<1>3. Keeps(s, r.s) /\ BackedNow(h, s, r.s, S)
  BY <1>2, KeepsOn DEF HostOK, BackedNow, SameCopy
<1>4. PICK m \in Wrappers : /\ r.out = {m}
                            /\ m.chan = r.s.own.num /\ m.pdu = pdu
                            /\ m.total = r.s.own.total /\ m.rel = r.s.own.rel
  BY <1>2
<1>5. MessageOK(h, r.s, S, m)
  BY <1>2, <1>4, WrapperOK
<1>6. OutOK(h, s, r, S)
  BY <1>4, <1>5 DEF OutOK
<1>7. Moves(h, s, r, S)
  BY <1>2, <1>3, <1>6, KeepsMoves
<1>8. QED
  BY <1>7 DEF r

\* sdt_rx_ack.
LEMMA RxAckMoves ==
  ASSUME NEW h, NEW S0, NEW S, S0 \subseteq S, NEW s, HostOK(h, s, S0),
         s.copy.is, s.copy.num # 0
  PROVE  Moves(h, s, RxAck(s), S)
<1> DEFINE joined(x) == IF x.st = "WAIT_FOR_ACK" THEN [x EXCEPT !.st = "JOINED"] ELSE x
           off == [s.fm EXCEPT !.timer = Off]
           fm == joined(off)
           lm == joined(s.lm)
           u == [s EXCEPT !.fm = fm]
           t == [u EXCEPT !.lm = lm]
<1>1. /\ s \in HostRecords /\ s.fm \in MemberRecords /\ s.lm \in MemberRecords
      /\ Keeps(s, s) /\ OwnOK(s) /\ CopyOK(s) /\ s.lm.st # "none"
  BY KeepsItself DEF HostOK, HostRecords, CopyOK
<1>2. CASE s.own.num = 0 \/ s.fm.st = "none"
  <2>1. RxAck(s) = Result(s, {})
    BY <1>2 DEF RxAck
  <2>2. QED
    BY <2>1, StaysMoves
<1>3. CASE ~(s.own.num = 0 \/ s.fm.st = "none")
  <2>1. RxAck(s) = IF t.fm.st = "JOINED" /\ t.lm.st = "JOINED" /\ CanSend(t)
                     THEN SendConnect(t) ELSE Result(t, {})
    <3>1. [s EXCEPT !.fm = joined([@ EXCEPT !.timer = Off]), !.lm = joined(@)] = t
      BY <1>1 DEF HostRecords
    <3> HIDE DEF t
    <3>2. QED
      BY <1>3, <3>1 DEF RxAck
  <2>2. Off \in Off..Long /\ "JOINED" \in MemberStates
    BY Timeouts DEF Off, MemberStates
  <2>3. off \in MemberRecords /\ off.st = s.fm.st /\ off.mid = s.fm.mid
    BY <1>1, <2>2, MemberSet
  <2> HIDE DEF off
  <2>4. /\ fm \in MemberRecords /\ fm.mid = s.fm.mid
        /\ fm.st = IF s.fm.st = "WAIT_FOR_ACK" THEN "JOINED" ELSE s.fm.st
    BY <2>2, <2>3, MemberSet
  <2>5. /\ lm \in MemberRecords /\ lm.mid = s.lm.mid
        /\ lm.st = IF s.lm.st = "WAIT_FOR_ACK" THEN "JOINED" ELSE s.lm.st
    BY <1>1, <2>2, MemberSet
  <2>6. fm.st \notin {"none", "EMPTY"} /\ lm.st # "none"
    BY <1>1, <1>3, <2>4, <2>5 DEF OwnOK
  <2> HIDE DEF fm, lm
  <2>7. u \in HostRecords /\ Keeps(s, u) /\ u.fm = fm /\ u.own = s.own /\ SameCopy(s, u)
    BY <1>1, <1>3, <2>4, <2>6, FmKeeps
  <2> HIDE DEF u
  <2>8. Keeps(u, u)
    BY <2>7, KeepsEnd
  <2>9. t \in HostRecords /\ Keeps(u, t) /\ t.lm = lm /\ SameOwn(u, t)
    BY <2>5, <2>6, <2>7, <2>8, LmKeeps DEF SameCopy
  <2> HIDE DEF t
  <2>10. Keeps(s, t)
    BY <1>1, <2>7, <2>9, KeepsOn
  <2>11. BackedNow(h, s, t, S)
    BY <2>4, <2>7, <2>9 DEF BackedNow, SameOwn, HostOK, Backed
  <2>12. CASE t.fm.st = "JOINED" /\ t.lm.st = "JOINED" /\ CanSend(t)
    <3>1. 0 \in Numbers /\ "CONNECT" \in Pdus
      BY Bounds DEF Numbers, Pdus
    <3>2. Moves(h, s, SendWrapper(t, TRUE, "CONNECT", 0), S)
      BY <2>9, <2>10, <2>11, <2>12, <3>1, SendMoves
    <3>3. QED
      BY <2>1, <2>12, <3>2 DEF SendConnect
  <2>13. CASE ~(t.fm.st = "JOINED" /\ t.lm.st = "JOINED" /\ CanSend(t))
    <3>1. Result(t, {}).s = t /\ Result(t, {}).out = {}
      BY DEF Result
    <3>2. OutOK(h, s, Result(t, {}), S)
      BY <3>1 DEF OutOK
    <3>3. Moves(h, s, Result(t, {}), S)
      BY <2>9, <2>10, <2>11, <3>1, <3>2, KeepsMoves
    <3>4. QED
      BY <2>1, <2>13, <3>3
  <2>14. QED
    BY <2>12, <2>13
<1>4. QED
  BY <1>2, <1>3

\* sdt_rx_leave, and the answer to a lost wrapper.
LEMMA LeaveMoves ==
  ASSUME NEW h, NEW S0, NEW S, S0 \subseteq S, NEW s, HostOK(h, s, S0), s.copy.is
  PROVE  Moves(h, s, Result([s EXCEPT !.lm.st = "DELETE"], {Leaving(s)}), S)
<1> DEFINE x == [s.lm EXCEPT !.st = "DELETE"]
<1>1. s \in HostRecords /\ s.lm \in MemberRecords /\ "DELETE" \in MemberStates
  BY DEF HostOK, HostRecords, MemberStates
<1>2. x \in MemberRecords /\ x.st = "DELETE" /\ x.mid = s.lm.mid
  BY <1>1, MemberSet
<1>3. [s EXCEPT !.lm.st = "DELETE"] = [s EXCEPT !.lm = x]
  BY <1>1 DEF HostRecords
<1> HIDE DEF x
<1>4. \A m \in {Leaving(s)} : m.type # "WRAPPER" /\ \A t \in HostRecords : MessageOK(h, t, S, m)
  BY <1>1, LeavingOK
<1>5. Moves(h, s, Result([s EXCEPT !.lm = x], {Leaving(s)}), S)
  BY <1>2, <1>4, LmMoves
<1>6. QED
  BY <1>3, <1>5

\* sdt_rx_leave marks our own member in the peer's channel and answers with
\* LEAVING.
LEMMA RxLeaveMoves ==
  ASSUME NEW h, NEW S0, NEW S, S0 \subseteq S, NEW s, HostOK(h, s, S0), s.copy.is
  PROVE  Moves(h, s, RxLeave(s), S)
BY LeaveMoves, StaysMoves DEF RxLeave

\* sdt_rx_connect_accept and sdt_rx_disconnecting.
LEMMA FmStMoves ==
  ASSUME NEW h, NEW S0, NEW S, S0 \subseteq S, NEW s, HostOK(h, s, S0), s.own.num # 0,
         NEW st \in {"CONNECTED", "JOINED"},
         st = "CONNECTED" => <<Peer(h), "CONNECT", s.own.num, 1>> \in S0,
         st = "JOINED" => <<Peer(h), "DISCONNECTING">> \in S0
  PROVE  Moves(h, s, Result([s EXCEPT !.fm.st = st], {}), S)
<1> DEFINE x == [s.fm EXCEPT !.st = st]
<1>1. s \in HostRecords /\ s.fm \in MemberRecords /\ st \in MemberStates
  BY DEF HostOK, HostRecords, MemberStates
<1>2. x \in MemberRecords /\ x.st = st /\ x.mid = s.fm.mid
  BY <1>1, MemberSet
<1>3. [s EXCEPT !.fm.st = st] = [s EXCEPT !.fm = x]
  BY <1>1 DEF HostRecords
<1> HIDE DEF x
<1>4. Moves(h, s, Result([s EXCEPT !.fm = x], {}), S)
  BY <1>2, FmMoves
<1>5. QED
  BY <1>3, <1>4

\* sdt_rx_connect_accept makes a member connected; the CONNECT that the peer
\* has answered is what it is connected by.
LEMMA RxConnectAcceptMoves ==
  ASSUME NEW h, NEW S0, NEW S, S0 \subseteq S, NEW s, HostOK(h, s, S0),
         <<Peer(h), "CONNECT", s.own.num, 1>> \in S0
  PROVE  Moves(h, s, RxConnectAccept(s), S)
BY FmStMoves, StaysMoves DEF RxConnectAccept

\* sdt_rx_disconnecting makes the member joined, whatever it was: the one
\* case in which JOINED is backed by a DISCONNECTING and no JOIN_ACCEPT.
LEMMA RxDisconnectingMoves ==
  ASSUME NEW h, NEW S0, NEW S, S0 \subseteq S, NEW s, HostOK(h, s, S0),
         <<Peer(h), "DISCONNECTING">> \in S0
  PROVE  Moves(h, s, RxDisconnecting(s), S)
BY FmStMoves, StaysMoves DEF RxDisconnecting

\* sdt_rx_connect: what the acceptance tells is of the channel of the copy.
LEMMA RxConnectMoves ==
  ASSUME NEW h, NEW S0, NEW S, S0 \subseteq S, NEW s, HostOK(h, s, S0),
         s.copy.is, s.copy.num # 0, Told(h, RxConnect(s), S)
  PROVE  Moves(h, s, RxConnect(s), S)
<1> DEFINE accept == SendConnectAccept(s)
           x == [accept.s.lm EXCEPT !.st = "CONNECTED"]
           u == [accept.s EXCEPT !.lm = x]
<1>1. /\ s \in HostRecords /\ Keeps(s, s) /\ OwnOK(s) /\ CopyOK(s) /\ s.copy.num \in Numbers
      /\ s.lm.st # "none" /\ s.lm.mid = 1
  BY KeepsItself DEF HostOK, CopyOK, HostRecords, CopyRecords
<1>2. CASE s.fm.st = "none" \/ ~CanSend(s)
  <2>1. RxConnect(s) = Result(s, {})
    BY <1>2 DEF RxConnect
  <2>2. QED
    BY <2>1, StaysMoves
<1>3. CASE ~(s.fm.st = "none" \/ ~CanSend(s))
  <2>1. /\ accept.s \in HostRecords /\ Keeps(s, accept.s) /\ OwnOK(accept.s)
        /\ accept.s.fm = s.fm /\ SameCopy(s, accept.s)
        /\ \E m \in Wrappers : /\ accept.out = {m}
                               /\ m.chan = s.own.num /\ m.pdu = "CONNECT_ACCEPT"
                               /\ m.assoc = s.copy.num
                               /\ m.total = accept.s.own.total /\ m.rel = accept.s.own.rel
    <3>1. Sent(s, accept, "CONNECT_ACCEPT", s.copy.num)
      BY <1>1, <1>3, SendKeeps, PdusAre DEF SendConnectAccept
    <3> HIDE DEF accept
    <3>2. QED
      BY <3>1 DEF Sent
  <2>2. RxConnect(s) = Result(u, accept.out)
    <3>1. RxConnect(s) = Result([accept.s EXCEPT !.lm.st = "CONNECTED"], accept.out)
      BY <1>3 DEF RxConnect
    <3> HIDE DEF accept
    <3>2. [accept.s EXCEPT !.lm.st = "CONNECTED"] = u
      BY <2>1 DEF HostRecords
    <3>3. QED
      BY <3>1, <3>2
  <2> HIDE DEF accept
  <2>3. Keeps(accept.s, accept.s)
    BY <2>1, KeepsEnd
  <2>4. /\ accept.s.lm \in MemberRecords /\ "CONNECTED" \in MemberStates
        /\ accept.s.lm = s.lm /\ accept.s.copy = s.copy
    BY <2>1 DEF HostRecords, MemberStates, SameCopy
  <2>5. x \in MemberRecords /\ x.st = "CONNECTED" /\ x.mid = s.lm.mid
    BY <2>4, MemberSet
  <2> HIDE DEF x
  <2>6. u \in HostRecords /\ Keeps(accept.s, u) /\ u.lm = x /\ SameOwn(accept.s, u)
    BY <1>1, <2>1, <2>3, <2>4, <2>5, LmKeeps
  <2> HIDE DEF u
  <2>7. Keeps(s, u)
    BY <1>1, <2>1, <2>6, KeepsOn
  <2>8. BackedNow(h, s, u, S)
    BY <2>1, <2>6 DEF BackedNow, SameOwn
  <2>9. HostOK(h, u, S)
    BY <2>6, <2>7, <2>8, KeepsOK
  <2>10. Result(u, accept.out).s = u /\ Result(u, accept.out).out = accept.out
    BY DEF Result
  <2>11. PICK m \in Wrappers : /\ accept.out = {m}
                               /\ m.chan = u.own.num /\ m.pdu = "CONNECT_ACCEPT"
                               /\ m.assoc = s.copy.num
                               /\ m.total = u.own.total /\ m.rel = u.own.rel
    BY <2>1, <2>6 DEF Keeps, SameOwn
  <2>12. u.lm.mid = 1
    BY <1>1, <2>5, <2>6
  <2>13. <<h, "CONNECT", m.assoc, 1>> \in S
    BY <2>2, <2>10, <2>11, <2>12 DEF Told, Wrappers
  <2>14. MessageOK(h, u, S, m)
    BY <2>6, <2>9, <2>11, <2>13, WrapperOK DEF HostOK
  <2>15. OutOK(h, s, Result(u, accept.out), S)
    BY <2>10, <2>11, <2>12, <2>14 DEF OutOK
  <2>16. Moves(h, s, Result(u, accept.out), S)
    BY <2>6, <2>7, <2>8, <2>10, <2>15, KeepsMoves
  <2>17. QED
    BY <2>2, <2>16
<1>4. QED
  BY <1>2, <1>3

\* A handler that goes on after the records were touched.
LEMMA MovesAfter ==
  ASSUME NEW h, NEW S, NEW s \in HostRecords, NEW t \in HostRecords, Keeps(s, t),
         NEW r, Moves(h, t, r, S)
  PROVE  Moves(h, s, r, S)
<1>1. /\ s.own.total \in Int /\ t.own.total \in Int /\ r.s.own.total \in Int
      /\ s.own.rel \in Int /\ t.own.rel \in Int /\ r.s.own.rel \in Int
  BY DEF HostRecords, OwnRecords, Moves
<1>2. OwnMoves(s, r.s)
  BY <1>1 DEF Moves, OwnMoves, Keeps
<1>3. s.copy.num = t.copy.num
  BY DEF Keeps
<1>4. QED
  BY <1>2, <1>3 DEF Moves

\* What a wrapper on the wire says was said.
WrapperTrue(h, S, w) ==
  /\ w.pdu = "CONNECT_ACCEPT" => <<Peer(h), "CONNECT", w.assoc, 1>> \in S /\ w.assoc # 0
  /\ w.pdu = "DISCONNECTING" => <<Peer(h), "DISCONNECTING">> \in S

\* sdt_client_rx_handler, for a wrapper that names our channel or none.
LEMMA DispatchMoves ==
  ASSUME NEW h, NEW S0, NEW S, S0 \subseteq S, NEW s, HostOK(h, s, S0),
         s.copy.is, s.copy.num # 0,
         NEW w \in Wrappers, WrapperTrue(h, S0, w), w.assoc \in {0, s.own.num},
         Told(h, Dispatch(s, w.pdu), S)
  PROVE  Moves(h, s, Dispatch(s, w.pdu), S)
<1>1. w.pdu \in Pdus
  BY DEF Wrappers
<1>2. CASE w.pdu = "ACK"
  BY <1>2, RxAckMoves DEF Dispatch
<1>3. CASE w.pdu = "LEAVE"
  BY <1>3, RxLeaveMoves DEF Dispatch
<1>4. CASE w.pdu = "CONNECT"
  <2>1. Dispatch(s, w.pdu) = RxConnect(s)
    BY <1>4 DEF Dispatch
  <2>2. QED
    BY <2>1, RxConnectMoves
<1>5. CASE w.pdu = "CONNECT_ACCEPT"
  <2>1. Dispatch(s, w.pdu) = RxConnectAccept(s)
    BY <1>5 DEF Dispatch
  <2>2. <<Peer(h), "CONNECT", s.own.num, 1>> \in S0
    BY <1>5 DEF WrapperTrue
  <2>3. QED
    BY <2>1, <2>2, RxConnectAcceptMoves
<1>6. CASE w.pdu = "DISCONNECTING"
  <2>1. Dispatch(s, w.pdu) = RxDisconnecting(s)
    BY <1>6 DEF Dispatch
  <2>2. <<Peer(h), "DISCONNECTING">> \in S0
    BY <1>6 DEF WrapperTrue
  <2>3. QED
    BY <2>1, <2>2, RxDisconnectingMoves
<1>7. CASE w.pdu = "DATA"
  BY <1>7, StaysMoves DEF Dispatch
<1>8. QED
  BY <1>1, <1>2, <1>3, <1>4, <1>5, <1>6, <1>7 DEF Pdus

\* The tail of sdt_rx_wrapper: only a local member with a number is handed anything,
\* and it got its number with its channel.
LEMMA HandOnMoves ==
  ASSUME NEW h, NEW S0, NEW S, S0 \subseteq S, NEW s, HostOK(h, s, S0), s.copy.is,
         NEW w \in Wrappers, WrapperTrue(h, S0, w), Told(h, HandOn(s, w), S)
  PROVE  Moves(h, s, HandOn(s, w), S)
<1> DEFINE x == [s.lm EXCEPT !.timer = s.lm.exp]
           t == [s EXCEPT !.lm = x]
           u == [t EXCEPT !.alive = FALSE, !.fault = "null"]
<1>1. /\ s \in HostRecords /\ s.lm \in MemberRecords /\ s.lm.st # "none" /\ CopyOK(s)
      /\ Keeps(s, s) /\ s.lm.exp \in {0, Long}
  BY KeepsItself DEF HostOK, HostRecords, CopyOK, MemberRecords
<1>2. s.lm.exp \in Off..Long
  BY <1>1, RecordTypes
<1>3. x \in MemberRecords /\ x.st = s.lm.st /\ x.mid = s.lm.mid
  BY <1>1, <1>2, MemberSet
<1>4. [s EXCEPT !.lm.timer = s.lm.exp] = t
  BY <1>1 DEF HostRecords
<1> HIDE DEF x
<1>5. /\ t \in HostRecords /\ Keeps(s, t) /\ t.lm = x /\ SameOwn(s, t) /\ t.copy = s.copy
  BY <1>1, <1>3, LmKeeps
<1>6. HandOn(s, w) =
        IF t.lm.mid # w.mid THEN Result(t, {})
        ELSE IF w.assoc # 0 /\ t.own.num = 0 THEN Result(u, {})
        ELSE IF w.assoc \notin {0, t.own.num} THEN Result(t, {})
        ELSE Dispatch(t, w.pdu)
  <2> HIDE DEF t
  <2>1. QED
    BY <1>1, <1>4 DEF HandOn
<1> HIDE DEF t
<1>7. \A S1 : S0 \subseteq S1 => BackedNow(h, s, t, S1)
  BY <1>1, <1>3, <1>5 DEF BackedNow, SameOwn, CopyOK
<1>8. HostOK(h, t, S0)
  BY <1>5, <1>7, KeepsOK
<1>9. ASSUME NEW v \in HostRecords, SameOwn(t, v), SameCopy(t, v), v.comp = t.comp
      PROVE  Moves(h, s, Result(v, {}), S)
  <2>1. Keeps(s, v) /\ BackedNow(h, s, v, S)
    BY <1>5, <1>7, <1>9 DEF Keeps, BackedNow, SameOwn, SameCopy
  <2>2. Result(v, {}).s = v /\ OutOK(h, s, Result(v, {}), S)
    BY DEF Result, OutOK
  <2>3. QED
    BY <2>1, <2>2, KeepsMoves
<1>10. SameOwn(t, t) /\ SameCopy(t, t)
  BY DEF SameOwn, SameCopy
<1>11. u \in HostRecords
  BY <1>5, HostUpdate
<1>12. SameOwn(t, u) /\ SameCopy(t, u) /\ u.comp = t.comp
  BY <1>5 DEF HostRecords, SameOwn, SameCopy
<1> HIDE DEF u
<1>13. Moves(h, s, Result(t, {}), S) /\ Moves(h, s, Result(u, {}), S)
  BY <1>5, <1>9, <1>10, <1>11, <1>12
<1>14. ASSUME t.lm.mid = w.mid, w.assoc \in {0, t.own.num}, HandOn(s, w) = Dispatch(t, w.pdu)
       PROVE  Moves(h, s, HandOn(s, w), S)
  <2>1. t.copy.is /\ t.copy.num # 0
    BY <1>1, <1>3, <1>5, <1>14 DEF CopyOK, Wrappers
  <2>2. Moves(h, t, Dispatch(t, w.pdu), S)
    BY <1>8, <1>14, <2>1, DispatchMoves
  <2>3. QED
    BY <1>1, <1>5, <1>14, <2>2, MovesAfter
<1>15. QED
  BY <1>6, <1>13, <1>14

\* sdt_rx_wrapper.
LEMMA RxWrapperMoves ==
  ASSUME NEW h, NEW S0, NEW S, S0 \subseteq S, NEW s, HostOK(h, s, S0),
         NEW w \in Wrappers, WrapperTrue(h, S0, w), Told(h, RxWrapper(s, w), S)
  PROVE  Moves(h, s, RxWrapper(s, w), S)
<1> DEFINE verdict == check_sequence(s.copy, w)
           c1 == [s.copy EXCEPT !.total = w.total]
           c2 == [c1 EXCEPT !.rel = w.rel]
           moved == [s EXCEPT !.copy = c2]
<1>1. s \in HostRecords /\ Keeps(s, s) /\ s.copy \in CopyRecords /\ CopyOK(s)
  BY KeepsItself DEF HostOK, HostRecords
<1>2. w.total \in Nat /\ w.rel \in Nat
  BY DEF Wrappers
<1>3. verdict \in {"SEQ_DUPLICATE", "SEQ_VALID", "SEQ_LOST", "SEQ_NAK"}
  BY DEF check_sequence
<1>4. [s EXCEPT !.copy.total = w.total, !.copy.rel = w.rel] = moved
  BY <1>1 DEF HostRecords, CopyRecords
<1>5. CASE s.reg[w.chan] = 0 \/ ~s.copy.is
  <2>1. RxWrapper(s, w) = Result(s, {})
    BY <1>5 DEF RxWrapper
  <2>2. QED
    BY <2>1, StaysMoves
<1>6. CASE ~(s.reg[w.chan] = 0 \/ ~s.copy.is)
  <2>1. CASE verdict = "SEQ_VALID"
    <3>1. RxWrapper(s, w) = HandOn(moved, w)
      <4> HIDE DEF moved
      <4>1. QED
        BY <1>4, <1>6, <2>1 DEF RxWrapper
    <3>2. c1 \in CopyRecords /\ c1.is = s.copy.is /\ c1.num = s.copy.num
      BY <1>1, <1>2, CopyUpdate DEF CopyRecords
    <3> HIDE DEF c1
    <3>3. c2 \in CopyRecords /\ c2.is = s.copy.is /\ c2.num = s.copy.num
      BY <1>2, <3>2, CopyUpdate DEF CopyRecords
    <3> HIDE DEF c2
    <3>4. moved \in HostRecords
      BY <1>1, <3>3, HostUpdate
    <3>5. /\ moved.copy = c2 /\ moved.lm = s.lm /\ moved.lst = s.lst /\ moved.reg = s.reg
          /\ moved.comp = s.comp /\ SameOwn(s, moved)
      BY <1>1 DEF HostRecords, SameOwn
    <3> HIDE DEF moved
    <3>6. Keeps(s, moved) /\ BackedNow(h, s, moved, S0)
      BY <1>1, <1>6, <3>3, <3>5 DEF Keeps, SameOwn, BackedNow, CopyOK
    <3>7. HostOK(h, moved, S0)
      BY <3>4, <3>6, KeepsOK
    <3>8. Moves(h, moved, HandOn(moved, w), S)
      BY <1>6, <3>1, <3>3, <3>5, <3>7, HandOnMoves
    <3>9. QED
      BY <1>1, <3>1, <3>4, <3>6, <3>8, MovesAfter
  <2>2. CASE verdict = "SEQ_NAK"
    <3>1. RxWrapper(s, w) = IF w.reliable THEN Result(s, {}) ELSE HandOn(s, w)
      BY <1>6, <2>2 DEF RxWrapper
    <3>2. CASE w.reliable
      BY <3>1, <3>2, StaysMoves
    <3>3. CASE ~w.reliable
      <4>1. RxWrapper(s, w) = HandOn(s, w)
        BY <3>1, <3>3
      <4>2. QED
        BY <1>6, <4>1, HandOnMoves
    <3>4. QED
      BY <3>2, <3>3
  <2>3. CASE verdict = "SEQ_DUPLICATE"
    <3>1. RxWrapper(s, w) = Result(s, {})
      BY <1>6, <2>3 DEF RxWrapper
    <3>2. QED
      BY <3>1, StaysMoves
  <2>4. CASE verdict = "SEQ_LOST"
    <3>1. RxWrapper(s, w) =
            IF s.lm.st = "none" THEN Result(s, {})
            ELSE Result([s EXCEPT !.lm.st = "DELETE"], {Leaving(s)})
      BY <1>6, <2>4 DEF RxWrapper
    <3>2. QED
      BY <1>6, <3>1, StaysMoves, LeaveMoves
  <2>5. QED
    BY <1>3, <2>1, <2>2, <2>3, <2>4
<1>7. QED
  BY <1>5, <1>6

(***************************************************************************)
(* The handlers that make and delete channels.                             *)
(***************************************************************************)
\* sdt_del_component.
LEMMA DelCompIs ==
  ASSUME NEW s \in HostRecords,
         s.lst = "live" => s.copy.num # 0 /\ s.reg[s.copy.num] > 0
  PROVE  LET t == DelComp(s)
         IN  /\ t \in HostRecords
             /\ t.comp = "none" /\ t.fm = NoMember /\ t.own = s.own /\ t.gen = s.gen
             /\ CopyGone(s, t)
<1> DEFINE d == DelCopy(s)
           e == [d EXCEPT !.comp = "none"]
           t == [e EXCEPT !.fm = NoMember]
<1>1. d \in HostRecords /\ SameOwn(s, d) /\ CopyGone(s, d)
  BY DelCopyIs
<1>2. DelComp(s) = t
  <2> HIDE DEF d
  <2>1. [d EXCEPT !.comp = "none", !.fm = NoMember] = t
    BY <1>1 DEF HostRecords
  <2>2. QED
    BY <2>1 DEF DelComp, d
<1> HIDE DEF d
<1>3. e \in HostRecords
  BY <1>1, HostUpdate
<1>4. t \in HostRecords
  BY <1>3, RecordTypes, HostUpdate
<1>5. /\ t.comp = "none" /\ t.fm = NoMember /\ t.own = d.own /\ t.gen = d.gen
      /\ t.copy = d.copy /\ t.lm = d.lm /\ t.lst = d.lst /\ t.reg = d.reg
  BY <1>1 DEF HostRecords
<1> HIDE DEF t
<1>6. QED
  BY <1>1, <1>2, <1>4, <1>5 DEF SameOwn, CopyGone

\* Counting a timer down changes neither the mid nor the state of a member.
LEMMA CountDownIs ==
  ASSUME NEW x \in MemberRecords
  PROVE  /\ CountDown(x) \in MemberRecords
         /\ CountDown(x).st = x.st /\ CountDown(x).mid = x.mid
<1>1. CASE x.timer > 0
  <2>1. x.timer - 1 \in Off..Long
    BY <1>1, Timeouts DEF MemberRecords, Off
  <2>2. QED
    BY <1>1, <2>1, MemberSet DEF CountDown
<1>2. CASE ~(x.timer > 0)
  BY <1>2 DEF CountDown
<1>3. QED
  BY <1>1, <1>2

\* The first half of sdt_tick: our own channel is not touched, but its member is
\* when the peer's component goes.
LEMMA TickPeerIs ==
  ASSUME NEW h, NEW S, NEW s, HostOK(h, s, S)
  PROVE  LET t == TickPeer(s).s
         IN  /\ t \in HostRecords /\ CopyOK(t)
             /\ t.own = s.own /\ t.gen = s.gen
             /\ \/ t.fm = s.fm /\ t.comp = s.comp
                \/ t.fm = NoMember /\ t.comp = "none"
             /\ \/ CopyKept(s, t) /\ t.lm.st = s.lm.st
                \/ CopyGone(s, t)
             /\ t.comp = "JOIN" => t.copy.is
             /\ TickPeer(s).out \subseteq {Leaving(s)}
<1> DEFINE gone == s.lm.st = "DELETE" \/ Expires(s.lm)
           x == IF gone THEN NoMember ELSE CountDown(s.lm)
           t == [s EXCEPT !.lm = x]
           c == IF s.copy.is /\ t.lm.st = "none" THEN DelCopy(t) ELSE t
           d == IF c.comp = "JOIN" /\ ~c.copy.is THEN DelComp(c) ELSE c
<1>1. TickPeer(s).s = d /\ TickPeer(s).out \subseteq {Leaving(s)}
  BY DEF TickPeer, Result
<1>2. /\ s \in HostRecords /\ s.lm \in MemberRecords /\ CopyOK(s)
      /\ CountDown(NoMember) = NoMember /\ ~Expires(NoMember)
      /\ NoCopy.is = FALSE /\ NoCopy.num = 0 /\ NoMember.st = "none" /\ NoMember.mid = 0
  BY DEF HostOK, HostRecords, CountDown, NoMember, NoCopy, Off, Expires
<1>3. /\ x \in MemberRecords
      /\ x.st # "none" => x.st = s.lm.st /\ x.mid = s.lm.mid
      /\ ~s.copy.is => x = NoMember
      /\ x.st = "none" => x = NoMember
  <2>1. CountDown(s.lm) \in MemberRecords /\ CountDown(s.lm).st = s.lm.st
        /\ CountDown(s.lm).mid = s.lm.mid
    BY <1>2, CountDownIs
  <2>2. s.lm.st = "none" => s.lm = NoMember
    BY <1>2 DEF CopyOK
  <2>3. QED
    BY <1>2, <2>1, <2>2, RecordTypes DEF CopyOK
<1> HIDE DEF x
<1>4. t \in HostRecords
  BY <1>2, <1>3, HostUpdate
<1>5. t.lm = x /\ CopyKept(s, t) /\ SameOwn(s, t) /\ t.comp = s.comp
  BY <1>2 DEF HostRecords, CopyKept, SameOwn
<1> HIDE DEF t
<1>6. t.lst = "live" => t.copy.num # 0 /\ t.reg[t.copy.num] > 0
  BY <1>2, <1>5 DEF CopyOK, CopyKept
<1>7. /\ c \in HostRecords /\ SameOwn(s, c) /\ c.comp = s.comp
      /\ \/ CopyKept(s, c) /\ c.lm.st = s.lm.st /\ c = t /\ ~(s.copy.is /\ t.lm.st = "none")
         \/ CopyGone(s, c)
  <2>1. CASE s.copy.is /\ t.lm.st = "none"
    <3>1. c \in HostRecords /\ c.comp = t.comp /\ SameOwn(t, c) /\ CopyGone(t, c)
      BY <1>4, <1>6, <2>1, DelCopyIs
    <3>2. QED
      BY <1>5, <3>1 DEF SameOwn, CopyGone, CopyKept
  <2>2. CASE ~(s.copy.is /\ t.lm.st = "none")
    <3>1. t.lm.st = s.lm.st
      BY <1>2, <1>3, <1>5, <2>2 DEF CopyOK
    <3>2. QED
      BY <1>4, <1>5, <2>2, <3>1
  <2>3. QED
    BY <2>1, <2>2
<1>8. CopyOK(c)
  <2>1. CASE CopyKept(s, c) /\ c.lm.st = s.lm.st /\ c = t /\ ~(s.copy.is /\ t.lm.st = "none")
    BY <1>2, <1>3, <1>5, <1>7, <2>1 DEF CopyOK, CopyKept
  <2>2. CASE CopyGone(s, c)
    BY <1>2, <2>2 DEF CopyOK, CopyGone
  <2>3. QED
    BY <1>7, <2>1, <2>2
<1> HIDE DEF c
<1>9. CASE c.comp = "JOIN" /\ ~c.copy.is
  <2>1. c.lst # "live" /\ c.copy = NoCopy /\ c.lm = NoMember
    BY <1>2, <1>8, <1>9 DEF CopyOK
  <2>2. /\ d \in HostRecords /\ d.comp = "none" /\ d.fm = NoMember /\ d.own = c.own
        /\ d.gen = c.gen /\ CopyGone(c, d)
    BY <1>7, <1>9, <2>1, DelCompIs
  <2> HIDE DEF d
  <2>3. CopyGone(s, d)
    BY <1>2, <1>7, <2>1, <2>2 DEF CopyGone, CopyKept, CopyOK
  <2>4. CopyOK(d)
    BY <1>2, <2>2 DEF CopyGone, CopyOK
  <2>5. QED
    BY <1>1, <1>7, <2>2, <2>3, <2>4 DEF SameOwn
<1>10. CASE ~(c.comp = "JOIN" /\ ~c.copy.is)
  <2>1. d = c
    BY <1>10
  <2> HIDE DEF d
  <2>2. QED
    BY <1>1, <1>7, <1>8, <1>10, <2>1 DEF SameOwn
<1>11. QED
  BY <1>9, <1>10

\* The second half: our channel is left with a member, or not at all.
LEMMA TickOwnIs ==
  ASSUME NEW h, NEW S, NEW s, HostOK(h, s, S),
         NEW c \in HostRecords, CopyOK(c), c.own = s.own, c.gen = s.gen,
         \/ c.fm = s.fm /\ c.comp = s.comp
         \/ c.fm = NoMember /\ c.comp = "none",
         c.copy.num # 0 => c.copy.num = s.copy.num
  PROVE  LET t == TickOwn(c)
         IN  /\ HostOK(h, t, S) /\ OwnMoves(s, t) /\ SameCopy(c, t) /\ t.comp = c.comp
             /\ t.own.num # 0 <=> t.fm.st # "none"
<1> DEFINE gone == c.fm.st \in {"none", "DELETE"} \/ Expires(c.fm)
           x == CountDown(c.fm)
           t == TickOwn(c)
<1>1. /\ s \in HostRecords /\ OwnOK(s) /\ Backed(h, s, S) /\ c.fm \in MemberRecords
      /\ s.own.num \in Int /\ s.own.total \in Int /\ s.own.rel \in Int /\ s.gen \in Int
      /\ NoOwn.num = 0 /\ NoMember.st = "none" /\ 0 <= s.gen
      /\ NoOwn.oldest <= NoOwn.rel
  BY Bounds DEF HostOK, HostRecords, OwnRecords, Numbers, NoOwn, NoMember
<1>2. CASE c.own.num = 0
  <2>1. t = c
    BY <1>2 DEF TickOwn
  <2> HIDE DEF t
  <2>2. c.own = NoOwn /\ c.fm = NoMember
    BY <1>1, <1>2 DEF OwnOK
  <2>3. OwnOK(c) /\ OwnMoves(s, c) /\ SameCopy(c, c)
    BY <1>1, <1>2, <2>2 DEF OwnOK, OwnMoves, SameCopy
  <2>4. Backed(h, c, S)
    BY <1>1, <2>2 DEF Backed
  <2>5. QED
    BY <1>1, <2>1, <2>2, <2>3, <2>4 DEF HostOK, t
<1>3. CASE c.own.num # 0 /\ gone
  <2>1. t = DelOwn(c)
    BY <1>3 DEF TickOwn
  <2>2. /\ t \in HostRecords
        /\ t.own = NoOwn /\ t.fm = NoMember /\ t.gen = c.gen /\ t.comp = c.comp
        /\ SameCopy(c, t) /\ OwnOK(t)
    BY <2>1, DelOwnIs
  <2> HIDE DEF t
  <2>3. OwnMoves(s, t) /\ CopyOK(t) /\ Backed(h, t, S)
    BY <1>1, <2>2 DEF OwnMoves, CopyOK, Backed, SameCopy
  <2>4. QED
    BY <1>1, <2>2, <2>3 DEF HostOK, t
<1>4. CASE c.own.num # 0 /\ ~gone
  <2>1. [c EXCEPT !.fm = x] = t
    BY <1>4 DEF TickOwn
  <2>2. x \in MemberRecords /\ x.st = c.fm.st /\ x.mid = c.fm.mid
    BY <1>1, CountDownIs
  <2>3. c.fm = s.fm /\ c.comp = s.comp
    BY <1>1, <1>4
  <2> HIDE DEF x, t
  <2>4. t \in HostRecords
    BY <2>1, <2>2, HostUpdate
  <2>5. t.fm = x /\ t.own = c.own /\ t.gen = c.gen /\ t.comp = c.comp /\ SameCopy(c, t)
    BY <2>1 DEF HostRecords, SameCopy
  <2>6. OwnOK(t) /\ OwnMoves(s, t) /\ CopyOK(t) /\ Backed(h, t, S)
    BY <1>1, <1>4, <2>2, <2>3, <2>5 DEF OwnOK, OwnMoves, CopyOK, Backed, SameCopy
  <2>7. QED
    BY <1>4, <2>2, <2>4, <2>5, <2>6 DEF HostOK, t
<1>5. QED
  BY <1>2, <1>3, <1>4

Ticked(s) == Result(TickOwn(TickPeer(s).s), TickPeer(s).out)

\* sdt_tick is a sound move.  After it a channel of ours has a member, and
\* the peer's component is gone with its channel unless discovery made it.
LEMMA TickMoves ==
  ASSUME NEW h, NEW S0, NEW S, S0 \subseteq S, NEW s, HostOK(h, s, S0)
  PROVE  /\ Moves(h, s, Ticked(s), S)
         /\ Ticked(s).s.own.num # 0 <=> Ticked(s).s.fm.st # "none"
         /\ Ticked(s).s.comp = "JOIN" => Ticked(s).s.copy.is
<1> DEFINE p == TickPeer(s)
           t == TickOwn(p.s)
<1>1. /\ p.s \in HostRecords /\ CopyOK(p.s)
      /\ p.s.own = s.own /\ p.s.gen = s.gen
      /\ \/ p.s.fm = s.fm /\ p.s.comp = s.comp
         \/ p.s.fm = NoMember /\ p.s.comp = "none"
      /\ p.s.copy.num # 0 => p.s.copy.num = s.copy.num
      /\ p.s.comp = "JOIN" => p.s.copy.is
      /\ p.out \subseteq {Leaving(s)}
  BY TickPeerIs DEF CopyKept, CopyGone, NoCopy
<1>2. Ticked(s).s = t /\ Ticked(s).out = p.out
  BY DEF Ticked, Result
<1>3. HostOK(h, s, S)
  BY DEF HostOK, Backed
<1> HIDE DEF p
<1>4. /\ HostOK(h, t, S) /\ OwnMoves(s, t) /\ SameCopy(p.s, t) /\ t.comp = p.s.comp
      /\ t.own.num # 0 <=> t.fm.st # "none"
  BY <1>1, <1>3, TickOwnIs
<1> HIDE DEF t
<1>5. \A m \in p.out : m.type # "WRAPPER" /\ MessageOK(h, t, S, m)
  BY <1>1, LeavingOK DEF HostOK
<1>6. Moves(h, s, Ticked(s), S)
  BY <1>2, <1>4, <1>5 DEF Moves, HostOK
<1>7. QED
  BY <1>1, <1>2, <1>4, <1>6 DEF SameCopy

(***************************************************************************)
(* The application.                                                        *)
(***************************************************************************)
\* Discovery, sdt_join of a member, a restart: nothing that matters here changes.
LEMMA SameMoves ==
  ASSUME NEW h, NEW S0, NEW S, S0 \subseteq S, NEW s, HostOK(h, s, S0),
         NEW t \in HostRecords, SameOwn(s, t), SameCopy(s, t),
         t.comp = s.comp \/ t.comp # "none"
  PROVE  Moves(h, s, Result(t, {}), S)
<1>1. Result(t, {}).s = t /\ Result(t, {}).out = {}
  BY DEF Result
<1>2. /\ s.own.num \in Int /\ s.own.total \in Int /\ s.own.rel \in Int /\ s.gen \in Int
  BY DEF HostOK, HostRecords, OwnRecords, Numbers
<1>3. OwnOK(t) /\ CopyOK(t) /\ Backed(h, t, S) /\ OwnMoves(s, t)
  BY <1>2 DEF HostOK, OwnOK, CopyOK, Backed, OwnMoves, SameOwn, SameCopy
<1>4. QED
  BY <1>1, <1>3 DEF Moves

\* Discovery of the peer's component is a sound move.
LEMMA DiscoverMoves ==
  ASSUME NEW h, NEW S0, NEW S, S0 \subseteq S, NEW s, HostOK(h, s, S0)
  PROVE  Moves(h, s, Result([s EXCEPT !.comp = "DISC"], {}), S)
<1> DEFINE t == [s EXCEPT !.comp = "DISC"]
<1>1. s \in HostRecords
  BY DEF HostOK
<1>2. t \in HostRecords
  BY <1>1, HostUpdate
<1>3. SameOwn(s, t) /\ SameCopy(s, t) /\ t.comp # "none"
  BY <1>1 DEF HostRecords, SameOwn, SameCopy
<1> HIDE DEF t
<1>4. Moves(h, s, Result(t, {}), S)
  BY <1>2, <1>3, SameMoves
<1>5. QED
  BY <1>4 DEF t

\* sdt_join of a peer that is a member already takes the lock and keeps it:
\* no record changes.
LEMMA JoinAgainMoves ==
  ASSUME NEW h, NEW S0, NEW S, S0 \subseteq S, NEW s, HostOK(h, s, S0)
  PROVE  Moves(h, s, Result([s EXCEPT !.locked = TRUE], {}), S)
<1> DEFINE t == [s EXCEPT !.locked = TRUE]
<1>1. s \in HostRecords
  BY DEF HostOK
<1>2. t \in HostRecords
  BY <1>1, HostUpdate
<1>3. SameOwn(s, t) /\ SameCopy(s, t) /\ t.comp = s.comp
  BY <1>1 DEF HostRecords, SameOwn, SameCopy
<1> HIDE DEF t
<1>4. Moves(h, s, Result(t, {}), S)
  BY <1>2, <1>3, SameMoves
<1>5. QED
  BY <1>4 DEF t

\* A process that starts again has the empty records its end left.
LEMMA RestartMoves ==
  ASSUME NEW h, NEW S, NEW s, HostOK(h, s, S)
  PROVE  Moves(h, s, Result([s EXCEPT !.alive = TRUE], {}), S)
<1> DEFINE t == [s EXCEPT !.alive = TRUE]
<1>1. s \in HostRecords
  BY DEF HostOK
<1>2. t \in HostRecords
  BY <1>1, HostUpdate
<1>3. SameOwn(s, t) /\ SameCopy(s, t) /\ t.comp = s.comp
  BY <1>1 DEF HostRecords, SameOwn, SameCopy
<1> HIDE DEF t
<1>4. Moves(h, s, Result(t, {}), S)
  BY <1>2, <1>3, SameMoves
<1>5. QED
  BY <1>4 DEF t

\* sdt_tx_reliable_data.
LEMMA TxDataMoves ==
  ASSUME NEW h, NEW S0, NEW S, S0 \subseteq S, NEW s, HostOK(h, s, S0), CanSend(s),
         NEW response \in BOOLEAN
  PROVE  Moves(h, s, SendWrapper(s, TRUE, "DATA", IF response THEN s.copy.num ELSE 0), S)
<1> DEFINE assoc == IF response THEN s.copy.num ELSE 0
<1>1. s \in HostRecords /\ assoc \in Numbers /\ "DATA" \in Pdus
  BY Bounds DEF HostOK, HostRecords, CopyRecords, Numbers, Pdus
<1>2. Keeps(s, s) /\ BackedNow(h, s, s, S)
  BY KeepsItself DEF HostOK, CopyOK, BackedNow
<1> HIDE DEF assoc
<1>3. Moves(h, s, SendWrapper(s, TRUE, "DATA", assoc), S)
  BY <1>1, <1>2, SendMoves
<1>4. QED
  BY <1>3 DEF assoc

\* sdt_leave.
Left(s) ==
  LET l == SendLeave(s)
  IN  Result(IF ~s.copy.is
               THEN [l.s EXCEPT !.alive = FALSE, !.fault = "assert"]
             ELSE IF s.lm.st = "none"
               THEN [l.s EXCEPT !.alive = FALSE, !.fault = "null"]
             ELSE [l.s EXCEPT !.lm.st = "DELETE", !.fm.st = "DELETE"],
             l.out)

\* sdt_leave sends a LEAVE, and marks the member in our channel.
LEMMA LeftMoves ==
  ASSUME NEW h, NEW S0, NEW S, S0 \subseteq S, NEW s, HostOK(h, s, S0), CanSend(s)
  PROVE  Moves(h, s, Left(s), S)
<1> DEFINE l == SendLeave(s)
           t == l.s
           u == Left(s).s
<1>1. /\ s \in HostRecords /\ Keeps(s, s) /\ OwnOK(s) /\ CopyOK(s) /\ 0 \in Numbers
      /\ s.own.num # 0
  BY KeepsItself, Bounds DEF HostOK, CanSend, Numbers
<1>2. /\ t \in HostRecords /\ Keeps(s, t) /\ OwnOK(t)
      /\ t.own.num # 0
      /\ t.fm = s.fm /\ t.gen = s.gen /\ t.comp = s.comp /\ SameCopy(s, t)
      /\ \E m \in Wrappers : /\ l.out = {m}
                             /\ m.chan = s.own.num /\ m.pdu = "LEAVE"
                             /\ m.total = t.own.total /\ m.rel = t.own.rel
  <2>1. Sent(s, l, "LEAVE", 0)
    BY <1>1, SendKeeps, PdusAre DEF SendLeave
  <2> HIDE DEF l
  <2>2. QED
    BY <2>1 DEF Sent
<1>3. Left(s) = Result(u, l.out)
  BY DEF Left, Result
<1>4. CASE ~s.copy.is
  <2> DEFINE a == [t EXCEPT !.alive = FALSE]
             b == [a EXCEPT !.fault = "assert"]
  <2>1. u = [t EXCEPT !.alive = FALSE, !.fault = "assert"]
    BY <1>4 DEF Left, Result
  <2> HIDE DEF u, l
  <2>2. [t EXCEPT !.alive = FALSE, !.fault = "assert"] = b
    BY <1>2 DEF HostRecords
  <2>3. b \in HostRecords
    BY <1>2, HostUpdate
  <2>4. SameOwn(t, b) /\ SameCopy(t, b) /\ b.comp = t.comp
    BY <1>2 DEF HostRecords, SameOwn, SameCopy
  <2> HIDE DEF b
  <2>5. Keeps(s, b) /\ BackedNow(h, s, b, S)
    BY <1>1, <1>2, <2>4 DEF Keeps, BackedNow, SameOwn, SameCopy, CopyOK
  <2>6. /\ HostOK(h, b, S) /\ b.own = t.own
    BY <2>3, <2>4, <2>5, KeepsOK DEF SameOwn
  <2>7. PICK m \in Wrappers : /\ l.out = {m} /\ m.chan = b.own.num /\ m.pdu = "LEAVE"
                              /\ m.total = b.own.total /\ m.rel = b.own.rel
    BY <1>2, <2>6 DEF Keeps
  <2>8. MessageOK(h, b, S, m)
    BY <2>6, <2>7, WrapperOK DEF HostOK
  <2> DEFINE r == Result(b, l.out)
  <2>9. r.s = b /\ r.out = l.out
    BY DEF Result
  <2> HIDE DEF r
  <2>10. OutOK(h, s, r, S)
    BY <2>7, <2>8, <2>9 DEF OutOK
  <2>11. Moves(h, s, r, S)
    BY <2>3, <2>5, <2>9, <2>10, KeepsMoves
  <2>12. QED
    BY <1>3, <2>1, <2>2, <2>11 DEF r
<1>5. CASE s.copy.is
  <2> DEFINE y == [t.fm EXCEPT !.st = "DELETE"]
             x == [t.lm EXCEPT !.st = "DELETE"]
             a == [t EXCEPT !.lm = x]
             b == [a EXCEPT !.fm = y]
  <2>1. u = [t EXCEPT !.lm.st = "DELETE", !.fm.st = "DELETE"]
    BY <1>1, <1>5 DEF Left, Result, CopyOK
  <2> HIDE DEF u, l
  <2>2. [t EXCEPT !.lm.st = "DELETE", !.fm.st = "DELETE"] = b
    BY <1>2 DEF HostRecords
  <2>3. t.fm \in MemberRecords /\ t.lm \in MemberRecords /\ "DELETE" \in MemberStates
    BY <1>2 DEF HostRecords, MemberStates
  <2>4. /\ x \in MemberRecords /\ x.st = "DELETE" /\ x.mid = t.lm.mid
        /\ y \in MemberRecords /\ y.st = "DELETE" /\ y.mid = t.fm.mid
    BY <2>3, MemberSet
  <2> HIDE DEF x, y
  <2>5. Keeps(t, t)
    BY <1>2, KeepsEnd
  <2>6. a \in HostRecords /\ Keeps(t, a) /\ a.lm = x /\ SameOwn(t, a)
    BY <1>2, <1>5, <2>4, <2>5, LmKeeps DEF SameCopy
  <2> HIDE DEF a
  <2>7. Keeps(a, a)
    BY <2>6, KeepsEnd
  <2>8. b \in HostRecords /\ Keeps(a, b) /\ b.fm = y /\ b.own = a.own /\ SameCopy(a, b)
    BY <1>2, <2>4, <2>6, <2>7, FmKeeps DEF SameOwn
  <2> HIDE DEF b
  <2>9. Keeps(s, b) /\ BackedNow(h, s, b, S)
    <3>1. Keeps(s, b)
      BY <1>1, <1>2, <2>6, <2>8, KeepsOn
    <3>2. QED
      BY <2>4, <2>6, <2>8, <3>1 DEF BackedNow, SameCopy
  <2>10. HostOK(h, b, S) /\ b.own = t.own
    BY <2>6, <2>8, <2>9, KeepsOK DEF SameOwn
  <2>11. PICK m \in Wrappers : /\ l.out = {m} /\ m.chan = b.own.num /\ m.pdu = "LEAVE"
                               /\ m.total = b.own.total /\ m.rel = b.own.rel
    BY <1>2, <2>10 DEF Keeps
  <2>12. MessageOK(h, b, S, m)
    BY <2>8, <2>10, <2>11, WrapperOK DEF HostOK
  <2> DEFINE r == Result(b, l.out)
  <2>13. r.s = b /\ r.out = l.out
    BY DEF Result
  <2> HIDE DEF r
  <2>14. OutOK(h, s, r, S)
    BY <2>11, <2>12, <2>13 DEF OutOK
  <2>15. Moves(h, s, r, S)
    BY <2>8, <2>9, <2>13, <2>14, KeepsMoves
  <2>16. QED
    BY <1>3, <2>1, <2>2, <2>15 DEF r
<1>6. QED
  BY <1>4, <1>5

\* sdt_join of a new member.
Joined(s) ==
  LET j == TxJoin(s, FALSE)
  IN  Result([j.s EXCEPT !.fm.st = "WAIT_FOR_ACCEPT", !.lm.st = "EMPTY"], j.out)

\* sdt_join makes our channel if there is none, puts a member into it and
\* sends it a JOIN.
LEMMA JoinedMoves ==
  ASSUME NEW h, NEW S0, NEW S, S0 \subseteq S, NEW s, HostOK(h, s, S0),
         s.comp # "none", s.fm.st = "none", s.own.num # 0 \/ s.gen < MaxChannels
  PROVE  Moves(h, s, Joined(s), S)
<1> DEFINE j == TxJoin(s, FALSE)
           t == j.s
           y == [t.fm EXCEPT !.st = "WAIT_FOR_ACCEPT"]
           x == [t.lm EXCEPT !.st = "EMPTY"]
           a == [t EXCEPT !.fm = y]
           b == [a EXCEPT !.lm = x]
           r == Joined(s)
<1>1. /\ s \in HostRecords /\ OwnOK(s) /\ CopyOK(s) /\ Backed(h, s, S0)
      /\ s.own.num = 0 /\ s.own.next = 1 /\ s.own.num <= s.gen /\ s.own.oldest <= s.own.rel
      /\ s.gen \in Int /\ NewMember.mid = 0 /\ NoMember.mid = 0 /\ s.copy \in CopyRecords
      /\ NoMember.st = "none"
  BY DEF HostOK, OwnOK, NoOwn, HostRecords, Numbers, NewMember, NoMember
<1>2. /\ t \in HostRecords
      /\ t.comp = s.comp /\ t.lst = s.lst /\ t.reg = s.reg
      /\ t.own.num # 0 /\ t.own.num <= t.gen /\ s.gen <= t.gen
      /\ t.own.next = 2 /\ t.own.oldest <= t.own.rel
      /\ s.gen < t.own.num
      /\ t.fm.mid = 1
      /\ t.copy = [s.copy EXCEPT !.is = TRUE]
      /\ t.lm = IF s.lm.st = "none" THEN NewMember ELSE s.lm
      /\ \E m \in Joins : /\ j.out = {m} /\ m.chan = t.own.num
                          /\ m.total = t.own.total /\ m.rel = t.own.rel
  <2>1. Joining(s, j)
    BY <1>1, TxJoinIs
  <2> HIDE DEF j
  <2>2. QED
    BY <1>1, <2>1 DEF Joining
<1>3. r.s = b /\ r.out = j.out
  <2>1. r.s = [t EXCEPT !.fm.st = "WAIT_FOR_ACCEPT", !.lm.st = "EMPTY"] /\ r.out = j.out
    BY DEF Joined, Result
  <2> HIDE DEF j, r
  <2>2. [t EXCEPT !.fm.st = "WAIT_FOR_ACCEPT", !.lm.st = "EMPTY"] = b
    BY <1>2 DEF HostRecords
  <2>3. QED
    BY <2>1, <2>2
<1> HIDE DEF j, r
<1>4. t.fm \in MemberRecords /\ t.lm \in MemberRecords
      /\ "WAIT_FOR_ACCEPT" \in MemberStates /\ "EMPTY" \in MemberStates
  BY <1>2 DEF HostRecords, MemberStates
<1>5. /\ x \in MemberRecords /\ x.st = "EMPTY" /\ x.mid = t.lm.mid
      /\ y \in MemberRecords /\ y.st = "WAIT_FOR_ACCEPT" /\ y.mid = t.fm.mid
  BY <1>4, MemberSet
<1>6. t.copy.is /\ t.copy.num = s.copy.num
  BY <1>1, <1>2 DEF CopyRecords
<1> HIDE DEF x, y
<1>7. b \in HostRecords
  BY <1>2, <1>5, HostUpdate
<1>8. /\ b.fm = y /\ b.lm = x /\ b.own = t.own /\ b.gen = t.gen /\ b.comp = s.comp
      /\ b.copy = t.copy /\ b.lst = s.lst /\ b.reg = s.reg
  BY <1>2 DEF HostRecords
<1> HIDE DEF b
<1>9. OwnOK(b)
  BY <1>2, <1>5, <1>8 DEF OwnOK
<1>10. CopyOK(b)
  BY <1>1, <1>2, <1>5, <1>6, <1>8 DEF CopyOK
<1>11. Backed(h, b, S)
  BY <1>1, <1>5, <1>6, <1>8 DEF Backed
<1>12. OwnMoves(s, b)
  BY <1>2, <1>8 DEF OwnMoves
<1>13. PICK m \in Joins : /\ j.out = {m} /\ m.chan = b.own.num
                          /\ m.total = b.own.total /\ m.rel = b.own.rel
  BY <1>2, <1>8
<1>14. m.total <= b.own.total /\ m.rel <= b.own.rel /\ m.type # "WRAPPER"
  BY <1>7, <1>13 DEF HostRecords, OwnRecords, Joins
<1>15. MessageOK(h, b, S, m)
  BY <1>9, <1>13, <1>14 DEF MessageOK, OwnOK
<1>16. Moves(h, s, r, S)
  BY <1>3, <1>7, <1>9, <1>10, <1>11, <1>12, <1>13, <1>14, <1>15 DEF Moves
<1>17. QED
  BY <1>16 DEF r

\* A host that knows nothing any more.
LEMMA FreshOK ==
  ASSUME NEW h, NEW S, NEW s \in HostRecords, NEW t \in HostRecords,
         SameOwn(Fresh(s.gen), t), SameCopy(Fresh(s.gen), t)
  PROVE  HostOK(h, t, S) /\ OwnMoves(s, t) /\ t.own.num = 0 /\ t.gen = s.gen
<1>1. s.gen \in Nat
  BY Bounds DEF HostRecords, Numbers
<1>2. /\ t.own = NoOwn /\ t.fm = NoMember /\ t.gen = s.gen
      /\ t.copy = NoCopy /\ t.lm = NoMember /\ t.lst = "none"
  BY DEF SameOwn, SameCopy, Fresh
<1>3. OwnOK(t) /\ CopyOK(t) /\ Backed(h, t, S) /\ OwnMoves(s, t) /\ t.own.num = 0
  BY <1>1, <1>2 DEF OwnOK, CopyOK, Backed, OwnMoves, NoOwn, NoMember, NoCopy
<1>4. QED
  BY <1>2, <1>3 DEF HostOK

Crashed(s) == Result([Fresh(s.gen) EXCEPT !.alive = FALSE], {})

\* A crash empties every record of the host but the channel numbers used.
LEMMA CrashedMoves ==
  ASSUME NEW h, NEW S, NEW s, HostOK(h, s, S)
  PROVE  Moves(h, s, Crashed(s), S)
<1> DEFINE f == Fresh(s.gen)
           t == [f EXCEPT !.alive = FALSE]
           r == Crashed(s)
<1>1. s \in HostRecords /\ f \in HostRecords
  BY RecordTypes DEF HostOK, HostRecords
<1>2. r.s = t /\ r.out = {}
  BY DEF Crashed, Result
<1> HIDE DEF r
<1>3. t \in HostRecords
  BY <1>1, HostUpdate
<1>4. SameOwn(f, t) /\ SameCopy(f, t)
  BY DEF Fresh, SameOwn, SameCopy
<1> HIDE DEF t
<1>5. HostOK(h, t, S) /\ OwnMoves(s, t)
  BY <1>1, <1>3, <1>4, FreshOK
<1>6. Moves(h, s, r, S)
  BY <1>2, <1>5 DEF Moves, HostOK
<1>7. QED
  BY <1>6 DEF r

\* sdt_shutdown.
ShutDown(s) ==
  LET leaving == IF s.lm.st # "none" /\ s.copy.addr THEN {Leaving(s)} ELSE {}
      disconnecting ==
        IF s.fm.st = "CONNECTED" /\ s.copy.is /\ CanSend(s)
          THEN SendDisconnecting(s).out ELSE {}
  IN  Result([Fresh(s.gen) EXCEPT !.alive = FALSE, !.flag = s.flag \/ disconnecting # {}],
             leaving \cup disconnecting)

\* sdt_shutdown says goodbye as far as there are buffers, and every record
\* of the host is gone after it.
LEMMA ShutDownMoves ==
  ASSUME NEW h, NEW S0, NEW S, S0 \subseteq S, NEW s, HostOK(h, s, S0), Told(h, ShutDown(s), S)
  PROVE  Moves(h, s, ShutDown(s), S)
<1> DEFINE leaving == IF s.lm.st # "none" /\ s.copy.addr THEN {Leaving(s)} ELSE {}
           disconnecting ==
             IF s.fm.st = "CONNECTED" /\ s.copy.is /\ CanSend(s)
               THEN SendDisconnecting(s).out ELSE {}
           flag == s.flag \/ disconnecting # {}
           f == Fresh(s.gen)
           a == [f EXCEPT !.alive = FALSE]
           t == [a EXCEPT !.flag = flag]
           r == ShutDown(s)
<1>1. s \in HostRecords /\ f \in HostRecords /\ OwnOK(s) /\ Keeps(s, s) /\ 0 \in Numbers
      /\ s.flag \in BOOLEAN /\ s.own.num <= s.gen
  <2>1. s \in HostRecords /\ OwnOK(s) /\ Keeps(s, s) /\ s.own.num <= s.gen
    BY KeepsItself DEF HostOK, OwnOK
  <2>2. s.gen \in Numbers /\ s.flag \in BOOLEAN
    BY <2>1 DEF HostRecords
  <2>3. 0 \in Numbers
    BY Bounds DEF Numbers
  <2>4. QED
    BY <2>1, <2>2, <2>3, RecordTypes
<1>2. flag \in BOOLEAN
  BY <1>1
<1>3. \A m \in disconnecting :
        /\ m \in Wrappers /\ m.chan = s.own.num /\ m.pdu = "DISCONNECTING"
  <2>1. CASE s.fm.st = "CONNECTED" /\ s.copy.is /\ CanSend(s)
    <3>1. Sent(s, SendDisconnecting(s), "DISCONNECTING", 0)
      BY <1>1, <2>1, SendKeeps, PdusAre DEF SendDisconnecting
    <3>2. QED
      BY <2>1, <3>1 DEF Sent
  <2>2. CASE ~(s.fm.st = "CONNECTED" /\ s.copy.is /\ CanSend(s))
    BY <2>2
  <2>3. QED
    BY <2>1, <2>2
<1> HIDE DEF flag, disconnecting
<1>4. r.s = t /\ r.out = leaving \cup disconnecting
  <2>1. /\ r.s = [f EXCEPT !.alive = FALSE, !.flag = flag]
        /\ r.out = leaving \cup disconnecting
    BY DEF ShutDown, Result, flag, disconnecting
  <2> HIDE DEF f, r
  <2>2. [f EXCEPT !.alive = FALSE, !.flag = flag] = t
    BY <1>1 DEF HostRecords
  <2>3. QED
    BY <2>1, <2>2
<1> HIDE DEF r
<1>5. t \in HostRecords
  BY <1>1, <1>2, HostUpdate
<1>6. SameOwn(f, t) /\ SameCopy(f, t)
  BY DEF Fresh, SameOwn, SameCopy
<1> HIDE DEF t
<1>7. HostOK(h, t, S) /\ OwnMoves(s, t) /\ t.own.num = 0 /\ t.gen = s.gen
  BY <1>1, <1>5, <1>6, FreshOK
<1>8. \A m \in leaving : MessageOK(h, t, S, m) /\ m.type # "WRAPPER"
  BY <1>1, LeavingOK
<1>9. \A m \in disconnecting : MessageOK(h, t, S, m)
  <2> TAKE m \in disconnecting
  <2>1. m \in Wrappers /\ m.chan = s.own.num /\ m.pdu = "DISCONNECTING" /\ m.type = "WRAPPER"
    BY <1>3 DEF Wrappers
  <2>2. <<h, "DISCONNECTING">> \in S
    BY <1>4, <2>1 DEF Told, r
  <2>3. m.chan <= t.gen /\ m.chan # t.own.num
    BY <1>1, <1>7, <2>1 DEF Wrappers
  <2>4. QED
    BY <2>1, <2>2, <2>3 DEF MessageOK
<1>10. Moves(h, s, r, S)
  BY <1>3, <1>4, <1>7, <1>8, <1>9 DEF Moves, HostOK
<1>11. QED
  BY <1>10 DEF r

(***************************************************************************)
(* sdt_rx_join, in the steps in which it builds a session.                 *)
(***************************************************************************)
\* With our channel and the peer's component; with the copy and its listener; with
\* both members.
JoinOwn(s) == [WithOwn(s) EXCEPT !.comp = IF @ = "none" THEN "JOIN" ELSE @]
JoinCopy(s, m) ==
  [JoinOwn(s) EXCEPT !.copy = [is |-> TRUE, num |-> IF s.copy.is THEN s.copy.num ELSE m.chan,
                               total |-> m.total, rel |-> m.rel, addr |-> TRUE],
                     !.lst = "live",
                     !.reg[m.chan] = @ + 1]
JoinBoth(s, m) ==
  [JoinCopy(s, m) EXCEPT
     !.copy.num = m.chan,
     !.lm = [unmarshal_channel_param_block(IF @.st = "none" THEN NewMember ELSE @, m)
               EXCEPT !.mid = m.mid, !.timer = m.params],
     !.fm = IF @.st = "none" THEN NewMember ELSE @]

\* sdt_rx_join's use of our own channel: it is kept if there is one, and is
\* fresh, under a number not used before, if there is none.
LEMMA JoinOwnIs ==
  ASSUME NEW s \in HostRecords, s.own.num <= s.gen, s.own.num # 0 \/ s.gen < MaxChannels
  PROVE  LET o == JoinOwn(s)
         IN  /\ o \in HostRecords
             /\ o.fm = s.fm /\ SameCopy(s, o)
             /\ o.comp = IF s.comp = "none" THEN "JOIN" ELSE s.comp
             /\ o.own.num # 0 /\ o.own.num <= o.gen /\ s.gen <= o.gen
             /\ s.own.num # 0 => o.own = s.own /\ o.gen = s.gen
             /\ s.own.num = 0 => /\ s.gen < o.own.num
                                 /\ o.own.next = 1 /\ o.own.oldest = 0 /\ o.own.rel = 0
<1> DEFINE w == WithOwn(s)
           comp == IF w.comp = "none" THEN "JOIN" ELSE w.comp
           o == [w EXCEPT !.comp = comp]
<1>1. /\ w \in HostRecords
      /\ w.fm = s.fm /\ w.comp = s.comp /\ SameCopy(s, w)
      /\ w.own.num # 0 /\ w.own.num <= w.gen /\ s.gen <= w.gen
      /\ s.own.num # 0 => w = s
      /\ s.own.num = 0 => /\ s.gen < w.own.num
                          /\ w.own.next = 1 /\ w.own.oldest = 0 /\ w.own.rel = 0
  BY WithOwnIs
<1>2. JoinOwn(s) = o
  BY DEF JoinOwn
<1> HIDE DEF w
<1>3. comp \in {"none", "JOIN", "DISC"} /\ comp = IF s.comp = "none" THEN "JOIN" ELSE s.comp
  BY <1>1 DEF HostRecords
<1> HIDE DEF comp
<1>4. o \in HostRecords
  BY <1>1, <1>3, HostUpdate
<1>5. o.fm = w.fm /\ o.own = w.own /\ o.gen = w.gen /\ o.comp = comp /\ SameCopy(w, o)
  BY <1>1 DEF HostRecords, SameCopy
<1> HIDE DEF o
<1>6. QED
  BY <1>1, <1>2, <1>3, <1>4, <1>5 DEF SameCopy

\* A listener more.
LEMMA Counted ==
  ASSUME NEW f \in [1..MaxChannels -> Nat], NEW c \in 1..MaxChannels
  PROVE  LET g == [f EXCEPT ![c] = @ + 1]
         IN  /\ g \in [1..MaxChannels -> Nat]
             /\ g[c] > 0
             /\ \A d \in 1..MaxChannels : g[d] = IF d = c THEN f[d] + 1 ELSE f[d]
             /\ [g EXCEPT ![c] = @ - 1] \in [1..MaxChannels -> Nat]
             /\ \A d \in 1..MaxChannels : [g EXCEPT ![c] = @ - 1][d] = f[d]
<1> DEFINE g == [f EXCEPT ![c] = @ + 1]
<1>1. f[c] \in Nat
  OBVIOUS
<1>2. /\ g \in [1..MaxChannels -> Nat] /\ g[c] = f[c] + 1
      /\ \A d \in 1..MaxChannels : d # c => g[d] = f[d]
  BY <1>1
<1> HIDE DEF g
<1>3. g[c] - 1 = f[c] /\ g[c] > 0
  BY <1>1, <1>2
<1>4. [g EXCEPT ![c] = @ - 1] \in [1..MaxChannels -> Nat]
  BY <1>1, <1>2, <1>3
<1>5. \A d \in 1..MaxChannels : [g EXCEPT ![c] = @ - 1][d] = f[d]
  BY <1>2, <1>3
<1>6. QED
  BY <1>2, <1>3, <1>4, <1>5 DEF g

Built(s, m, x) ==
  /\ x \in HostRecords
  /\ x.comp = IF s.comp = "none" THEN "JOIN" ELSE s.comp
  /\ x.own.num # 0 /\ x.own.num <= x.gen /\ s.gen <= x.gen
  /\ s.own.num # 0 => x.own = s.own /\ x.gen = s.gen /\ x.fm = s.fm
  /\ s.own.num = 0 => /\ s.gen < x.own.num
                      /\ x.own.next = 1 /\ x.own.oldest = 0 /\ x.own.rel = 0
                      /\ x.fm = NewMember
  /\ x.copy.is /\ x.copy.num = m.chan
  /\ x.copy.total = m.total /\ x.copy.rel = m.rel
  /\ x.lm.mid = 1
  /\ x.lm.st = IF s.lm.st = "none" THEN "EMPTY" ELSE s.lm.st
  /\ x.lst = "live"
  /\ x.reg = [s.reg EXCEPT ![m.chan] = @ + 1]

\* sdt_rx_join up to its answer: the component, our channel with a member,
\* the copy of the leader's channel with its numbers, and the listener.
LEMMA JoinBothIs ==
  ASSUME NEW h, NEW S, NEW s, HostOK(h, s, S), s.own.num # 0 \/ s.gen < MaxChannels,
         NEW m \in Joins
  PROVE  Built(s, m, JoinBoth(s, m))
<1> DEFINE o == JoinOwn(s)
           reg == [o.reg EXCEPT ![m.chan] = @ + 1]
           cc == [is |-> TRUE, num |-> IF s.copy.is THEN s.copy.num ELSE m.chan,
                  total |-> m.total, rel |-> m.rel, addr |-> TRUE]
           copy == [cc EXCEPT !.num = m.chan]
           b == IF o.lm.st = "none" THEN NewMember ELSE o.lm
           b1 == [b EXCEPT !.exp = m.params]
           b2 == [b1 EXCEPT !.mid = m.mid]
           lm == [b2 EXCEPT !.timer = m.params]
           fm == IF o.fm.st = "none" THEN NewMember ELSE o.fm
           x1 == [o EXCEPT !.copy = copy]
           x2 == [x1 EXCEPT !.lst = "live"]
           x3 == [x2 EXCEPT !.reg = reg]
           x4 == [x3 EXCEPT !.lm = lm]
           x == [x4 EXCEPT !.fm = fm]
<1>1. /\ s \in HostRecords /\ OwnOK(s) /\ CopyOK(s) /\ s.own.num <= s.gen
      /\ NewMember \in MemberRecords /\ NoMember.st = "none" /\ NewMember.st = "EMPTY"
  BY RecordTypes DEF HostOK, OwnOK, NoMember, NewMember
<1>2. /\ m.chan \in 1..MaxChannels /\ m.mid = 1 /\ m.total \in Nat /\ m.rel \in Nat
      /\ m.params = Long
  BY DEF Joins
<1>3. /\ o \in HostRecords
      /\ o.fm = s.fm /\ SameCopy(s, o)
      /\ o.comp = IF s.comp = "none" THEN "JOIN" ELSE s.comp
      /\ o.own.num # 0 /\ o.own.num <= o.gen /\ s.gen <= o.gen
      /\ s.own.num # 0 => o.own = s.own /\ o.gen = s.gen
      /\ s.own.num = 0 => /\ s.gen < o.own.num
                          /\ o.own.next = 1 /\ o.own.oldest = 0 /\ o.own.rel = 0
  BY <1>1, JoinOwnIs
<1>4. JoinBoth(s, m) = x
  <2> DEFINE c == JoinCopy(s, m)
  <2>1. c = [o EXCEPT !.copy = cc, !.lst = "live", !.reg = reg]
    <3>1. c = [o EXCEPT !.copy = cc, !.lst = "live", !.reg[m.chan] = @ + 1]
      BY DEF JoinCopy
    <3> HIDE DEF o, cc, c
    <3>2. [o EXCEPT !.copy = cc, !.lst = "live", !.reg[m.chan] = @ + 1]
            = [o EXCEPT !.copy = cc, !.lst = "live", !.reg = reg]
      BY <1>3 DEF HostRecords
    <3>3. QED
      BY <3>1, <3>2
  <2>2. [cc EXCEPT !.num = m.chan] = copy
    BY Zenon
  <2>3. JoinBoth(s, m) =
          [c EXCEPT
             !.copy.num = m.chan,
             !.lm = [[(IF @.st = "none" THEN NewMember ELSE @) EXCEPT !.exp = m.params]
                       EXCEPT !.mid = m.mid, !.timer = m.params],
             !.fm = IF @.st = "none" THEN NewMember ELSE @]
    BY DEF JoinBoth, unmarshal_channel_param_block
  <2> HIDE DEF o, cc, c, reg, copy
  <2>4. c.copy = cc /\ c.lm = o.lm /\ c.fm = o.fm
    BY <1>3, <2>1 DEF HostRecords
  <2>5. [c EXCEPT
             !.copy.num = m.chan,
             !.lm = [[(IF @.st = "none" THEN NewMember ELSE @) EXCEPT !.exp = m.params]
                       EXCEPT !.mid = m.mid, !.timer = m.params],
             !.fm = IF @.st = "none" THEN NewMember ELSE @]
          = [c EXCEPT !.copy = copy, !.lm = lm, !.fm = fm]
    <3>1. [b1 EXCEPT !.mid = m.mid, !.timer = m.params] = lm
      <4>1. b \in MemberRecords
        BY <1>1, <1>3 DEF HostRecords
      <4> HIDE DEF b
      <4>2. b1 \in MemberRecords
        BY <1>2, <4>1, MemberUpdate
      <4> HIDE DEF b1
      <4>3. QED
        BY <4>2 DEF MemberRecords
    <3> HIDE DEF lm
    <3>2. QED
      BY <2>2, <2>4, <3>1
  <2> HIDE DEF lm, fm
  <2>6. [c EXCEPT !.copy = copy, !.lm = lm, !.fm = fm] = x
    BY <1>3, <2>1 DEF HostRecords
  <2>7. QED
    BY <2>3, <2>5, <2>6
<1> HIDE DEF o
<1>5. reg \in [1..MaxChannels -> Nat] /\ reg = [s.reg EXCEPT ![m.chan] = @ + 1]
  <2>1. s.reg \in [1..MaxChannels -> Nat] /\ o.reg = s.reg
    BY <1>1, <1>3 DEF HostRecords, SameCopy
  <2>2. [s.reg EXCEPT ![m.chan] = @ + 1] \in [1..MaxChannels -> Nat]
    BY <1>2, <2>1, Counted
  <2>3. QED
    BY <2>1, <2>2
<1>6. copy \in CopyRecords /\ copy.is /\ copy.num = m.chan /\ copy.total = m.total /\ copy.rel = m.rel
  <2>1. m.chan \in Numbers /\ s.copy.num \in Numbers
    BY <1>1, <1>2 DEF HostRecords, CopyRecords, Numbers
  <2>2. cc \in CopyRecords /\ cc.is /\ cc.total = m.total /\ cc.rel = m.rel
    BY <1>2, <2>1 DEF CopyRecords
  <2> HIDE DEF cc
  <2>3. QED
    BY <2>1, <2>2, CopyUpdate DEF CopyRecords
<1>7. lm \in MemberRecords /\ lm.mid = 1 /\ lm.st = IF s.lm.st = "none" THEN "EMPTY" ELSE s.lm.st
  <2>1. b \in MemberRecords /\ b.st = IF s.lm.st = "none" THEN "EMPTY" ELSE s.lm.st
    BY <1>1, <1>3 DEF HostRecords, SameCopy
  <2> HIDE DEF b
  <2>2. b1 \in MemberRecords /\ b1.st = b.st
    BY <1>2, <2>1, MemberUpdate DEF MemberRecords
  <2> HIDE DEF b1
  <2>3. b2 \in MemberRecords /\ b2.st = b.st /\ b2.mid = 1
    BY <1>2, <2>2, MemberUpdate DEF MemberRecords
  <2> HIDE DEF b2
  <2>4. lm \in MemberRecords /\ lm.st = b2.st /\ lm.mid = b2.mid
    BY <1>2, <2>3, RecordTypes, MemberSet
  <2>5. QED
    BY <2>1, <2>3, <2>4
<1>8. /\ fm \in MemberRecords
      /\ s.own.num # 0 => fm = s.fm
      /\ s.own.num = 0 => fm = NewMember
  BY <1>1, <1>3 DEF HostRecords, OwnOK
<1> HIDE DEF reg, copy, lm, fm
<1>9. x \in HostRecords
  <2>1. o \in HostRecords /\ copy \in CopyRecords /\ reg \in [1..MaxChannels -> Nat]
        /\ lm \in MemberRecords /\ fm \in MemberRecords /\ "live" \in {"none", "live", "freed"}
    BY <1>3, <1>5, <1>6, <1>7, <1>8
  <2> HIDE DEF o
  <2>2. x1 \in HostRecords
    BY <2>1, HostUpdate
  <2> HIDE DEF x1
  <2>3. x2 \in HostRecords
    BY <2>1, <2>2, HostUpdate
  <2> HIDE DEF x2
  <2>4. x3 \in HostRecords
    BY <2>1, <2>3, HostUpdate
  <2> HIDE DEF x3
  <2>5. x4 \in HostRecords
    BY <2>1, <2>4, HostUpdate
  <2> HIDE DEF x4
  <2>6. QED
    BY <2>1, <2>5, HostUpdate
<1>10. /\ x.comp = o.comp /\ x.own = o.own /\ x.gen = o.gen /\ x.fm = fm /\ x.copy = copy
       /\ x.lm = lm /\ x.lst = "live" /\ x.reg = reg
  BY <1>3 DEF HostRecords
<1> HIDE DEF x
<1>11. QED
  BY <1>3, <1>4, <1>5, <1>6, <1>7, <1>8, <1>9, <1>10 DEF Built

\* remove_allocations when the copy is of another channel: our own channel goes if
\* it is new.
LEMMA UndoOwnMoves ==
  ASSUME NEW h, NEW S0, NEW S, S0 \subseteq S, NEW s, HostOK(h, s, S0), s.copy.is,
         s.own.num # 0 \/ s.gen < MaxChannels, NEW m \in Joins
  PROVE  /\ Moves(h, s, Result(Undo(s, JoinOwn(s), m.chan, FALSE), {JoinRefuse(m)}), S)
         /\ SameCopy(s, Undo(s, JoinOwn(s), m.chan, FALSE))
<1> DEFINE o == JoinOwn(s)
           t == Undo(s, o, m.chan, FALSE)
           r == Result(t, {JoinRefuse(m)})
<1>1. /\ s \in HostRecords /\ OwnOK(s) /\ CopyOK(s) /\ Backed(h, s, S0)
      /\ s.lm.st # "none" /\ s.comp # "none" /\ s.own.num <= s.gen
      /\ s.own.num \in Int /\ s.own.total \in Int /\ s.own.rel \in Int
      /\ NoOwn.num = 0 /\ NoMember.st = "none"
  BY DEF HostOK, OwnOK, CopyOK, HostRecords, OwnRecords, Numbers, NoOwn, NoMember
<1>2. /\ o \in HostRecords
      /\ o.fm = s.fm /\ SameCopy(s, o)
      /\ o.comp = s.comp
      /\ s.gen <= o.gen
      /\ s.own.num # 0 => o.own = s.own /\ o.gen = s.gen
  BY <1>1, JoinOwnIs
<1>3. t = IF s.own.num = 0 THEN DelOwn(o) ELSE o
  BY <1>1 DEF Undo
<1> HIDE DEF t, o
<1>4. /\ t \in HostRecords /\ t.gen = o.gen /\ t.comp = s.comp /\ SameCopy(s, t)
      /\ s.own.num = 0 => t.own = NoOwn /\ t.fm = NoMember
      /\ s.own.num # 0 => t.own = s.own /\ t.fm = s.fm /\ t.gen = s.gen
  <2>1. CASE s.own.num = 0
    <3>1. t = DelOwn(o)
      BY <1>3, <2>1
    <3>2. /\ t \in HostRecords /\ t.own = NoOwn /\ t.fm = NoMember /\ t.gen = o.gen
          /\ t.comp = o.comp /\ SameCopy(o, t)
      BY <1>2, <3>1, DelOwnIs
    <3>3. QED
      BY <1>2, <2>1, <3>2 DEF SameCopy
  <2>2. CASE s.own.num # 0
    BY <1>2, <1>3, <2>2
  <2>3. QED
    BY <2>1, <2>2
<1>5. OwnOK(t)
  <2>1. CASE s.own.num = 0
    <3>1. NoOwn.oldest <= NoOwn.rel /\ t.gen \in Nat
      BY <1>4, Bounds DEF NoOwn, HostRecords, Numbers
    <3>2. QED
      BY <1>1, <1>4, <2>1, <3>1 DEF OwnOK
  <2>2. CASE s.own.num # 0
    BY <1>1, <1>4, <2>2 DEF OwnOK
  <2>3. QED
    BY <2>1, <2>2
<1>6. CopyOK(t) /\ Backed(h, t, S)
  BY <1>1, <1>4 DEF CopyOK, Backed, SameCopy
<1>7. OwnMoves(s, t)
  BY <1>1, <1>2, <1>4 DEF OwnMoves
<1>8. JoinRefuse(m) \in Refuses /\ JoinRefuse(m).type # "WRAPPER"
  BY DEF JoinRefuse, Refuses, Joins
<1>9. r.s = t /\ r.out = {JoinRefuse(m)}
  BY DEF Result
<1> HIDE DEF r
<1>10. Moves(h, s, r, S)
  BY <1>4, <1>5, <1>6, <1>7, <1>8, <1>9 DEF Moves, MessageOK
<1>11. QED
  BY <1>4, <1>10 DEF r, t, o

\* remove_allocations of a session that was built in full: what was there stays,
\* a copy that was there follows the JOIN all the same.
Undone(s, m, t) ==
  /\ t \in HostRecords
  /\ t.comp = s.comp /\ s.gen <= t.gen
  /\ s.own.num = 0 => t.own = NoOwn /\ t.fm = NoMember
  /\ s.own.num # 0 => t.own = s.own /\ t.fm = s.fm /\ t.gen = s.gen
  /\ ~s.copy.is => t.copy = NoCopy /\ t.lm = NoMember /\ t.lst = "none"
  /\ s.copy.is => /\ t.copy.is /\ t.copy.num = m.chan
                  /\ t.copy.total = m.total /\ t.copy.rel = m.rel
                  /\ t.lm.mid = 1 /\ t.lm.st = s.lm.st /\ t.lst = "freed"
  /\ \A c \in 1..MaxChannels : t.reg[c] = s.reg[c]

\* remove_allocations takes back exactly what sdt_rx_join had made before it
\* failed, in the macro's order.
LEMMA UndoneIs ==
  ASSUME NEW h, NEW S, NEW s, HostOK(h, s, S), s.own.num # 0 \/ s.gen < MaxChannels,
         NEW m \in Joins
  PROVE  Undone(s, m, Undo(s, JoinBoth(s, m), m.chan, TRUE))
<1> DEFINE x == JoinBoth(s, m)
           a == IF s.lm.st = "none" THEN [x EXCEPT !.lm = NoMember] ELSE x
           reg == [a.reg EXCEPT ![m.chan] = @ - 1]
           b1 == [a EXCEPT !.reg = reg]
           b == [b1 EXCEPT !.lst = "freed"]
           c == IF ~s.copy.is THEN DelCopy(b) ELSE b
           d == IF s.comp = "none" THEN DelComp(c) ELSE c
           t == Undo(s, x, m.chan, TRUE)
<1>1. /\ s \in HostRecords /\ OwnOK(s) /\ CopyOK(s)
      /\ m.chan \in 1..MaxChannels
  BY DEF HostOK, Joins
<1>2. /\ x \in HostRecords
      /\ x.comp = IF s.comp = "none" THEN "JOIN" ELSE s.comp
      /\ s.gen <= x.gen
      /\ s.own.num # 0 => x.own = s.own /\ x.gen = s.gen /\ x.fm = s.fm
      /\ x.copy.is /\ x.copy.num = m.chan
      /\ x.copy.total = m.total /\ x.copy.rel = m.rel
      /\ x.lm.mid = 1
      /\ x.lm.st = IF s.lm.st = "none" THEN "EMPTY" ELSE s.lm.st
      /\ x.reg = [s.reg EXCEPT ![m.chan] = @ + 1]
  <2>1. Built(s, m, x)
    BY JoinBothIs
  <2> HIDE DEF x
  <2>2. QED
    BY <2>1 DEF Built
<1> HIDE DEF x
<1>3. t = IF s.own.num = 0 THEN DelOwn(d) ELSE d
  <2>1. [a EXCEPT !.reg[m.chan] = @ - 1, !.lst = "freed"] = b
    <3>1. a \in HostRecords
      BY <1>2, RecordTypes, HostUpdate
    <3> HIDE DEF a
    <3>2. QED
      BY <3>1 DEF HostRecords
  <2>2. t = LET bb == [a EXCEPT !.reg[m.chan] = @ - 1, !.lst = "freed"]
                cc == IF ~s.copy.is THEN DelCopy(bb) ELSE bb
                dd == IF s.comp = "none" THEN DelComp(cc) ELSE cc
            IN  IF s.own.num = 0 THEN DelOwn(dd) ELSE dd
    BY DEF Undo
  <2> HIDE DEF a, b, t
  <2>3. QED
    BY <2>1, <2>2
<1>4. /\ a \in HostRecords
      /\ a.comp = x.comp /\ SameOwn(x, a) /\ a.fm = x.fm /\ a.copy = x.copy /\ a.reg = x.reg
      /\ s.lm.st # "none" => a.lm = x.lm
  <2>1. CASE s.lm.st = "none"
    <3>1. a = [x EXCEPT !.lm = NoMember]
      BY <2>1
    <3>2. a \in HostRecords
      BY <1>2, <3>1, RecordTypes, HostUpdate
    <3> HIDE DEF a
    <3>3. QED
      BY <1>2, <2>1, <3>1, <3>2 DEF HostRecords, SameOwn
  <2>2. CASE s.lm.st # "none"
    BY <1>2, <2>2 DEF SameOwn
  <2>3. QED
    BY <2>1, <2>2
<1> HIDE DEF a, t
<1>5. reg \in [1..MaxChannels -> Nat] /\ \A n \in 1..MaxChannels : reg[n] = s.reg[n]
  <2>1. s.reg \in [1..MaxChannels -> Nat]
    BY <1>1 DEF HostRecords
  <2>2. reg = [[s.reg EXCEPT ![m.chan] = @ + 1] EXCEPT ![m.chan] = @ - 1]
    BY <1>2, <1>4
  <2> HIDE DEF reg
  <2>3. QED
    BY <1>1, <2>1, <2>2, Counted
<1> HIDE DEF reg
<1>6. b \in HostRecords
  BY <1>4, <1>5, HostUpdate
<1>7. /\ b.comp = x.comp /\ SameOwn(x, b) /\ b.copy = x.copy /\ b.reg = reg /\ b.lst = "freed"
      /\ b.lm = a.lm
  BY <1>4 DEF HostRecords, SameOwn
<1> HIDE DEF b
<1>8. /\ c \in HostRecords /\ c.comp = x.comp /\ SameOwn(x, c)
      /\ ~s.copy.is => CopyGone(b, c)
      /\ s.copy.is => SameCopy(b, c)
  <2>1. CASE ~s.copy.is
    <3>1. c \in HostRecords /\ c.comp = b.comp /\ SameOwn(b, c) /\ CopyGone(b, c)
      BY <1>6, <1>7, <2>1, DelCopyIs
    <3>2. QED
      BY <1>7, <2>1, <3>1 DEF SameOwn
  <2>2. CASE s.copy.is
    BY <1>6, <1>7, <2>2 DEF SameOwn, SameCopy
  <2>3. QED
    BY <2>1, <2>2
<1>9. c.lst # "live"
  BY <1>7, <1>8 DEF CopyGone, SameCopy
<1>10. s.comp = "none" => ~s.copy.is /\ s.own.num = 0
  BY <1>1 DEF CopyOK, OwnOK
<1> HIDE DEF c
<1>11. /\ d \in HostRecords /\ d.comp = s.comp /\ d.gen = x.gen
       /\ s.own.num # 0 => d.own = s.own /\ d.fm = s.fm
       /\ ~s.copy.is => d.copy = NoCopy /\ d.lm = NoMember /\ d.lst = "none"
       /\ s.copy.is => SameCopy(b, d)
       /\ \A n \in 1..MaxChannels : d.reg[n] = s.reg[n]
  <2>1. CASE s.comp = "none"
    <3>1. /\ d \in HostRecords /\ d.comp = "none" /\ d.gen = c.gen /\ CopyGone(c, d)
      BY <1>8, <1>9, <2>1, DelCompIs
    <3> HIDE DEF d
    <3>2. \A n \in 1..MaxChannels : d.reg[n] = s.reg[n]
      BY <1>5, <1>7, <1>8, <1>9, <1>10, <2>1, <3>1 DEF CopyGone
    <3>3. QED
      BY <1>8, <1>10, <2>1, <3>1, <3>2 DEF CopyGone, SameOwn
  <2>2. CASE s.comp # "none"
    <3>1. d = c
      BY <2>2
    <3> HIDE DEF d
    <3>2. \A n \in 1..MaxChannels : d.reg[n] = s.reg[n]
      BY <1>5, <1>7, <1>8, <3>1 DEF CopyGone, SameCopy
    <3>3. QED
      BY <1>2, <1>8, <2>2, <3>1, <3>2 DEF CopyGone, SameOwn
  <2>3. QED
    BY <2>1, <2>2
<1> HIDE DEF d
<1>12. /\ t \in HostRecords /\ t.comp = d.comp /\ t.gen = d.gen /\ SameCopy(d, t)
       /\ s.own.num = 0 => t.own = NoOwn /\ t.fm = NoMember
       /\ s.own.num # 0 => t = d
  <2>1. CASE s.own.num = 0
    BY <1>3, <1>11, <2>1, DelOwnIs
  <2>2. CASE s.own.num # 0
    BY <1>3, <1>11, <2>2 DEF SameCopy
  <2>3. QED
    BY <2>1, <2>2
<1>13. s.copy.is => SameCopy(b, t) /\ s.lm.st # "none"
  BY <1>1, <1>11, <1>12 DEF SameCopy, CopyOK
<1>14. s.copy.is => /\ t.copy.is /\ t.copy.num = m.chan
                    /\ t.copy.total = m.total /\ t.copy.rel = m.rel
                    /\ t.lm.mid = 1 /\ t.lm.st = s.lm.st /\ t.lst = "freed"
  BY <1>2, <1>4, <1>7, <1>13 DEF SameCopy
<1>15. /\ ~s.copy.is => t.copy = NoCopy /\ t.lm = NoMember /\ t.lst = "none"
       /\ \A n \in 1..MaxChannels : t.reg[n] = s.reg[n]
  BY <1>11, <1>12 DEF SameCopy
<1>16. QED
  BY <1>2, <1>11, <1>12, <1>14, <1>15 DEF Undone, t, x

\* The answer to a JOIN, once both members exist.
LEMMA AcceptOK ==
  ASSUME NEW h, NEW S, NEW x \in HostRecords, NEW m \in Joins, NEW r, JoinAccept(x, m) \in r.out,
         Told(h, r, S)
  PROVE  /\ <<h, "JOIN", m.chan, 1>> \in S
         /\ JoinAccept(x, m).type # "WRAPPER"
         /\ \A t : MessageOK(h, t, S, JoinAccept(x, m))
<1> DEFINE a == JoinAccept(x, m)
<1>1. m.chan \in 1..MaxChannels /\ m.mid = 1 /\ x.own.num \in Numbers
  BY DEF Joins, HostRecords, OwnRecords
<1>2. a \in Accepts /\ a.type = "JOIN_ACCEPT" /\ a.chan = m.chan /\ a.mid = 1
  BY <1>1 DEF JoinAccept, Accepts
<1> HIDE DEF a
<1>3. <<h, "JOIN", m.chan, 1>> \in S
  BY <1>2 DEF Told, a
<1>4. \A t : MessageOK(h, t, S, a)
  BY <1>2, <1>3 DEF MessageOK
<1>5. QED
  BY <1>2, <1>3, <1>4 DEF a

\* ... a reciprocal JOIN: with an ACK,
JoinAcked(x, m) ==
  Result([SendAck(x).s EXCEPT !.lm.st = "WAIT_FOR_ACK"], {JoinAccept(x, m)} \cup SendAck(x).out)

\* sdt_rx_join of a JOIN that answers our own: it is accepted, an ACK goes out
\* on our channel, and the peer is waited for.
LEMMA JoinAckedMoves ==
  ASSUME NEW h, NEW S0, NEW S, S0 \subseteq S, NEW s, HostOK(h, s, S0),
         NEW m \in Joins, m.recip # 0, m.recip = s.own.num, CanSend(JoinBoth(s, m)),
         Told(h, JoinAcked(JoinBoth(s, m), m), S)
  PROVE  Moves(h, s, JoinAcked(JoinBoth(s, m), m), S)
<1> DEFINE x == JoinBoth(s, m)
           ack == SendAck(x)
           y == [ack.s.lm EXCEPT !.st = "WAIT_FOR_ACK"]
           u == [ack.s EXCEPT !.lm = y]
           r == JoinAcked(x, m)
<1>1. /\ s \in HostRecords /\ OwnOK(s) /\ CopyOK(s) /\ Backed(h, s, S0) /\ s.own.num # 0
      /\ s.comp # "none" /\ s.fm.st \notin {"none", "EMPTY"}
      /\ m.chan \in 1..MaxChannels /\ s.reg \in [1..MaxChannels -> Nat]
  BY DEF HostOK, OwnOK, HostRecords, Joins
<1>2. /\ x \in HostRecords
      /\ x.comp = s.comp /\ x.own = s.own /\ x.gen = s.gen /\ x.fm = s.fm
      /\ x.copy.is /\ x.copy.num = m.chan
      /\ x.lm.mid = 1
      /\ x.lm.st # "none"
      /\ x.lst = "live"
      /\ x.reg = [s.reg EXCEPT ![m.chan] = @ + 1]
  <2>1. Built(s, m, x)
    BY <1>1, JoinBothIs
  <2> HIDE DEF x
  <2>2. QED
    BY <1>1, <2>1 DEF Built
<1>3. r = Result([ack.s EXCEPT !.lm.st = "WAIT_FOR_ACK"], {JoinAccept(x, m)} \cup ack.out)
  BY DEF JoinAcked
<1> HIDE DEF x
<1>4. OwnOK(x)
  BY <1>1, <1>2 DEF OwnOK
<1>5. Keeps(x, x)
  BY <1>1, <1>2, <1>4 DEF Keeps, OwnOK, HostRecords, OwnRecords
<1>6. /\ ack.s \in HostRecords /\ Keeps(x, ack.s) /\ OwnOK(ack.s)
      /\ ack.s.own.num # 0
      /\ ack.s.fm = x.fm /\ ack.s.gen = x.gen /\ ack.s.comp = x.comp /\ SameCopy(x, ack.s)
      /\ \E w \in Wrappers : /\ ack.out = {w}
                             /\ w.chan = x.own.num /\ w.pdu = "ACK"
                             /\ w.total = ack.s.own.total /\ w.rel = ack.s.own.rel
  <2>1. x.copy.num \in Numbers /\ CanSend(x)
    BY <1>2 DEF HostRecords, CopyRecords, x
  <2>2. Sent(x, ack, "ACK", x.copy.num)
    BY <1>2, <1>4, <1>5, <2>1, SendKeeps, PdusAre DEF SendAck
  <2> HIDE DEF ack
  <2>3. QED
    BY <2>2 DEF Sent
<1> HIDE DEF ack, r
<1>7. r.s = u /\ r.out = {JoinAccept(x, m)} \cup ack.out
  <2>1. [ack.s EXCEPT !.lm.st = "WAIT_FOR_ACK"] = u
    BY <1>6 DEF HostRecords
  <2>2. QED
    BY <1>3, <2>1 DEF Result
<1>8. Keeps(ack.s, ack.s)
  BY <1>6, KeepsEnd
<1>9. ack.s.lm \in MemberRecords /\ "WAIT_FOR_ACK" \in MemberStates
      /\ ack.s.lm = x.lm /\ ack.s.copy = x.copy /\ ack.s.lst = x.lst /\ ack.s.reg = x.reg
  BY <1>6 DEF HostRecords, MemberStates, SameCopy
<1>10. y \in MemberRecords /\ y.st = "WAIT_FOR_ACK" /\ y.mid = x.lm.mid
  BY <1>9, MemberSet
<1> HIDE DEF y
<1>11. /\ u \in HostRecords /\ u.lm = y /\ SameOwn(ack.s, u) /\ u.copy = ack.s.copy
       /\ u.comp = ack.s.comp /\ Keeps(ack.s, u)
  BY <1>2, <1>6, <1>8, <1>9, <1>10, LmKeeps
<1> HIDE DEF u
<1>12. OwnOK(u)
  BY <1>6, <1>11 DEF OwnOK, SameOwn
<1>13. CopyOK(u)
  <2>1. u.reg = x.reg /\ u.copy.num = m.chan
    BY <1>2, <1>9, <1>11 DEF Keeps
  <2>2. u.reg[u.copy.num] > 0
    BY <1>1, <1>2, <2>1, Counted
  <2>3. QED
    BY <1>1, <1>2, <1>6, <1>9, <1>10, <1>11, <2>2 DEF CopyOK
<1>14. <<h, "JOIN", m.chan, 1>> \in S /\ JoinAccept(x, m).type # "WRAPPER"
       /\ MessageOK(h, u, S, JoinAccept(x, m))
  <2>1. Told(h, r, S)
    BY DEF r, x
  <2>2. JoinAccept(x, m) \in r.out
    BY <1>7
  <2>3. QED
    BY <1>2, <2>1, <2>2, AcceptOK
<1>15. u.own.num = s.own.num /\ u.fm = s.fm /\ u.copy.num = m.chan
  BY <1>2, <1>6, <1>9, <1>11 DEF SameOwn, Keeps
<1>16. Backed(h, u, S)
  BY <1>1, <1>14, <1>15 DEF Backed
<1>17. OwnMoves(s, u)
  <2>1. s.gen = u.gen /\ s.gen \in Int
    BY <1>1, <1>2, <1>6, <1>11 DEF HostRecords, Numbers, SameOwn
  <2>2. s.own.total <= u.own.total /\ s.own.rel <= u.own.rel
    BY <1>2, <1>6, <1>11 DEF SameOwn, Keeps
  <2>3. QED
    BY <1>15, <2>1, <2>2 DEF OwnMoves
<1>18. \A w \in ack.out : MessageOK(h, u, S, w) /\ w.pdu # "CONNECT_ACCEPT"
  <2>1. PICK w \in Wrappers : /\ ack.out = {w} /\ w.chan = u.own.num /\ w.pdu = "ACK"
                              /\ w.total = u.own.total /\ w.rel = u.own.rel
    BY <1>2, <1>6, <1>11, <1>15 DEF SameOwn
  <2>2. MessageOK(h, u, S, w)
    BY <1>11, <1>12, <2>1, WrapperOK
  <2>3. QED
    BY <2>1, <2>2
<1>19. Moves(h, s, r, S)
  BY <1>7, <1>11, <1>12, <1>13, <1>14, <1>16, <1>17, <1>18 DEF Moves
<1>20. QED
  BY <1>19 DEF r, x

\* ... any other: with a JOIN of our own,
JoinAnswered(x, m) ==
  Result([TxJoin(x, TRUE).s EXCEPT !.lm.st = "WAIT_FOR_ACK", !.fm.st = "WAIT_FOR_ACCEPT"],
         {JoinAccept(x, m)} \cup TxJoin(x, TRUE).out)

\* sdt_rx_join of a JOIN that answers none, on a host without a channel: it is
\* accepted, and answered with a JOIN on a channel just made.
LEMMA JoinAnsweredMoves ==
  ASSUME NEW h, NEW S0, NEW S, S0 \subseteq S, NEW s, HostOK(h, s, S0),
         s.own.num = 0, s.gen < MaxChannels,
         NEW m \in Joins, Told(h, JoinAnswered(JoinBoth(s, m), m), S)
  PROVE  Moves(h, s, JoinAnswered(JoinBoth(s, m), m), S)
<1> DEFINE x == JoinBoth(s, m)
           j == TxJoin(x, TRUE)
           t == j.s
           z == [t.fm EXCEPT !.st = "WAIT_FOR_ACCEPT"]
           y == [t.lm EXCEPT !.st = "WAIT_FOR_ACK"]
           a == [t EXCEPT !.lm = y]
           u == [a EXCEPT !.fm = z]
           r == JoinAnswered(x, m)
<1>1. /\ s \in HostRecords /\ OwnOK(s) /\ CopyOK(s) /\ Backed(h, s, S0)
      /\ m.chan \in 1..MaxChannels /\ s.reg \in [1..MaxChannels -> Nat] /\ s.gen \in Nat
      /\ NewMember.st = "EMPTY" /\ NewMember.mid = 0
  BY Bounds DEF HostOK, OwnOK, HostRecords, Joins, NewMember, Numbers
<1>2. /\ x \in HostRecords
      /\ x.comp # "none"
      /\ x.own.num # 0 /\ x.own.num <= x.gen /\ s.gen <= x.gen
      /\ s.gen < x.own.num
      /\ x.own.next = 1 /\ x.own.oldest = 0 /\ x.own.rel = 0
      /\ x.copy.is /\ x.copy.num = m.chan
      /\ x.lm.mid = 1
      /\ x.lm.st # "none"
      /\ x.lst = "live"
      /\ x.reg = [s.reg EXCEPT ![m.chan] = @ + 1]
  <2>1. Built(s, m, x)
    BY <1>1, JoinBothIs
  <2> HIDE DEF x
  <2>2. QED
    BY <1>1, <2>1 DEF Built
<1>3. /\ r.s = [t EXCEPT !.lm.st = "WAIT_FOR_ACK", !.fm.st = "WAIT_FOR_ACCEPT"]
      /\ r.out = {JoinAccept(x, m)} \cup j.out
  BY DEF JoinAnswered, Result
<1> HIDE DEF x
<1>4. /\ t \in HostRecords
      /\ t.comp = x.comp /\ t.lst = x.lst /\ t.reg = x.reg
      /\ t.own.num # 0 /\ t.own.num <= t.gen /\ x.gen <= t.gen
      /\ t.own.next = 2 /\ t.own.oldest <= t.own.rel
      /\ t.own.num = x.own.num
      /\ t.fm.mid = 1
      /\ t.copy = [x.copy EXCEPT !.is = TRUE]
      /\ t.lm = x.lm
      /\ \E w \in Joins : /\ j.out = {w} /\ w.chan = t.own.num
                          /\ w.total = t.own.total /\ w.rel = t.own.rel
  <2>1. x.own.oldest <= x.own.rel
    BY <1>2
  <2>2. Joining(x, j)
    BY <1>2, <2>1, TxJoinIs
  <2> HIDE DEF j
  <2>3. QED
    BY <1>2, <2>2 DEF Joining
<1> HIDE DEF j, r
<1>5. r.s = u
  BY <1>3, <1>4 DEF HostRecords
<1>6. t.fm \in MemberRecords /\ t.lm \in MemberRecords
      /\ "WAIT_FOR_ACCEPT" \in MemberStates /\ "WAIT_FOR_ACK" \in MemberStates
  BY <1>4 DEF HostRecords, MemberStates
<1>7. /\ y \in MemberRecords /\ y.st = "WAIT_FOR_ACK" /\ y.mid = t.lm.mid
      /\ z \in MemberRecords /\ z.st = "WAIT_FOR_ACCEPT" /\ z.mid = t.fm.mid
  BY <1>6, MemberSet
<1>8. t.copy.is /\ t.copy.num = m.chan
  BY <1>2, <1>4 DEF HostRecords, CopyRecords
<1> HIDE DEF y, z
<1>9. u \in HostRecords
  BY <1>4, <1>7, HostUpdate
<1>10. /\ u.fm = z /\ u.lm = y /\ u.own = t.own /\ u.gen = t.gen /\ u.comp = t.comp
       /\ u.copy = t.copy /\ u.lst = t.lst /\ u.reg = t.reg
  BY <1>4 DEF HostRecords
<1> HIDE DEF u
<1>11. OwnOK(u)
  BY <1>2, <1>4, <1>7, <1>10 DEF OwnOK
<1>12. CopyOK(u)
  <2>1. u.reg[u.copy.num] > 0
    <3>1. u.reg = [s.reg EXCEPT ![m.chan] = @ + 1] /\ u.copy.num = m.chan
      BY <1>2, <1>4, <1>8, <1>10
    <3>2. QED
      BY <1>1, <3>1, Counted
  <2>2. QED
    BY <1>1, <1>2, <1>4, <1>7, <1>8, <1>10, <2>1 DEF CopyOK
<1>13. <<h, "JOIN", m.chan, 1>> \in S /\ JoinAccept(x, m).type # "WRAPPER"
       /\ MessageOK(h, u, S, JoinAccept(x, m))
  <2>1. Told(h, r, S)
    BY DEF r, x
  <2>2. JoinAccept(x, m) \in r.out
    BY <1>3
  <2>3. QED
    BY <1>2, <2>1, <2>2, AcceptOK
<1>14. Backed(h, u, S)
  BY <1>7, <1>8, <1>10, <1>13 DEF Backed
<1>15. OwnMoves(s, u)
  <2>1. s.gen \in Int /\ x.gen \in Int /\ t.gen \in Int
    BY <1>1, <1>2, <1>4 DEF HostRecords, Numbers
  <2>2. s.gen <= u.gen /\ s.gen < u.own.num
    BY <1>2, <1>4, <1>10, <2>1
  <2>3. QED
    BY <2>2 DEF OwnMoves
<1>16. \A w \in j.out : MessageOK(h, u, S, w) /\ w.type # "WRAPPER"
  <2>1. PICK w \in Joins : /\ j.out = {w} /\ w.chan = u.own.num
                           /\ w.total = u.own.total /\ w.rel = u.own.rel
    BY <1>4, <1>10
  <2>2. w.total <= u.own.total /\ w.rel <= u.own.rel /\ w.type # "WRAPPER"
    BY <1>9, <2>1 DEF HostRecords, OwnRecords, Joins
  <2>3. MessageOK(h, u, S, w)
    BY <1>11, <2>1, <2>2 DEF MessageOK, OwnOK
  <2>4. QED
    BY <2>1, <2>2, <2>3
<1>17. Moves(h, s, r, S)
  BY <1>3, <1>5, <1>9, <1>11, <1>12, <1>13, <1>14, <1>15, <1>16 DEF Moves
<1>18. QED
  BY <1>17 DEF r, x

\* ... and when the members are in other states, with nothing built.
LEMMA AcceptAndUndoMoves ==
  ASSUME NEW h, NEW S0, NEW S, S0 \subseteq S, NEW s, HostOK(h, s, S0),
         s.own.num # 0 \/ s.gen < MaxChannels,
         NEW m \in Joins, Told(h, AcceptAndUndo(s, JoinBoth(s, m), m), S)
  PROVE  Moves(h, s, AcceptAndUndo(s, JoinBoth(s, m), m), S)
<1> DEFINE x == JoinBoth(s, m)
           t == Undo(s, x, m.chan, TRUE)
           r == AcceptAndUndo(s, x, m)
<1>0. x \in HostRecords
  <2>1. Built(s, m, x)
    BY JoinBothIs
  <2> HIDE DEF x
  <2>2. QED
    BY <2>1 DEF Built
<1>1. /\ s \in HostRecords /\ OwnOK(s) /\ CopyOK(s) /\ Backed(h, s, S0)
      /\ m.chan \in 1..MaxChannels /\ s.gen \in Nat
      /\ s.own.num \in Int /\ s.own.total \in Int /\ s.own.rel \in Int
      /\ NoOwn.num = 0 /\ NoMember.st = "none" /\ NoOwn.oldest <= NoOwn.rel
      /\ NoCopy.is = FALSE /\ NoCopy.num = 0 /\ NoMember.mid = 0
  BY Bounds DEF HostOK, HostRecords, OwnRecords, Joins, Numbers, NoOwn, NoMember, NoCopy
<1>2. /\ t \in HostRecords
      /\ t.comp = s.comp /\ s.gen <= t.gen
      /\ s.own.num = 0 => t.own = NoOwn /\ t.fm = NoMember
      /\ s.own.num # 0 => t.own = s.own /\ t.fm = s.fm /\ t.gen = s.gen
      /\ ~s.copy.is => t.copy = NoCopy /\ t.lm = NoMember /\ t.lst = "none"
      /\ s.copy.is => /\ t.copy.is /\ t.copy.num = m.chan
                      /\ t.lm.mid = 1 /\ t.lm.st = s.lm.st /\ t.lst = "freed"
  <2>1. Undone(s, m, t)
    BY UndoneIs
  <2> HIDE DEF t
  <2>2. QED
    BY <2>1 DEF Undone
<1>3. r.s = t /\ r.out = {JoinAccept(x, m)}
  BY DEF AcceptAndUndo, Result
<1> HIDE DEF t, r, x
<1>4. OwnOK(t)
  <2>1. t.gen \in Nat
    BY <1>2, Bounds DEF HostRecords, Numbers
  <2>2. QED
    BY <1>1, <1>2, <2>1 DEF OwnOK
<1>5. CopyOK(t)
  BY <1>1, <1>2 DEF CopyOK
<1>6. <<h, "JOIN", m.chan, 1>> \in S /\ JoinAccept(x, m).type # "WRAPPER"
      /\ MessageOK(h, t, S, JoinAccept(x, m))
  <2>1. Told(h, r, S)
    BY DEF r, x
  <2>2. JoinAccept(x, m) \in r.out
    BY <1>3
  <2>3. QED
    BY <1>0, <2>1, <2>2, AcceptOK
<1>7. Backed(h, t, S)
  BY <1>1, <1>2, <1>6 DEF Backed
<1>8. OwnMoves(s, t)
  BY <1>1, <1>2 DEF OwnMoves
<1>9. Moves(h, s, r, S)
  BY <1>2, <1>3, <1>4, <1>5, <1>6, <1>7, <1>8 DEF Moves
<1>10. QED
  BY <1>9 DEF r, x

\* sdt_rx_join: of its three refusals, the last is never reached, as a local member
\* with a number has the first.
JoinOutcome(s, m) ==
  \/ /\ m.recip # 0 /\ m.recip # s.own.num
     /\ RxJoin(s, m) = Result(s, {JoinRefuse(m)})
  \/ /\ s.copy.is /\ s.copy.num \notin {0, m.chan}
     /\ RxJoin(s, m) = Result(Undo(s, JoinOwn(s), m.chan, FALSE), {JoinRefuse(m)})
  \/ /\ m.recip # 0 /\ m.recip = s.own.num /\ CanSend(JoinBoth(s, m))
     /\ s.lm.st \in {"none", "EMPTY"}
     /\ s.copy.num \in {0, m.chan}
     /\ RxJoin(s, m) = JoinAcked(JoinBoth(s, m), m)
  \/ /\ m.recip = 0 /\ s.own.num = 0 /\ s.gen < MaxChannels
     /\ s.lm.st \in {"none", "EMPTY"}
     /\ s.copy.num \in {0, m.chan}
     /\ RxJoin(s, m) = JoinAnswered(JoinBoth(s, m), m)
  \/ /\ s.copy.num \in {0, m.chan}
     /\ RxJoin(s, m) = AcceptAndUndo(s, JoinBoth(s, m), m)

\* sdt_rx_join ends in one of the outcomes listed: drop, refuse, accept and
\* acknowledge, accept and answer, or take everything back.
LEMMA RxJoinIs ==
  ASSUME NEW h, NEW S, NEW s, HostOK(h, s, S), s.own.num # 0 \/ s.gen < MaxChannels,
         NEW m \in Joins
  PROVE  JoinOutcome(s, m)
<1> DEFINE x == JoinBoth(s, m)
           c == JoinCopy(s, m)
<1>1. /\ s \in HostRecords /\ OwnOK(s) /\ CopyOK(s) /\ m.mid = 1 /\ NewMember.st = "EMPTY"
      /\ NoCopy.num = 0 /\ NoMember.st = "none"
  BY DEF HostOK, Joins, NewMember, NoCopy, NoMember
<1>2. RxJoin(s, m) =
        IF m.recip # 0 /\ m.recip # s.own.num
          THEN Result(s, {JoinRefuse(m)})
        ELSE IF s.copy.is /\ s.copy.num \notin {0, m.chan}
          THEN Result(Undo(s, JoinOwn(s), m.chan, FALSE), {JoinRefuse(m)})
        ELSE IF s.lm.st # "none" /\ c.copy.num # 0 /\ s.lm.mid # m.mid
          THEN Result(Undo(s, c, m.chan, TRUE), {JoinRefuse(m)})
        ELSE JoinSession(s, x, m)
  BY DEF RxJoin, JoinOwn, JoinCopy, JoinBoth
<1>3. s.lm.st # "none" /\ c.copy.num # 0 => s.lm.mid = m.mid
  <2>1. s.lm.st # "none" => s.copy.is
    BY <1>1 DEF CopyOK
  <2>2. JoinOwn(s) \in HostRecords
    BY <1>1, JoinOwnIs DEF OwnOK
  <2>3. s.copy.is => c.copy.num = s.copy.num
    BY <2>2 DEF JoinCopy, HostRecords
  <2>4. QED
    BY <1>1, <2>1, <2>3 DEF CopyOK
<1>4. /\ x.lm.st = IF s.lm.st = "none" THEN "EMPTY" ELSE s.lm.st
      /\ s.own.num # 0 => x.fm = s.fm
  <2>1. Built(s, m, x)
    BY JoinBothIs
  <2> HIDE DEF x
  <2>2. QED
    BY <2>1 DEF Built
<1>5. s.own.num # 0 => s.fm.st # "EMPTY"
  BY <1>1 DEF OwnOK
<1>6. ~s.copy.is => s.copy.num = 0
  BY <1>1 DEF CopyOK
<1>7. JoinSession(s, x, m) =
        CASE m.recip # 0 /\ x.fm.st = "WAIT_FOR_ACK" /\ x.lm.st = "EMPTY" /\ CanSend(x) ->
               JoinAcked(x, m)
          [] m.recip = 0 /\ x.fm.st = "EMPTY" /\ x.lm.st = "EMPTY" -> JoinAnswered(x, m)
          [] OTHER -> AcceptAndUndo(s, x, m)
  BY DEF JoinSession, JoinAcked, JoinAnswered
<1> HIDE DEF x, c
<1>8. CASE m.recip # 0 /\ m.recip # s.own.num
  BY <1>2, <1>8 DEF JoinOutcome
<1>9. CASE ~(m.recip # 0 /\ m.recip # s.own.num) /\ s.copy.is /\ s.copy.num \notin {0, m.chan}
  BY <1>2, <1>9 DEF JoinOutcome
<1>10. CASE ~(m.recip # 0 /\ m.recip # s.own.num) /\ ~(s.copy.is /\ s.copy.num \notin {0, m.chan})
  <2>1. RxJoin(s, m) = JoinSession(s, x, m) /\ s.copy.num \in {0, m.chan}
    BY <1>2, <1>3, <1>6, <1>10
  <2>2. CASE m.recip # 0 /\ x.fm.st = "WAIT_FOR_ACK" /\ x.lm.st = "EMPTY" /\ CanSend(x)
    <3>1. JoinSession(s, x, m) = JoinAcked(x, m)
      BY <1>7, <2>2
    <3>2. QED
      BY <1>4, <1>10, <2>1, <2>2, <3>1 DEF x, JoinOutcome
  <2>3. CASE m.recip = 0 /\ x.fm.st = "EMPTY" /\ x.lm.st = "EMPTY"
    <3>1. JoinSession(s, x, m) = JoinAnswered(x, m)
      BY <1>7, <2>3
    <3>2. QED
      BY <1>4, <1>5, <2>1, <2>3, <3>1 DEF x, JoinOutcome
  <2>4. CASE /\ ~(m.recip # 0 /\ x.fm.st = "WAIT_FOR_ACK" /\ x.lm.st = "EMPTY" /\ CanSend(x))
             /\ ~(m.recip = 0 /\ x.fm.st = "EMPTY" /\ x.lm.st = "EMPTY")
    <3>1. JoinSession(s, x, m) = AcceptAndUndo(s, x, m)
      BY <1>7, <2>4
    <3>2. QED
      BY <2>1, <3>1 DEF x, JoinOutcome
  <2>5. QED
    BY <2>2, <2>3, <2>4
<1>11. QED
  BY <1>8, <1>9, <1>10

\* sdt_rx_join is a sound move, whichever way it ends.
LEMMA RxJoinMoves ==
  ASSUME NEW h, NEW S0, NEW S, S0 \subseteq S, NEW s, HostOK(h, s, S0),
         s.own.num # 0 \/ s.gen < MaxChannels, NEW m \in Joins, Told(h, RxJoin(s, m), S)
  PROVE  Moves(h, s, RxJoin(s, m), S)
<1>1. CASE RxJoin(s, m) = Result(s, {JoinRefuse(m)})
  <2>1. JoinRefuse(m) \in Refuses /\ JoinRefuse(m).type # "WRAPPER"
    BY DEF JoinRefuse, Refuses, Joins
  <2>2. MessageOK(h, s, S, JoinRefuse(m))
    BY <2>1 DEF MessageOK
  <2>3. QED
    BY <1>1, <2>1, <2>2, StaysMoves
<1>2. CASE /\ s.copy.is
            /\ RxJoin(s, m) = Result(Undo(s, JoinOwn(s), m.chan, FALSE), {JoinRefuse(m)})
  BY <1>2, UndoOwnMoves
<1>3. CASE /\ m.recip # 0 /\ m.recip = s.own.num /\ CanSend(JoinBoth(s, m))
           /\ RxJoin(s, m) = JoinAcked(JoinBoth(s, m), m)
  BY <1>3, JoinAckedMoves
<1>4. CASE /\ s.own.num = 0 /\ s.gen < MaxChannels
           /\ RxJoin(s, m) = JoinAnswered(JoinBoth(s, m), m)
  BY <1>4, JoinAnsweredMoves
<1>5. CASE RxJoin(s, m) = AcceptAndUndo(s, JoinBoth(s, m), m)
  BY <1>5, AcceptAndUndoMoves
<1>6. QED
  BY <1>1, <1>2, <1>3, <1>4, <1>5, RxJoinIs DEF JoinOutcome

(***************************************************************************)
(* Both hosts and the network.                                             *)
(***************************************************************************)
LEMMA PeerIs ==
  \A h \in Hosts : /\ Peer(h) \in Hosts /\ Peer(h) # h /\ Peer(Peer(h)) = h
                   /\ \A g \in Hosts : g = h \/ g = Peer(h)
<1>1. PICK a \in Hosts, b \in Hosts : a # b /\ Hosts = {a, b}
  BY TwoHosts
<1>2. \A h \in Hosts : \E p \in Hosts : p # h
  BY <1>1
<1>3. \A h \in Hosts : Peer(h) \in Hosts /\ Peer(h) # h
  BY <1>2 DEF Peer
<1>4. QED
  BY <1>1, <1>3

\* What was right to send stays right, however its sender moves on.
LEMMA MessageLater ==
  ASSUME NEW h, NEW s \in HostRecords, NEW t \in HostRecords, OwnMoves(s, t),
         NEW S0, NEW S, S0 \subseteq S, NEW m, MessageOK(h, s, S0, m)
  PROVE  MessageOK(h, t, S, m)
<1>1. /\ s.gen \in Int /\ t.gen \in Int /\ s.own.num \in Int /\ t.own.num \in Int
      /\ s.own.total \in Int /\ t.own.total \in Int /\ s.own.rel \in Int /\ t.own.rel \in Int
      /\ s.gen <= t.gen
  BY DEF HostRecords, OwnRecords, Numbers, OwnMoves
<1>2. ASSUME m.chan \in 1..MaxChannels, m.total \in Nat, m.rel \in Nat, m.chan <= s.gen,
             m.chan = s.own.num => m.total <= s.own.total /\ m.rel <= s.own.rel
      PROVE  /\ m.chan <= t.gen
             /\ m.chan = t.own.num => m.total <= t.own.total /\ m.rel <= t.own.rel
  <2>1. m.chan <= t.gen
    BY <1>1, <1>2
  <2>2. CASE m.chan # t.own.num
    BY <2>1, <2>2
  <2>3. CASE m.chan = t.own.num
    <3>1. /\ t.own.num = s.own.num
          /\ s.own.total <= t.own.total /\ s.own.rel <= t.own.rel
      BY <1>1, <1>2, <2>3 DEF OwnMoves
    <3>2. m.total <= t.own.total /\ m.rel <= t.own.rel
      BY <1>1, <1>2, <2>3, <3>1
    <3>3. QED
      BY <2>1, <3>2
  <2>4. QED
    BY <2>2, <2>3
<1>3. CASE m \in Joins
  <2>1. m.chan \in 1..MaxChannels /\ m.total \in Nat /\ m.rel \in Nat /\ m.type = "JOIN"
    BY <1>3 DEF Joins
  <2>2. /\ m.chan <= s.gen
        /\ m.chan = s.own.num => m.total <= s.own.total /\ m.rel <= s.own.rel
    BY <2>1 DEF MessageOK, Accepts, Refuses, Leavings, Wrappers
  <2>3. QED
    BY <1>2, <1>3, <2>1, <2>2 DEF MessageOK
<1>4. CASE m \in Wrappers
  <2>1. m.chan \in 1..MaxChannels /\ m.total \in Nat /\ m.rel \in Nat /\ m.type = "WRAPPER"
    BY <1>4 DEF Wrappers
  <2>2. /\ m.chan <= s.gen
        /\ m.chan = s.own.num => m.total <= s.own.total /\ m.rel <= s.own.rel
        /\ m.pdu = "CONNECT_ACCEPT" => <<h, "CONNECT", m.assoc, 1>> \in S0 /\ m.assoc # 0
        /\ m.pdu = "DISCONNECTING" => <<h, "DISCONNECTING">> \in S0
    BY <2>1 DEF MessageOK, Accepts, Refuses, Leavings, Joins
  <2>3. QED
    BY <1>2, <1>4, <2>1, <2>2 DEF MessageOK
<1>5. QED
  BY <1>3, <1>4 DEF MessageOK

\* A step in which one host moves soundly, and the network keeps no more than
\* it had and was given, keeps the inductive invariant.
LEMMA MoveIInv ==
  ASSUME IInv, NEW h \in Hosts, NEW r, Moves(h, host[h], r, said'), said \subseteq said',
         host' = [host EXCEPT ![h] = r.s],
         \A p \in net' : p \in net \/ \E m \in r.out : p = [from |-> h, body |-> m],
         ConnectAfterJoin(said'), crashes' \in 0..MaxCrashes
  PROVE  IInv'
<1>1. /\ host \in [Hosts -> HostRecords] /\ host[h] \in HostRecords /\ r.s \in HostRecords
      /\ OwnMoves(host[h], r.s)
  BY DEF IInv, HostsOK, Moves
<1>2. /\ host' \in [Hosts -> HostRecords] /\ host'[h] = r.s
      /\ \A g \in Hosts : g # h => host'[g] = host[g]
  BY <1>1
<1>3. \A g \in Hosts : OwnOK(host'[g]) /\ CopyOK(host'[g]) /\ Backed(g, host'[g], said')
  <2> TAKE g \in Hosts
  <2>1. CASE g = h
    BY <1>2, <2>1 DEF Moves
  <2>2. CASE g # h
    BY <1>2, <2>2 DEF IInv, HostsOK, Backed
  <2>3. QED
    BY <2>1, <2>2
<1>4. ASSUME NEW p \in net'
      PROVE  /\ p.from \in Hosts
             /\ p = [from |-> p.from, body |-> p.body]
             /\ MessageOK(p.from, host'[p.from], said', p.body)
  <2>1. CASE p \in net
    <3>1. /\ p.from \in Hosts /\ p = [from |-> p.from, body |-> p.body]
          /\ MessageOK(p.from, host[p.from], said, p.body)
      BY <2>1 DEF IInv, NetOK
    <3>2. host[p.from] \in HostRecords /\ host'[p.from] \in HostRecords
      BY <1>1, <1>2, <3>1
    <3>3. OwnMoves(host[p.from], host'[p.from])
      <4>1. CASE p.from = h
        BY <1>1, <1>2, <4>1
      <4>2. CASE p.from # h
        BY <1>2, <3>1, <3>2, <4>2 DEF OwnMoves, HostRecords, OwnRecords, Numbers
      <4>3. QED
        BY <4>1, <4>2
    <3>4. QED
      BY <3>1, <3>2, <3>3, MessageLater
  <2>2. CASE \E m \in r.out : p = [from |-> h, body |-> m]
    <3>1. PICK m \in r.out : p = [from |-> h, body |-> m]
      BY <2>2
    <3>2. p.from = h /\ p.body = m /\ p = [from |-> p.from, body |-> p.body]
      BY <3>1
    <3>3. QED
      BY <1>2, <3>2 DEF Moves
  <2>3. QED
    BY <2>1, <2>2
<1>5. HostsOK' /\ NetOK'
  BY <1>2, <1>3, <1>4 DEF HostsOK, NetOK
<1>6. QED
  BY <1>5 DEF IInv

\* Acceptances are only ever added to the history.
LEMMA StepTells ==
  ASSUME NEW h, NEW r, NEW rest, Step(h, r, rest)
  PROVE  said \subseteq said' /\ Told(h, r, said')
<1> DEFINE accepts == {<<h, "JOIN", m.chan, m.mid>> : m \in {x \in r.out : x.type = "JOIN_ACCEPT"}}
           connects == {<<h, "CONNECT", m.assoc, r.s.lm.mid>> :
                          m \in {x \in r.out : x.type = "WRAPPER" /\ x.pdu = "CONNECT_ACCEPT"}}
           leaves == {<<h, "DISCONNECTING">> :
                        m \in {x \in r.out : x.type = "WRAPPER" /\ x.pdu = "DISCONNECTING"}}
<1>1. said' = said \cup accepts \cup connects \cup leaves
  BY DEF Step
<1>2. ASSUME NEW x \in r.out
      PROVE  /\ x.type = "JOIN_ACCEPT" => <<h, "JOIN", x.chan, x.mid>> \in accepts
             /\ x.type = "WRAPPER" /\ x.pdu = "CONNECT_ACCEPT" =>
                  <<h, "CONNECT", x.assoc, r.s.lm.mid>> \in connects
             /\ x.type = "WRAPPER" /\ x.pdu = "DISCONNECTING" => <<h, "DISCONNECTING">> \in leaves
  OBVIOUS
<1> HIDE DEF accepts, connects, leaves
<1>3. QED
  BY <1>1, <1>2 DEF Told

\* A step of a host, on what the network then holds.
LEMMA StepIInv ==
  ASSUME IInv, NEW h \in Hosts, NEW r, NEW rest \in SUBSET net, Step(h, r, rest),
         Moves(h, host[h], r, said')
  PROVE  IInv'
<1>1. said \subseteq said'
  BY StepTells
<1>2. host' = [host EXCEPT ![h] = r.s] /\ crashes' = crashes
  BY DEF Step
<1>3. \A p \in net' : p \in net \/ \E m \in r.out : p = [from |-> h, body |-> m]
  BY DEF Step
<1>4. ConnectAfterJoin(said')
  <2> SUFFICES ASSUME NEW g \in Hosts, NEW c \in 1..MaxChannels, <<g, "CONNECT", c, 1>> \in said'
               PROVE  <<g, "JOIN", c, 1>> \in said'
    BY DEF ConnectAfterJoin
  <2>1. CASE <<g, "CONNECT", c, 1>> \in said
    BY <1>1, <2>1 DEF IInv, ConnectAfterJoin
  <2>2. CASE <<g, "CONNECT", c, 1>> \notin said
    <3>1. PICK m \in r.out : /\ m.type = "WRAPPER" /\ m.pdu = "CONNECT_ACCEPT"
                             /\ <<g, "CONNECT", c, 1>> = <<h, "CONNECT", m.assoc, r.s.lm.mid>>
      BY <2>2 DEF Step
    <3>2. g = h /\ c = host[h].copy.num /\ c # 0
      BY <3>1 DEF Moves
    <3>3. QED
      BY <1>1, <3>2 DEF IInv, HostsOK, Backed
  <2>3. QED
    BY <2>1, <2>2
<1>5. crashes' \in 0..MaxCrashes
  BY <1>2 DEF IInv
<1>6. QED
  BY <1>1, <1>2, <1>3, <1>4, <1>5, MoveIInv

\* What a host receives, its peer may have sent.
LEMMA Received ==
  ASSUME IInv, NEW h \in Hosts, NEW p \in net, p.from = Peer(h)
  PROVE  /\ p.body.type = "JOIN" => p.body \in Joins
         /\ p.body.type = "JOIN_ACCEPT" =>
              p.body \in Accepts /\ <<Peer(h), "JOIN", p.body.chan, 1>> \in said
         /\ p.body.type = "WRAPPER" => p.body \in Wrappers /\ WrapperTrue(h, said, p.body)
<1>1. MessageOK(Peer(h), host[Peer(h)], said, p.body)
  BY DEF IInv, NetOK
<1>2. QED
  BY <1>1 DEF MessageOK, WrapperTrue, Joins, Accepts, Refuses, Leavings, Wrappers

\* Receiving a message adds nothing to the network.
LEMMA RemainsIs ==
  ASSUME NEW h, NEW p, NEW rest \in Remains(h, p)
  PROVE  rest \in SUBSET net
BY DEF Remains

\* The invariant read for one host.
LEMMA HostOf ==
  ASSUME IInv, NEW h \in Hosts
  PROVE  HostOK(h, host[h], said)
BY DEF IInv, HostsOK, HostOK

\* Every action is one of the handlers above.
LEMMA ReceiveIInv ==
  ASSUME IInv, NEW h \in Hosts, NEW p \in net,
         \/ RxJoinStep(h, p) \/ RxJoinAcceptStep(h, p) \/ RxJoinRefuseStep(h, p)
         \/ RxLeavingStep(h, p) \/ RxWrapperStep(h, p)
  PROVE  IInv'
<1> DEFINE s == host[h]
           m == p.body
<1>1. HostOK(h, s, said)
  BY HostOf
<1>2. CASE RxJoinStep(h, p)
  <2>1. PICK rest \in Remains(h, p) : Step(h, RxJoin(s, m), rest)
    BY <1>2 DEF RxJoinStep, Receive
  <2>2. m \in Joins /\ (s.own.num # 0 \/ s.gen < MaxChannels)
    BY <1>2, Received DEF RxJoinStep, Receive
  <2>3. said \subseteq said' /\ Told(h, RxJoin(s, m), said')
    BY <2>1, StepTells
  <2>4. Moves(h, s, RxJoin(s, m), said')
    BY <1>1, <2>2, <2>3, RxJoinMoves
  <2>5. QED
    BY <2>1, <2>4, RemainsIs, StepIInv
<1>3. CASE RxJoinAcceptStep(h, p)
  <2>1. PICK rest \in Remains(h, p) : Step(h, RxJoinAccept(s, m), rest)
    BY <1>3 DEF RxJoinAcceptStep, Receive
  <2>2. m \in Accepts /\ <<Peer(h), "JOIN", m.chan, 1>> \in said
    BY <1>3, Received DEF RxJoinAcceptStep, Receive
  <2>3. said \subseteq said'
    BY <2>1, StepTells
  <2>4. Moves(h, s, RxJoinAccept(s, m), said')
    BY <1>1, <2>2, <2>3, RxJoinAcceptMoves
  <2>5. QED
    BY <2>1, <2>4, RemainsIs, StepIInv
<1>4. CASE RxJoinRefuseStep(h, p)
  <2>1. PICK rest \in Remains(h, p) : Step(h, RxJoinRefuse(s, m), rest)
    BY <1>4 DEF RxJoinRefuseStep, Receive
  <2>2. said \subseteq said'
    BY <2>1, StepTells
  <2>3. Moves(h, s, RxJoinRefuse(s, m), said')
    BY <1>1, <2>2, RxJoinRefuseMoves
  <2>4. QED
    BY <2>1, <2>3, RemainsIs, StepIInv
<1>5. CASE RxLeavingStep(h, p)
  <2>1. PICK rest \in Remains(h, p) : Step(h, RxLeaving(s, m), rest)
    BY <1>5 DEF RxLeavingStep, Receive
  <2>2. said \subseteq said'
    BY <2>1, StepTells
  <2>3. Moves(h, s, RxLeaving(s, m), said')
    BY <1>1, <2>2, RxLeavingMoves
  <2>4. QED
    BY <2>1, <2>3, RemainsIs, StepIInv
<1>6. CASE RxWrapperStep(h, p)
  <2>1. PICK rest \in Remains(h, p) : Step(h, RxWrapper(s, m), rest)
    BY <1>6 DEF RxWrapperStep, Receive
  <2>2. m \in Wrappers /\ WrapperTrue(h, said, m)
    BY <1>6, Received DEF RxWrapperStep, Receive
  <2>3. said \subseteq said' /\ Told(h, RxWrapper(s, m), said')
    BY <2>1, StepTells
  <2>4. Moves(h, s, RxWrapper(s, m), said')
    BY <1>1, <2>2, <2>3, RxWrapperMoves
  <2>5. QED
    BY <2>1, <2>4, RemainsIs, StepIInv
<1>7. QED
  BY <1>2, <1>3, <1>4, <1>5, <1>6

\* What a host does by itself, without a message, keeps the inductive
\* invariant: the timer, discovery and the application's calls.
LEMMA OwnStepIInv ==
  ASSUME IInv, NEW h \in Hosts,
         \/ Tick(h) \/ Discover(h) \/ Join(h) \/ JoinAgain(h) \/ Leave(h)
         \/ \E response \in BOOLEAN : TxData(h, response)
         \/ Shutdown(h)
  PROVE  IInv'
<1> DEFINE s == host[h]
<1>1. HostOK(h, s, said)
  BY HostOf
<1>2. ASSUME NEW r, Step(h, r, net), Moves(h, s, r, said')
      PROVE  IInv'
  BY <1>2, StepIInv
<1>3. CASE Tick(h)
  <2>1. Step(h, Ticked(s), net)
    BY <1>3 DEF Tick, Ticked
  <2>2. said \subseteq said'
    BY <2>1, StepTells
  <2>3. QED
    BY <1>1, <1>2, <2>1, <2>2, TickMoves
<1>4. CASE Discover(h)
  <2>1. Step(h, Result([s EXCEPT !.comp = "DISC"], {}), net)
    BY <1>4 DEF Discover
  <2>2. said \subseteq said'
    BY <2>1, StepTells
  <2>3. QED
    BY <1>1, <1>2, <2>1, <2>2, DiscoverMoves
<1>5. CASE Join(h)
  <2>1. Step(h, Joined(s), net)
    BY <1>5 DEF Join, Joined
  <2>2. said \subseteq said'
    BY <2>1, StepTells
  <2>3. Moves(h, s, Joined(s), said')
    BY <1>1, <1>5, <2>2, JoinedMoves DEF Join
  <2>4. QED
    BY <1>2, <2>1, <2>3
<1>6. CASE JoinAgain(h)
  <2>1. Step(h, Result([s EXCEPT !.locked = TRUE], {}), net)
    BY <1>6 DEF JoinAgain
  <2>2. said \subseteq said'
    BY <2>1, StepTells
  <2>3. QED
    BY <1>1, <1>2, <2>1, <2>2, JoinAgainMoves
<1>7. CASE Leave(h)
  <2>1. Step(h, Left(s), net) /\ CanSend(s)
    BY <1>7 DEF Leave, Left
  <2>2. said \subseteq said'
    BY <2>1, StepTells
  <2>3. Moves(h, s, Left(s), said')
    BY <1>1, <2>1, <2>2, LeftMoves
  <2>4. QED
    BY <1>2, <2>1, <2>3
<1>8. CASE \E response \in BOOLEAN : TxData(h, response)
  <2>1. PICK response \in BOOLEAN : TxData(h, response)
    BY <1>8
  <2>2. /\ Step(h, SendWrapper(s, TRUE, "DATA", IF response THEN s.copy.num ELSE 0), net)
        /\ CanSend(s)
    BY <2>1 DEF TxData
  <2>3. said \subseteq said'
    BY <2>2, StepTells
  <2>4. Moves(h, s, SendWrapper(s, TRUE, "DATA", IF response THEN s.copy.num ELSE 0), said')
    BY <1>1, <2>2, <2>3, TxDataMoves
  <2>5. QED
    BY <1>2, <2>2, <2>4
<1>9. CASE Shutdown(h)
  <2>1. Step(h, ShutDown(s), net)
    BY <1>9 DEF Shutdown, ShutDown
  <2>2. said \subseteq said' /\ Told(h, ShutDown(s), said')
    BY <2>1, StepTells
  <2>3. Moves(h, s, ShutDown(s), said')
    BY <1>1, <2>2, ShutDownMoves
  <2>4. QED
    BY <1>2, <2>1, <2>3
<1>10. QED
  BY <1>3, <1>4, <1>5, <1>6, <1>7, <1>8, <1>9

\* A crash and a restart keep the inductive invariant.
LEMMA CrashRestartIInv ==
  ASSUME IInv, NEW h \in Hosts, Crash(h) \/ Restart(h)
  PROVE  IInv'
<1> DEFINE s == host[h]
           a == Crashed(s)
           b == Result([s EXCEPT !.alive = TRUE], {})
<1>1. HostOK(h, s, said) /\ host \in [Hosts -> HostRecords]
  BY HostOf DEF IInv, HostsOK
<1>2. CASE Crash(h)
  <2>1. host' = [host EXCEPT ![h] = a.s] /\ net' = net /\ said' = said
    BY <1>2 DEF Crash, Crashed, Result
  <2>2. crashes' \in 0..MaxCrashes
    BY <1>2, Bounds DEF Crash, IInv
  <2>3. Moves(h, s, a, said')
    BY <1>1, <2>1, CrashedMoves
  <2> HIDE DEF a
  <2>4. QED
    BY <2>1, <2>2, <2>3, MoveIInv DEF IInv
<1>3. CASE Restart(h)
  <2>1. host' = [host EXCEPT ![h] = b.s] /\ net' = net /\ said' = said /\ crashes' = crashes
    BY <1>1, <1>3 DEF Restart, Result
  <2>2. Moves(h, s, b, said')
    BY <1>1, <2>1, RestartMoves
  <2> HIDE DEF b
  <2>3. QED
    BY <2>1, <2>2, MoveIInv DEF IInv
<1>4. QED
  BY <1>2, <1>3

\* Two hosts without records and an empty network satisfy it.
LEMMA InitIInv ==
  ASSUME Init
  PROVE  IInv
<1>1. 0 \in Numbers
  BY Bounds DEF Numbers
<1>2. Fresh(0) \in HostRecords /\ Fresh(0).gen = 0
  BY <1>1, RecordTypes DEF Fresh
<1>3. \A h \in Hosts : HostOK(h, Fresh(0), said)
  <2>1. SameOwn(Fresh(0), Fresh(0)) /\ SameCopy(Fresh(0), Fresh(0))
    BY DEF SameOwn, SameCopy
  <2>2. QED
    BY <1>2, <2>1, FreshOK
<1>4. host = [h \in Hosts |-> Fresh(0)] /\ net = {} /\ crashes = 0 /\ said = {}
  BY DEF Init
<1>5. HostsOK
  BY <1>2, <1>3, <1>4 DEF HostsOK, HostOK
<1>6. NetOK /\ ConnectAfterJoin(said) /\ crashes \in 0..MaxCrashes
  BY <1>4, Bounds DEF NetOK, ConnectAfterJoin
<1>7. QED
  BY <1>5, <1>6 DEF IInv

\* The invariant above is one.
THEOREM SessionInvariant == Spec => []IInv
<1>1. Init => IInv
  BY InitIInv
<1>2. IInv /\ [Next]_vars => IInv'
  <2> SUFFICES ASSUME IInv, [Next]_vars
               PROVE  IInv'
    OBVIOUS
  <2>1. CASE Next
    <3>1. PICK h \in Hosts :
            \/ \E p \in net : \/ RxJoinStep(h, p) \/ RxJoinAcceptStep(h, p)
                              \/ RxJoinRefuseStep(h, p) \/ RxLeavingStep(h, p)
                              \/ RxWrapperStep(h, p)
            \/ Tick(h) \/ Discover(h) \/ Join(h) \/ JoinAgain(h) \/ Leave(h)
            \/ \E response \in BOOLEAN : TxData(h, response)
            \/ Shutdown(h) \/ Crash(h) \/ Restart(h)
      BY <2>1 DEF Next
    <3>2. QED
      BY <3>1, ReceiveIInv, OwnStepIInv, CrashRestartIInv
  <2>2. CASE UNCHANGED vars
    BY <2>2 DEF vars, IInv, HostsOK, NetOK
  <2>3. QED
    BY <2>1, <2>2
<1>3. QED
  BY <1>1, <1>2, PTL DEF Spec

\* Type correctness: no member without its channel, no channel of the peer without
\* its component, whatever the network delivers (sdt.h, component.h).
THEOREM SessionTypes == Spec => []TypeOK
<1>1. IInv => TypeOK
  <2> SUFFICES ASSUME IInv
               PROVE  TypeOK
    OBVIOUS
  <2>1. ASSUME NEW h \in Hosts
        PROVE  LET s == host[h] IN
               /\ s.fault \in {"none", "assert", "null"}
               /\ s.comp \in {"none", "JOIN", "DISC"}
               /\ s.own.num \in 0..MaxChannels /\ s.gen \in 0..MaxChannels
               /\ s.own.total \in 0..MaxSeq /\ s.own.oldest <= s.own.rel
               /\ s.fm \in MemberRecords /\ s.lm \in MemberRecords
               /\ s.lst \in {"none", "live", "freed"}
               /\ \A c \in DOMAIN s.reg : s.reg[c] \in Nat
               /\ s.own.num = 0 => s.fm = NoMember
               /\ ~s.copy.is => s.lm = NoMember /\ s.copy = NoCopy
               /\ s.comp = "none" => ~s.copy.is
    BY HostOf DEF HostOK, HostRecords, OwnRecords, Numbers, OwnOK, CopyOK
  <2>2. QED
    BY <2>1 DEF TypeOK, IInv
<1>2. QED
  BY <1>1, SessionInvariant, PTL

\* A leader never takes a peer for joined or connected that did not accept this very
\* channel (sdt_rx_join_accept, sdt_rx_ack, sdt_rx_connect_accept).
THEOREM SessionsAgreed == Spec => []PeerAgreed
<1>1. IInv => PeerAgreed
  <2> SUFFICES ASSUME IInv, NEW h \in Hosts
               PROVE  LET s == host[h] IN
                      /\ s.fm.st \in {"JOINED", "CONNECTED"} =>
                           \/ <<Peer(h), "JOIN", s.own.num, s.fm.mid>> \in said
                           \/ s.fm.st = "JOINED" /\ <<Peer(h), "DISCONNECTING">> \in said
                      /\ s.fm.st = "CONNECTED" =>
                           <<Peer(h), "CONNECT", s.own.num, s.fm.mid>> \in said
    BY DEF PeerAgreed
  <2> DEFINE s == host[h]
  <2>1. OwnOK(s) /\ Backed(h, s, said) /\ s.own.num \in Numbers
    BY HostOf DEF HostOK, HostRecords, OwnRecords
  <2>2. s.fm.st \in {"JOINED", "CONNECTED"} => s.own.num \in 1..MaxChannels /\ s.fm.mid = 1
    BY <2>1 DEF OwnOK, NoMember, Numbers
  <2>3. <<Peer(h), "CONNECT", s.own.num, 1>> \in said /\ s.own.num \in 1..MaxChannels =>
          <<Peer(h), "JOIN", s.own.num, 1>> \in said
    BY PeerIs DEF IInv, ConnectAfterJoin
  <2>4. QED
    BY <2>1, <2>2, <2>3 DEF Backed
<1>2. QED
  BY <1>1, SessionInvariant, PTL

\* sdt_tick leaves no half-deleted session behind.
THEOREM TicksCollect == Spec => TickCollects
<1> DEFINE Collects ==
      \A h \in Hosts : Tick(h) =>
        LET s == host'[h] IN
        /\ s.own.num # 0 <=> s.fm.st # "none"
        /\ s.comp = "JOIN" => s.copy.is
<1>1. IInv => [Collects]_vars
  <2> SUFFICES ASSUME IInv, NEW h \in Hosts, Tick(h)
               PROVE  LET s == host'[h] IN
                      /\ s.own.num # 0 <=> s.fm.st # "none"
                      /\ s.comp = "JOIN" => s.copy.is
    OBVIOUS
  <2>1. Step(h, Ticked(host[h]), net)
    BY DEF Tick, Ticked
  <2>2. host'[h] = Ticked(host[h]).s
    BY <2>1 DEF Step, IInv, HostsOK
  <2>3. QED
    BY <2>2, HostOf, TickMoves
<1>2. QED
  BY <1>1, SessionInvariant, PTL DEF TickCollects


(***************************************************************************)
(* A network that delivers nothing twice.                                  *)
(***************************************************************************)
\* Nothing that h keeps of the peer's channel changes, unless it goes altogether.
Quiet(s, t) ==
  \/ /\ t.copy.num = s.copy.num /\ t.copy.total = s.copy.total /\ t.copy.rel = s.copy.rel
     /\ t.lst = s.lst /\ t.reg = s.reg
     /\ t.lm.st \in Hearing => s.lm.st \in Hearing
  \/ CopyGone(s, t)
  \/ /\ t.copy = NoCopy /\ t.lm = NoMember /\ t.lst = "none"
     /\ \A c \in 1..MaxChannels : t.reg[c] = 0

NoJoin(r) == \A m \in r.out : m.type # "JOIN"

\* What holds with one network holds with less of it.
LEMMA OnceLess ==
  ASSUME NEW h, NEW s, NEW q, NEW N, OnceAt(h, s, q, N), NEW M \in SUBSET N
  PROVE  OnceAt(h, s, q, M)
BY DEF OnceAt

\* A quiet step keeps it.
LEMMA QuietOnce ==
  ASSUME NEW h, NEW s \in HostRecords, NEW t \in HostRecords, NEW q \in HostRecords, NEW N,
         OnceAt(h, s, q, N), Quiet(s, t),
         \A p \in N : p.from = Peer(h) /\ p.body.type = "JOIN" => p.body.chan # 0
  PROVE  OnceAt(h, t, q, N)
<1>1. /\ NoCopy.num = 0 /\ NoMember.st \notin Hearing /\ 0 <= q.gen
      /\ s.reg \in [1..MaxChannels -> Nat] /\ s.copy.num \in Numbers
  <2>1. NoCopy.num = 0 /\ NoMember.st \notin Hearing
    BY DEF NoCopy, NoMember, Hearing
  <2>2. q.gen \in Numbers /\ s.reg \in [1..MaxChannels -> Nat] /\ s.copy \in CopyRecords
    BY DEF HostRecords
  <2>3. s.copy.num \in Numbers
    BY <2>2 DEF CopyRecords
  <2>4. 0 <= q.gen
    BY <2>2, Bounds DEF Numbers
  <2>5. QED
    BY <2>1, <2>2, <2>3, <2>4
<1>2. CASE /\ t.copy.num = s.copy.num /\ t.copy.total = s.copy.total /\ t.copy.rel = s.copy.rel
           /\ t.lst = s.lst /\ t.reg = s.reg
           /\ t.lm.st \in Hearing => s.lm.st \in Hearing
  BY <1>2 DEF OnceAt
<1>3. CASE CopyGone(s, t)
  <2>1. \A c \in 1..MaxChannels : t.reg[c] = 0
    BY <1>3 DEF CopyGone, OnceAt
  <2>2. QED
    BY <1>1, <1>3, <2>1 DEF CopyGone, OnceAt
<1>4. CASE /\ t.copy = NoCopy /\ t.lm = NoMember /\ t.lst = "none"
           /\ \A c \in 1..MaxChannels : t.reg[c] = 0
  BY <1>1, <1>4 DEF OnceAt
<1>5. QED
  BY <1>2, <1>3, <1>4 DEF Quiet

\* Records of which one has the other's copy, and whose member hears no more.
LEMMA SameIsQuiet ==
  ASSUME NEW s, NEW t, CopyKept(s, t), t.lm.st \in Hearing => s.lm.st \in Hearing
  PROVE  Quiet(s, t)
BY DEF CopyKept, Quiet

\* A wrapper that goes out leaves the copy alone.
LEMMA SendCopy ==
  ASSUME NEW s, DOMAIN s = DOMAIN Fresh(0), NEW reliable, NEW pdu, NEW assoc
  PROVE  LET r == SendWrapper(s, reliable, pdu, assoc)
         IN  SameCopy(s, r.s) /\ DOMAIN r.s = DOMAIN s /\ NoJoin(r)
<1> DEFINE c == IF reliable THEN s.own.rel + 1 ELSE s.own.rel
           old == CASE ~reliable -> s.own.oldest
                    [] reliable /\ ~s.flag -> c
                    [] reliable /\ s.flag ->
                         IF c - s.own.oldest = SDT_MAX_RESENDS
                           THEN c - SDT_MAX_RESENDS + 1 ELSE s.own.oldest
           o == [s.own EXCEPT !.total = @ + 1, !.rel = c, !.oldest = old]
           m == [type |-> "WRAPPER", chan |-> o.num, total |-> o.total, rel |-> c,
                 oldest |-> old, reliable |-> reliable,
                 mid |-> s.fm.mid, assoc |-> assoc, pdu |-> pdu]
           t == [s EXCEPT !.own = o, !.flag = @ \/ reliable]
           r == SendWrapper(s, reliable, pdu, assoc)
<1>1. r = [s |-> t, out |-> {m}]
  BY DEF SendWrapper, Result
<1> HIDE DEF r
<1>2. m.type = "WRAPPER"
  OBVIOUS
<1> HIDE DEF o, m
<1>3. SameCopy(s, t) /\ DOMAIN t = DOMAIN s
  BY DEF SameCopy, Fresh
<1> HIDE DEF t
<1>4. SameCopy(s, r.s) /\ DOMAIN r.s = DOMAIN s /\ NoJoin(r)
  BY <1>1, <1>2, <1>3 DEF NoJoin, SameCopy
<1>5. QED
  BY <1>4 DEF r

\* Nor do the wrappers that SDT sends of itself.
LEMMA SendsCopy ==
  ASSUME NEW s, DOMAIN s = DOMAIN Fresh(0),
         NEW r, r \in {SendAck(s), SendConnect(s), SendLeave(s), SendDisconnecting(s)}
  PROVE  SameCopy(s, r.s) /\ DOMAIN r.s = DOMAIN Fresh(0) /\ NoJoin(r)
<1>1. PICK reliable, pdu, assoc : r = SendWrapper(s, reliable, pdu, assoc)
  BY Zenon DEF SendAck, SendConnect, SendLeave, SendDisconnecting
<1>2. LET w == SendWrapper(s, reliable, pdu, assoc)
      IN  SameCopy(s, w.s) /\ DOMAIN w.s = DOMAIN s /\ NoJoin(w)
  BY SendCopy
<1>3. QED
  BY <1>1, <1>2

\* sdt_client_rx_handler and the tail of sdt_rx_wrapper: the copy stays.
LEMMA DispatchCopy ==
  ASSUME NEW s \in HostRecords, NEW pdu \in Pdus
  PROVE  CopyKept(s, Dispatch(s, pdu).s) /\ NoJoin(Dispatch(s, pdu))
<1>1. CopyKept(s, RxAck(s).s) /\ NoJoin(RxAck(s))
  <2> DEFINE joined(x) == IF x.st = "WAIT_FOR_ACK" THEN [x EXCEPT !.st = "JOINED"] ELSE x
             t == [s EXCEPT !.fm = joined([@ EXCEPT !.timer = Off]), !.lm = joined(@)]
  <2>1. CopyKept(s, t)
    BY DEF CopyKept, HostRecords
  <2>2. CopyKept(s, SendConnect(t).s) /\ NoJoin(SendConnect(t))
    <3>1. DOMAIN t = DOMAIN Fresh(0)
      BY DEF HostRecords, Fresh
    <3> HIDE DEF t
    <3>2. SameCopy(t, SendConnect(t).s) /\ NoJoin(SendConnect(t))
      BY <3>1, SendsCopy
    <3>3. QED
      BY <2>1, <3>2 DEF SameCopy, CopyKept
  <2>3. RxAck(s) \in {Result(s, {}), SendConnect(t), Result(t, {})}
    BY DEF RxAck
  <2> HIDE DEF t
  <2>4. QED
    BY <2>1, <2>2, <2>3 DEF CopyKept, NoJoin, Result
<1>2. CopyKept(s, RxLeave(s).s) /\ NoJoin(RxLeave(s))
  BY DEF RxLeave, Leaving, CopyKept, NoJoin, Result, HostRecords
<1>3. CopyKept(s, RxConnect(s).s) /\ NoJoin(RxConnect(s))
  BY DEF RxConnect, SendConnectAccept, SendWrapper, CopyKept, NoJoin, Result, HostRecords
<1>4. CopyKept(s, RxConnectAccept(s).s) /\ NoJoin(RxConnectAccept(s))
  BY DEF RxConnectAccept, CopyKept, NoJoin, Result, HostRecords
<1>5. CopyKept(s, RxDisconnecting(s).s) /\ NoJoin(RxDisconnecting(s))
  BY DEF RxDisconnecting, CopyKept, NoJoin, Result, HostRecords
<1>6. CopyKept(s, Result(s, {}).s) /\ NoJoin(Result(s, {}))
  BY DEF CopyKept, NoJoin, Result
<1>7. QED
  BY <1>1, <1>2, <1>3, <1>4, <1>5, <1>6 DEF Dispatch, Pdus


\* The PDUs of a wrapper that was accepted change neither the listeners nor
\* the copy's number, and send no JOIN.
LEMMA HandOnCopy ==
  ASSUME NEW s \in HostRecords, NEW w \in Wrappers
  PROVE  CopyKept(s, HandOn(s, w).s) /\ NoJoin(HandOn(s, w))
<1> DEFINE t == [s EXCEPT !.lm.timer = s.lm.exp]
<1>1. w.pdu \in Pdus
  BY DEF Wrappers
<1>2. CASE s.lm.st = "none"
  BY <1>2 DEF HandOn, Result, CopyKept, NoJoin
<1>3. CASE s.lm.st # "none"
  <2>1. t \in HostRecords /\ CopyKept(s, t)
    <3>1. s.lm \in MemberRecords /\ s.lm.exp \in Off..Long
      BY RecordTypes DEF HostRecords, MemberRecords
    <3>2. [s.lm EXCEPT !.timer = s.lm.exp] \in MemberRecords
      BY <3>1, MemberSet
    <3>3. t = [s EXCEPT !.lm = [s.lm EXCEPT !.timer = s.lm.exp]]
      BY DEF HostRecords
    <3>4. t \in HostRecords
      BY <3>2, <3>3, HostUpdate
    <3>5. QED
      BY <3>4 DEF HostRecords, CopyKept
  <2>2. HandOn(s, w) \in {Result(t, {}), Dispatch(t, w.pdu),
                          Result([t EXCEPT !.alive = FALSE, !.fault = "null"], {})}
    <3> HIDE DEF t
    <3>1. QED
      BY <1>3 DEF HandOn, t
  <2> HIDE DEF t
  <2>3. CopyKept(t, Dispatch(t, w.pdu).s) /\ NoJoin(Dispatch(t, w.pdu))
    BY <1>1, <2>1, DispatchCopy
  <2>4. CopyKept(s, Dispatch(t, w.pdu).s)
    BY <2>1, <2>3 DEF CopyKept
  <2>5. CopyKept(s, [t EXCEPT !.alive = FALSE, !.fault = "null"])
    BY <2>1 DEF CopyKept, HostRecords
  <2>6. QED
    BY <2>1, <2>2, <2>3, <2>4, <2>5 DEF Result, NoJoin
<1>4. QED
  BY <1>2, <1>3

\* sdt_rx_wrapper: what it hears it hears on the only listener, which is that of the
\* copy, and from the channel that the copy is of.
LEMMA RxWrapperOnce ==
  ASSUME NEW h, NEW s \in HostRecords, NEW q \in HostRecords, NEW N, CopyOK(s),
         OnceAt(h, s, q, N), NEW w \in Wrappers,
         w.chan = q.own.num => w.total <= q.own.total /\ w.rel <= q.own.rel
  PROVE  OnceAt(h, RxWrapper(s, w).s, q, N) /\ NoJoin(RxWrapper(s, w))
<1> DEFINE verdict == check_sequence(s.copy, w)
           moved == [s EXCEPT !.copy.total = w.total, !.copy.rel = w.rel]
           r == RxWrapper(s, w)
<1>1. CASE s.reg[w.chan] = 0 \/ ~s.copy.is
  BY <1>1 DEF RxWrapper, Result, NoJoin
<1>2. CASE ~(s.reg[w.chan] = 0 \/ ~s.copy.is)
  <2>1. s.lst = "live" /\ s.copy.num = w.chan
    BY <1>2 DEF OnceAt, Wrappers
  <2>2. ASSUME NEW t, CopyKept(s, t)
        PROVE  OnceAt(h, t, q, N)
    BY <2>1, <2>2 DEF CopyKept, OnceAt
  <2>3. verdict \in {"SEQ_DUPLICATE", "SEQ_VALID", "SEQ_LOST", "SEQ_NAK"}
    BY DEF check_sequence
  <2>4. CASE verdict = "SEQ_VALID"
    <3>1. r = HandOn(moved, w)
      <4> HIDE DEF moved
      <4>1. QED
        BY <1>2, <2>4 DEF RxWrapper, moved
    <3>2. w.total \in Nat /\ w.rel \in Nat
      BY DEF Wrappers
    <3>3. /\ moved \in HostRecords
          /\ moved.copy.num = s.copy.num /\ moved.copy.total = w.total
          /\ moved.copy.rel = w.rel /\ moved.lst = s.lst /\ moved.reg = s.reg
      <4> DEFINE c1 == [s.copy EXCEPT !.total = w.total]
                 c2 == [c1 EXCEPT !.rel = w.rel]
      <4>1. s.copy \in CopyRecords
        BY DEF HostRecords
      <4>2. moved = [s EXCEPT !.copy = c2]
        BY <4>1 DEF HostRecords, CopyRecords
      <4>3. c1 \in CopyRecords /\ c1.num = s.copy.num /\ c1.total = w.total
        BY <3>2, <4>1, CopyUpdate DEF CopyRecords
      <4> HIDE DEF c1
      <4>4. /\ c2 \in CopyRecords /\ c2.num = s.copy.num /\ c2.total = w.total
            /\ c2.rel = w.rel
        BY <3>2, <4>3, CopyUpdate DEF CopyRecords
      <4> HIDE DEF c2, moved
      <4>5. moved \in HostRecords
        BY <4>2, <4>4, HostUpdate
      <4>6. QED
        BY <4>2, <4>4, <4>5 DEF HostRecords
    <3> HIDE DEF moved
    <3>4. CopyKept(moved, r.s) /\ NoJoin(r)
      BY <3>1, <3>3, HandOnCopy
    <3>5. QED
      BY <2>1, <3>3, <3>4 DEF CopyKept, OnceAt
  <2>5. CASE verdict = "SEQ_NAK"
    <3>1. r = IF w.reliable THEN Result(s, {}) ELSE HandOn(s, w)
      BY <1>2, <2>5 DEF RxWrapper
    <3>2. CopyKept(s, HandOn(s, w).s) /\ NoJoin(HandOn(s, w))
      BY HandOnCopy
    <3>3. CopyKept(s, r.s) /\ NoJoin(r)
      BY <3>1, <3>2 DEF Result, CopyKept, NoJoin
    <3>4. QED
      BY <2>2, <3>3
  <2>6. CASE verdict \in {"SEQ_DUPLICATE", "SEQ_LOST"}
    <3>1. r \in {Result(s, {}), Result([s EXCEPT !.lm.st = "DELETE"], {Leaving(s)})}
      BY <1>2, <2>6 DEF RxWrapper
    <3>2. CopyKept(s, s) /\ CopyKept(s, [s EXCEPT !.lm.st = "DELETE"])
      BY DEF CopyKept, HostRecords
    <3>3. CopyKept(s, r.s) /\ NoJoin(r)
      BY <3>1, <3>2 DEF Result, NoJoin, Leaving
    <3>4. QED
      BY <2>2, <3>3
  <2>7. QED
    BY <2>3, <2>4, <2>5, <2>6
<1>3. QED
  BY <1>1, <1>2


\* The other handlers, and what the host does of its own accord: all are quiet.
LEMMA QuietHandlers ==
  ASSUME NEW s \in HostRecords, NEW m
  PROVE  /\ Quiet(s, RxJoinAccept(s, m).s) /\ NoJoin(RxJoinAccept(s, m))
         /\ Quiet(s, RxJoinRefuse(s, m).s) /\ NoJoin(RxJoinRefuse(s, m))
         /\ Quiet(s, RxLeaving(s, m).s) /\ NoJoin(RxLeaving(s, m))
<1>1. ASSUME NEW t, SameCopy(s, t)
      PROVE  Quiet(s, t)
  BY <1>1 DEF SameCopy, Quiet
<1>2. SameCopy(s, s) /\ SameCopy(s, [s EXCEPT !.fm.st = "DELETE"])
  BY DEF SameCopy, HostRecords
<1>3. Quiet(s, RxJoinRefuse(s, m).s) /\ NoJoin(RxJoinRefuse(s, m))
  BY <1>1, <1>2 DEF RxJoinRefuse, Result, NoJoin
<1>4. Quiet(s, RxLeaving(s, m).s) /\ NoJoin(RxLeaving(s, m))
  BY <1>1, <1>2 DEF RxLeaving, Result, NoJoin
<1>5. Quiet(s, RxJoinAccept(s, m).s) /\ NoJoin(RxJoinAccept(s, m))
  <2> DEFINE first == [s EXCEPT !.fm.st = "WAIT_FOR_ACK"]
             armed(x) == [x EXCEPT !.fm.timer = Long]
             ack == SendAck(s)
             late == [ack.s EXCEPT !.fm.st = "WAIT_FOR_ACK"]
  <2>1. SameCopy(s, ack.s) /\ NoJoin(ack) /\ DOMAIN ack.s = DOMAIN Fresh(0)
    <3>1. DOMAIN s = DOMAIN Fresh(0)
      BY DEF HostRecords, Fresh
    <3>2. QED
      BY <3>1, SendsCopy
  <2>2. RxJoinAccept(s, m) \in {Result(s, {}), Result(armed(first), {}),
                                Result(armed(late), ack.out), Result(armed(s), {})}
    <3> HIDE DEF ack
    <3>1. QED
      BY DEF RxJoinAccept, ack
  <2>3. SameCopy(s, armed(first)) /\ SameCopy(s, armed(s))
    BY DEF SameCopy, HostRecords
  <2>4. SameCopy(s, armed(late))
    <3> HIDE DEF ack
    <3>1. QED
      BY <2>1 DEF SameCopy, Fresh
  <2> HIDE DEF ack, first, armed, late
  <2>5. QED
    BY <1>1, <1>2, <2>1, <2>2, <2>3, <2>4 DEF Result, NoJoin
<1>6. QED
  BY <1>3, <1>4, <1>5


\* sdt_tick leaves no listener without its channel, makes no copy, and
\* sends no JOIN.
LEMMA QuietTick ==
  ASSUME NEW h, NEW S, NEW s, HostOK(h, s, S)
  PROVE  Quiet(s, Ticked(s).s) /\ NoJoin(Ticked(s))
<1> DEFINE p == TickPeer(s)
           t == TickOwn(p.s)
<1>1. /\ p.s \in HostRecords /\ CopyOK(p.s)
      /\ p.s.own = s.own /\ p.s.gen = s.gen
      /\ \/ p.s.fm = s.fm /\ p.s.comp = s.comp
         \/ p.s.fm = NoMember /\ p.s.comp = "none"
      /\ \/ CopyKept(s, p.s) /\ p.s.lm.st = s.lm.st
         \/ CopyGone(s, p.s)
      /\ p.out \subseteq {Leaving(s)}
  BY TickPeerIs
<1>2. Ticked(s).s = t /\ Ticked(s).out = p.out
  BY DEF Ticked, Result
<1> HIDE DEF p
<1>3. SameCopy(p.s, t)
  <2>1. p.s.copy.num # 0 => p.s.copy.num = s.copy.num
    BY <1>1 DEF CopyKept, CopyGone, NoCopy
  <2>2. QED
    BY <1>1, <2>1, TickOwnIs
<1> HIDE DEF t
<1>4. Quiet(s, t)
  <2>1. CASE CopyKept(s, p.s) /\ p.s.lm.st = s.lm.st
    BY <1>3, <2>1 DEF CopyKept, SameCopy, Quiet
  <2>2. CASE CopyGone(s, p.s)
    <3>1. CopyGone(s, t)
      BY <1>3, <2>2 DEF CopyGone, SameCopy
    <3>2. QED
      BY <3>1 DEF Quiet
  <2>3. QED
    BY <1>1, <2>1, <2>2
<1>5. QED
  BY <1>1, <1>2, <1>4 DEF NoJoin, Leaving

\* Nor does what the application calls, a crash, or a restart; only sdt_join
\* sends a JOIN (JoinedOnce).
LEMMA QuietApplication ==
  ASSUME NEW s \in HostRecords
  PROVE  /\ \A r \in {Result([s EXCEPT !.comp = "DISC"], {}),
                      Result([s EXCEPT !.locked = TRUE], {}),
                      Result([s EXCEPT !.alive = TRUE], {})} : Quiet(s, r.s) /\ NoJoin(r)
         /\ \A assoc : LET r == SendWrapper(s, TRUE, "DATA", assoc)
                       IN  Quiet(s, r.s) /\ NoJoin(r)
         /\ Quiet(s, Left(s).s) /\ NoJoin(Left(s))
         /\ Quiet(s, ShutDown(s).s) /\ NoJoin(ShutDown(s))
         /\ Quiet(s, Crashed(s).s) /\ NoJoin(Crashed(s))
<1>1. ASSUME NEW t, SameCopy(s, t)
      PROVE  Quiet(s, t)
  BY <1>1 DEF SameCopy, Quiet
<1>2. DOMAIN s = DOMAIN Fresh(0)
  BY DEF HostRecords, Fresh
<1>3. \A r \in {Result([s EXCEPT !.comp = "DISC"], {}),
                Result([s EXCEPT !.locked = TRUE], {}),
                Result([s EXCEPT !.alive = TRUE], {})} : Quiet(s, r.s) /\ NoJoin(r)
  <2>1. /\ SameCopy(s, [s EXCEPT !.comp = "DISC"])
        /\ SameCopy(s, [s EXCEPT !.locked = TRUE])
        /\ SameCopy(s, [s EXCEPT !.alive = TRUE])
    BY DEF SameCopy, HostRecords
  <2>2. \A t : Result(t, {}).s = t /\ NoJoin(Result(t, {}))
    BY DEF Result, NoJoin
  <2>3. QED
    BY <1>1, <2>1, <2>2
<1>4. \A assoc : LET r == SendWrapper(s, TRUE, "DATA", assoc)
                 IN  Quiet(s, r.s) /\ NoJoin(r)
  BY <1>1, <1>2, SendCopy
<1>5. Quiet(s, Left(s).s) /\ NoJoin(Left(s))
  <2> DEFINE l == SendLeave(s)
             a == [l.s EXCEPT !.alive = FALSE, !.fault = "assert"]
             b == [l.s EXCEPT !.alive = FALSE, !.fault = "null"]
             c == [l.s EXCEPT !.lm.st = "DELETE", !.fm.st = "DELETE"]
  <2>1. SameCopy(s, l.s) /\ DOMAIN l.s = DOMAIN Fresh(0) /\ NoJoin(l)
    BY <1>2, SendsCopy
  <2>2. Left(s) \in {Result(a, l.out), Result(b, l.out), Result(c, l.out)}
    BY DEF Left
  <2> HIDE DEF l
  <2>3. SameCopy(s, a) /\ SameCopy(s, b)
    BY <2>1 DEF SameCopy, Fresh
  <2>4. CopyKept(s, c) /\ c.lm = [l.s.lm EXCEPT !.st = "DELETE"]
    BY <2>1 DEF SameCopy, CopyKept, Fresh
  <2>5. c.lm.st = "DELETE"
    BY <2>1, <2>4 DEF SameCopy, HostRecords, MemberRecords
  <2>6. Quiet(s, c)
    BY <2>4, <2>5, SameIsQuiet DEF Hearing
  <2> HIDE DEF a, b, c
  <2>7. QED
    BY <1>1, <2>1, <2>2, <2>3, <2>6 DEF Result, NoJoin
<1>6. ASSUME NEW t, SameCopy(Fresh(s.gen), t)
      PROVE  Quiet(s, t)
  BY <1>6 DEF SameCopy, Fresh, Quiet
<1>7. Quiet(s, ShutDown(s).s) /\ NoJoin(ShutDown(s))
  <2> DEFINE leaving == IF s.lm.st # "none" /\ s.copy.addr THEN {Leaving(s)} ELSE {}
             disconnecting ==
               IF s.fm.st = "CONNECTED" /\ s.copy.is /\ CanSend(s)
                 THEN SendDisconnecting(s).out ELSE {}
             flag == s.flag \/ disconnecting # {}
             t == [Fresh(s.gen) EXCEPT !.alive = FALSE, !.flag = flag]
  <2>1. ShutDown(s) = Result(t, leaving \cup disconnecting)
    BY DEF ShutDown
  <2>2. NoJoin(SendDisconnecting(s))
    BY <1>2, SendsCopy
  <2>3. \A m \in leaving \cup disconnecting : m.type # "JOIN"
    BY <2>2 DEF NoJoin, Leaving
  <2> HIDE DEF leaving, disconnecting, flag
  <2>4. SameCopy(Fresh(s.gen), t)
    BY DEF SameCopy, Fresh
  <2> HIDE DEF t
  <2>5. QED
    BY <1>6, <2>1, <2>3, <2>4 DEF Result, NoJoin
<1>8. Quiet(s, Crashed(s).s) /\ NoJoin(Crashed(s))
  <2>1. SameCopy(Fresh(s.gen), [Fresh(s.gen) EXCEPT !.alive = FALSE])
    BY DEF SameCopy, Fresh
  <2>2. QED
    BY <1>6, <2>1 DEF Crashed, Result, NoJoin
<1>9. QED
  BY <1>3, <1>4, <1>5, <1>7, <1>8

\* sdt_join: quiet but for its JOIN, which is of a channel as new as can be.
NewJoins(s, r) ==
  \A m \in r.out : m.type = "JOIN" => /\ s.gen < m.chan
                                      /\ \A n \in r.out : n.type = "JOIN" => n = m

\* sdt_join makes no copy, and the one JOIN it sends is the first of its
\* channel.
LEMMA JoinedOnce ==
  ASSUME NEW h, NEW S, NEW s, HostOK(h, s, S), s.fm.st = "none",
         s.own.num # 0 \/ s.gen < MaxChannels
  PROVE  Quiet(s, Joined(s).s) /\ NewJoins(s, Joined(s))
<1> DEFINE j == TxJoin(s, FALSE)
           u == [j.s EXCEPT !.fm.st = "WAIT_FOR_ACCEPT", !.lm.st = "EMPTY"]
<1>1. /\ s \in HostRecords /\ s.own.num = 0 /\ s.own.next = 1 /\ s.own.num <= s.gen
      /\ s.own.oldest <= s.own.rel
  BY DEF HostOK, OwnOK, NoOwn
<1>2. Joining(s, j)
  BY <1>1, TxJoinIs
<1>3. Joined(s) = Result(u, j.out)
  BY DEF Joined
<1> HIDE DEF j
<1>4. /\ j.s \in HostRecords /\ j.s.lst = s.lst /\ j.s.reg = s.reg
      /\ j.s.copy = [s.copy EXCEPT !.is = TRUE]
      /\ s.gen < j.s.own.num
      /\ \E m \in Joins : j.out = {m} /\ m.chan = j.s.own.num
  BY <1>1, <1>2 DEF Joining
<1>5. /\ u.copy = j.s.copy /\ u.lst = s.lst /\ u.reg = s.reg
      /\ u.lm = [j.s.lm EXCEPT !.st = "EMPTY"]
  BY <1>4 DEF HostRecords
<1>6. u.lm.st = "EMPTY"
  BY <1>4, <1>5 DEF HostRecords, MemberRecords
<1>7. u.copy.num = s.copy.num /\ u.copy.total = s.copy.total /\ u.copy.rel = s.copy.rel
  BY <1>1, <1>4, <1>5 DEF HostRecords, CopyRecords
<1> HIDE DEF u
<1>8. Quiet(s, u)
  BY <1>5, <1>6, <1>7 DEF Quiet, Hearing
<1>9. QED
  BY <1>3, <1>4, <1>8 DEF Result, NewJoins


\* sdt_rx_join: a JOIN that was not received before finds no copy with a number, so
\* there is no listener yet, and either there is one afterwards or none again.
LEMMA BuiltOnce ==
  ASSUME NEW h, NEW s \in HostRecords, NEW q \in HostRecords, NEW N, OnceAt(h, s, q, N), CopyOK(s),
         NEW m \in Joins, s.copy.num = 0, m.chan <= q.gen,
         m.chan = q.own.num => m.total <= q.own.total /\ m.rel <= q.own.rel,
         \A p \in N : p.from = Peer(h) /\ p.body.type = "JOIN" => p.body.chan # m.chan,
         NEW x, Built(s, m, x), NEW t, CopyKept(x, t)
  PROVE  OnceAt(h, t, q, N)
<1>1. /\ t.copy.num = m.chan /\ t.copy.total = m.total /\ t.copy.rel = m.rel
      /\ t.lst = "live" /\ t.reg = [s.reg EXCEPT ![m.chan] = @ + 1]
  BY DEF Built, CopyKept
<1>2. s.reg \in [1..MaxChannels -> Nat] /\ m.chan \in 1..MaxChannels
  BY DEF HostRecords, Joins
<1>3. \A c \in 1..MaxChannels : s.reg[c] = 0
  BY DEF OnceAt, CopyOK
<1>4. \A c \in 1..MaxChannels : t.reg[c] = IF c = m.chan THEN s.reg[c] + 1 ELSE s.reg[c]
  BY <1>1, <1>2, Counted
<1>5. \A c \in 1..MaxChannels : t.reg[c] = IF c = m.chan THEN 1 ELSE 0
  BY <1>3, <1>4
<1>6. QED
  BY <1>1, <1>5 DEF OnceAt

\* sdt_rx_join of a JOIN that was not received before has one listener for
\* the copy it makes, or none; the JOIN it may send is the first of its channel.
LEMMA RxJoinOnce ==
  ASSUME NEW h, NEW S, NEW s, HostOK(h, s, S), s.own.num # 0 \/ s.gen < MaxChannels,
         NEW q \in HostRecords, NEW N, OnceAt(h, s, q, N),
         NEW m \in Joins, m.chan # s.copy.num, m.chan <= q.gen,
         m.chan = q.own.num => m.total <= q.own.total /\ m.rel <= q.own.rel,
         \A p \in N : p.from = Peer(h) /\ p.body.type = "JOIN" => p.body.chan \notin {0, m.chan}
  PROVE  OnceAt(h, RxJoin(s, m).s, q, N) /\ NewJoins(s, RxJoin(s, m))
<1> DEFINE x == JoinBoth(s, m)
           r == RxJoin(s, m)
<1>1. s \in HostRecords /\ OwnOK(s) /\ CopyOK(s) /\ JoinRefuse(m).type # "JOIN"
  BY DEF HostOK, JoinRefuse
<1>2. Built(s, m, x)
  BY JoinBothIs
<1>3. JoinAccept(x, m).type # "JOIN"
  BY DEF JoinAccept
<1>4. x \in HostRecords /\ x.copy.num = m.chan
  BY <1>2 DEF Built
<1>5. DOMAIN x = DOMAIN Fresh(0)
  BY <1>4 DEF HostRecords, Fresh
<1>6. CASE r = Result(s, {JoinRefuse(m)})
  BY <1>1, <1>6 DEF Result, NewJoins
<1>7. CASE s.copy.is /\ r = Result(Undo(s, JoinOwn(s), m.chan, FALSE), {JoinRefuse(m)})
  <2> DEFINE t == Undo(s, JoinOwn(s), m.chan, FALSE)
  <2>1. SameCopy(s, r.s) /\ r.out = {JoinRefuse(m)}
    <3>1. SameCopy(s, t)
      BY <1>7, UndoOwnMoves
    <3> HIDE DEF t
    <3>2. r.s = t /\ r.out = {JoinRefuse(m)}
      BY <1>7 DEF Result, t
    <3>3. QED
      BY <3>1, <3>2
  <2>2. QED
    BY <1>1, <2>1 DEF SameCopy, OnceAt, NewJoins
<1>8. CASE s.copy.num = 0 /\ r = JoinAcked(x, m)
  <2> DEFINE a == SendAck(x)
             t == [a.s EXCEPT !.lm.st = "WAIT_FOR_ACK"]
  <2>1. SameCopy(x, a.s) /\ DOMAIN a.s = DOMAIN Fresh(0) /\ NoJoin(a)
    <3> HIDE DEF x
    <3>1. QED
      BY <1>5, SendsCopy
  <2>2. r.s = t /\ r.out = {JoinAccept(x, m)} \cup a.out
    BY <1>8 DEF JoinAcked, Result
  <2> HIDE DEF a, x, r
  <2>3. CopyKept(x, t)
    BY <2>1 DEF SameCopy, CopyKept, Fresh
  <2> HIDE DEF t
  <2>4. OnceAt(h, t, q, N)
    BY <1>1, <1>2, <1>8, <2>3, BuiltOnce
  <2>5. QED
    BY <1>3, <2>1, <2>2, <2>4 DEF NoJoin, NewJoins, r
<1>9. CASE s.copy.num = 0 /\ s.own.num = 0 /\ r = JoinAnswered(x, m)
  <2> DEFINE j == TxJoin(x, TRUE)
             t == [j.s EXCEPT !.lm.st = "WAIT_FOR_ACK", !.fm.st = "WAIT_FOR_ACCEPT"]
  <2>1. Joining(x, j)
    <3>1. /\ x.own.num # 0 /\ x.own.num <= x.gen /\ x.own.next = 1
          /\ x.own.oldest <= x.own.rel
      BY <1>2, <1>9 DEF Built
    <3> HIDE DEF x
    <3>2. QED
      BY <1>4, <3>1, TxJoinIs
  <2>2. r.s = t /\ r.out = {JoinAccept(x, m)} \cup j.out
    BY <1>9 DEF JoinAnswered, Result
  <2>3. s.gen < x.own.num /\ x.own.num # 0 /\ x.copy.is
    BY <1>2, <1>9 DEF Built
  <2> HIDE DEF j, x, r
  <2>4. /\ j.s \in HostRecords /\ j.s.lst = x.lst /\ j.s.reg = x.reg
        /\ j.s.copy = [x.copy EXCEPT !.is = TRUE]
        /\ j.s.own.num = x.own.num
        /\ \E n \in Joins : j.out = {n} /\ n.chan = j.s.own.num
    BY <2>1, <2>3 DEF Joining
  <2>5. j.s.copy = x.copy
    BY <1>4, <2>3, <2>4 DEF HostRecords, CopyRecords
  <2>6. CopyKept(x, t)
    BY <2>4, <2>5 DEF HostRecords, CopyKept
  <2> HIDE DEF t
  <2>7. OnceAt(h, t, q, N)
    BY <1>1, <1>2, <1>9, <2>6, BuiltOnce
  <2>8. NewJoins(s, r)
    BY <1>3, <2>2, <2>3, <2>4 DEF NewJoins
  <2>9. QED
    BY <2>2, <2>7, <2>8 DEF r
<1>10. CASE s.copy.num = 0 /\ r = AcceptAndUndo(s, x, m)
  <2> DEFINE t == Undo(s, x, m.chan, TRUE)
  <2>1. r.s = t /\ r.out = {JoinAccept(x, m)}
    BY <1>10 DEF AcceptAndUndo, Result
  <2>2. Undone(s, m, t)
    BY UndoneIs
  <2> HIDE DEF t, r, x
  <2>3. \A c \in 1..MaxChannels : t.reg[c] = 0
    BY <1>1, <1>10, <2>2 DEF Undone, OnceAt, CopyOK
  <2>4. CASE ~s.copy.is
    <3>1. /\ t.copy.num = 0 /\ t.lst = "none" /\ t.lm.st \notin Hearing /\ 0 <= q.gen
      BY <2>2, <2>4, Bounds DEF Undone, NoCopy, NoMember, Hearing, HostRecords, Numbers
    <3>2. OnceAt(h, t, q, N)
      BY <2>3, <3>1 DEF OnceAt
    <3>3. QED
      BY <1>3, <2>1, <3>2 DEF NewJoins, r
  <2>5. CASE s.copy.is
    <3>1. /\ t.copy.num = m.chan /\ t.copy.total = m.total /\ t.copy.rel = m.rel
          /\ t.lm.st = s.lm.st /\ t.lst = "freed"
      BY <2>2, <2>5 DEF Undone
    <3>2. t.lm.st \notin Hearing
      BY <1>1, <1>10, <3>1 DEF CopyOK, Hearing
    <3>3. OnceAt(h, t, q, N)
      BY <2>3, <3>1, <3>2 DEF OnceAt
    <3>4. QED
      BY <1>3, <2>1, <3>3 DEF NewJoins, r
  <2>6. QED
    BY <2>4, <2>5
<1>11. JoinOutcome(s, m)
  BY RxJoinIs
<1>12. \/ r = Result(s, {JoinRefuse(m)})
       \/ s.copy.is /\ r = Result(Undo(s, JoinOwn(s), m.chan, FALSE), {JoinRefuse(m)})
       \/ s.copy.num \in {0, m.chan} /\ r = JoinAcked(x, m)
       \/ s.copy.num \in {0, m.chan} /\ s.own.num = 0 /\ r = JoinAnswered(x, m)
       \/ s.copy.num \in {0, m.chan} /\ r = AcceptAndUndo(s, x, m)
  BY <1>11 DEF JoinOutcome
<1>13. QED
  <2> HIDE DEF x, r
  <2>1. s.copy.num \in {0, m.chan} => s.copy.num = 0
    OBVIOUS
  <2>2. OnceAt(h, r.s, q, N) /\ NewJoins(s, r)
    BY <1>6, <1>7, <1>8, <1>9, <1>10, <1>12, <2>1 DEF r
  <2>3. QED
    BY <2>2 DEF r


\* The other host is only concerned by what is new of our channel, and the network
\* by what is new on it.
LEMMA MoveOnce ==
  ASSUME IInv, Once, NEW h \in Hosts, NEW r, r.s \in HostRecords, OwnMoves(host[h], r.s),
         NewJoins(host[h], r), host' = [host EXCEPT ![h] = r.s],
         NEW rest \in SUBSET net,
         \A p \in net' : p \in rest \/ \E m \in r.out : p = [from |-> h, body |-> m],
         OnceAt(h, r.s, host[Peer(h)], rest)
  PROVE  Once'
<1> DEFINE s == host[h]
           g == Peer(h)
           q == host[Peer(h)]
<1>1. /\ g \in Hosts /\ g # h /\ Peer(g) = h /\ \A k \in Hosts : k = h \/ k = g
      /\ s \in HostRecords /\ q \in HostRecords
      /\ host' \in [Hosts -> HostRecords] /\ host'[h] = r.s /\ host'[g] = q
  BY PeerIs DEF IInv, HostsOK
<1>2. /\ s.gen \in Int /\ r.s.gen \in Int /\ q.copy.num \in Int /\ q.copy.total \in Int
      /\ q.copy.rel \in Int /\ s.own.total \in Int /\ s.own.rel \in Int
      /\ r.s.own.total \in Int /\ r.s.own.rel \in Int /\ r.s.own.num \in Int
      /\ s.gen <= r.s.gen
  <2>1. s.gen <= r.s.gen
    BY DEF OwnMoves
  <2>2. /\ s.gen \in Numbers /\ r.s.gen \in Numbers /\ q.copy \in CopyRecords
        /\ s.own \in OwnRecords /\ r.s.own \in OwnRecords
    BY <1>1 DEF HostRecords
  <2> HIDE DEF s, q
  <2>3. QED
    BY <2>1, <2>2 DEF OwnRecords, CopyRecords, Numbers
<1>3. ASSUME NEW p \in net, p.from = h, p.body.type = "JOIN"
      PROVE  p.body.chan \in 1..MaxChannels /\ p.body.chan <= s.gen
  <2>1. MessageOK(h, s, said, p.body)
    BY <1>3 DEF IInv, NetOK
  <2>2. QED
    BY <1>3, <2>1 DEF MessageOK, Joins, Accepts, Refuses, Leavings, Wrappers
<1>4. ASSUME NEW p \in net', p \notin rest
      PROVE  /\ p.from = h /\ p.body \in r.out /\ p = [from |-> h, body |-> p.body]
             /\ p.body.type = "JOIN" => s.gen < p.body.chan
  <2>1. PICK m \in r.out : p = [from |-> h, body |-> m]
    BY <1>4
  <2>2. p.from = h /\ p.body = m
    BY <2>1
  <2>3. QED
    BY <2>1, <2>2 DEF NewJoins
<1>5. OnceAt(h, r.s, q, net')
  <2>1. \A p \in net' : p.from = g => p \in rest
    BY <1>1, <1>4
  <2>2. QED
    BY <2>1 DEF OnceAt
<1>6. OnceAt(g, q, s, net)
  BY <1>1 DEF Once
<1>7. OnceAt(g, q, r.s, net')
  <2>1. q.copy.num <= s.gen /\ q.copy.num <= r.s.gen
    BY <1>2, <1>6 DEF OnceAt
  <2>2. ASSUME q.copy.num # 0, q.copy.num = r.s.own.num
        PROVE  q.copy.total <= r.s.own.total /\ q.copy.rel <= r.s.own.rel
    <3>1. r.s.own.num = s.own.num /\ s.own.total <= r.s.own.total /\ s.own.rel <= r.s.own.rel
      BY <1>2, <2>1, <2>2 DEF OwnMoves
    <3>2. q.copy.total <= s.own.total /\ q.copy.rel <= s.own.rel
      BY <1>6, <2>2, <3>1 DEF OnceAt
    <3>3. QED
      BY <1>2, <3>1, <3>2
  <2>3. ASSUME NEW p \in net', p.from = h, p.body.type = "JOIN"
        PROVE  p.body.chan # q.copy.num
    <3>1. CASE p \in rest
      BY <1>1, <1>6, <2>3, <3>1 DEF OnceAt
    <3>2. CASE p \notin rest
      <4>1. s.gen < p.body.chan
        BY <1>4, <2>3, <3>2
      <4>2. QED
        BY <1>2, <2>1, <4>1
    <3>3. QED
      BY <3>1, <3>2
  <2>4. QED
    BY <1>1, <1>6, <2>1, <2>2, <2>3 DEF OnceAt
<1>8. ASSUME NEW p1 \in net', NEW p2 \in net', p1.body.type = "JOIN", p2.body.type = "JOIN",
             p1.from = p2.from, p1.body.chan = p2.body.chan
      PROVE  p1 = p2
  <2>1. CASE p1 \in rest /\ p2 \in rest
    BY <1>8, <2>1 DEF Once, OneJoin
  <2>2. CASE p1 \notin rest /\ p2 \notin rest
    BY <1>4, <1>8, <2>2 DEF NewJoins
  <2>3. CASE p1 \in rest /\ p2 \notin rest
    <3>1. p1.from = h /\ s.gen < p1.body.chan
      BY <1>4, <1>8, <2>3
    <3>2. p1.body.chan <= s.gen /\ p1.body.chan \in Int
      BY <1>3, <1>8, <2>3, <3>1
    <3>3. QED
      BY <1>2, <3>1, <3>2
  <2>4. CASE p1 \notin rest /\ p2 \in rest
    <3>1. p2.from = h /\ s.gen < p2.body.chan
      BY <1>4, <1>8, <2>4
    <3>2. p2.body.chan <= s.gen /\ p2.body.chan \in Int
      BY <1>3, <1>8, <2>4, <3>1
    <3>3. QED
      BY <1>2, <3>1, <3>2
  <2>5. QED
    BY <2>1, <2>2, <2>3, <2>4
<1>9. \A k \in Hosts : OnceAt(k, host'[k], host'[Peer(k)], net')
  BY <1>1, <1>5, <1>7
<1>10. QED
  BY <1>8, <1>9 DEF Once, OneJoin

\* A quiet step of a host.
LEMMA QuietMoveOnce ==
  ASSUME IInv, Once, NEW h \in Hosts, NEW r, NEW S, Moves(h, host[h], r, S),
         Quiet(host[h], r.s), NewJoins(host[h], r), host' = [host EXCEPT ![h] = r.s],
         NEW rest \in SUBSET net,
         \A p \in net' : p \in rest \/ \E m \in r.out : p = [from |-> h, body |-> m]
  PROVE  Once'
<1>1. /\ host[h] \in HostRecords /\ Peer(h) \in Hosts /\ host[Peer(h)] \in HostRecords
      /\ r.s \in HostRecords /\ OwnMoves(host[h], r.s)
  BY PeerIs DEF IInv, HostsOK, Moves
<1>2. ASSUME NEW p \in net, p.from = Peer(h), p.body.type = "JOIN"
      PROVE  p.body.chan # 0
  <2>1. p.body \in Joins
    BY <1>2, Received
  <2>2. QED
    BY <2>1 DEF Joins
<1>3. OnceAt(h, host[h], host[Peer(h)], net)
  BY DEF Once
<1>4. OnceAt(h, r.s, host[Peer(h)], net)
  BY <1>1, <1>2, <1>3, QuietOnce
<1>5. OnceAt(h, r.s, host[Peer(h)], rest)
  BY <1>4, OnceLess
<1>6. QED
  BY <1>1, <1>5, MoveOnce

\* A handler that sends no JOIN sends no second one.
LEMMA NoJoinNewJoins ==
  ASSUME NEW s, NEW r, NoJoin(r)
  PROVE  NewJoins(s, r)
BY DEF NoJoin, NewJoins

\* A step replaces one host, and adds to what remains of the network only
\* what this host sends.
LEMMA StepIs ==
  ASSUME NEW h, NEW r, NEW rest, Step(h, r, rest)
  PROVE  /\ host' = [host EXCEPT ![h] = r.s]
         /\ \A p \in net' : p \in rest \/ \E m \in r.out : p = [from |-> h, body |-> m]
BY DEF Step


\* Every action, when a message that is received is gone.
LEMMA ReceiveOnce ==
  ASSUME IInv, Once, ~Dups, NEW h \in Hosts, NEW p \in net,
         \/ RxJoinStep(h, p) \/ RxJoinAcceptStep(h, p) \/ RxJoinRefuseStep(h, p)
         \/ RxLeavingStep(h, p) \/ RxWrapperStep(h, p)
  PROVE  Once'
<1> DEFINE s == host[h]
           q == host[Peer(h)]
           m == p.body
<1>1. /\ HostOK(h, s, said) /\ s \in HostRecords /\ q \in HostRecords
      /\ OnceAt(h, s, q, net)
  BY HostOf, PeerIs DEF Once, HostOK
<1>2. ASSUME NEW r, NEW rest \in Remains(h, p), Step(h, r, rest), Moves(h, s, r, said'),
             Quiet(s, r.s), NoJoin(r)
      PROVE  Once'
  BY <1>2, NoJoinNewJoins, StepIs, RemainsIs, QuietMoveOnce
<1>3. CASE RxJoinStep(h, p)
  <2> DEFINE r == RxJoin(s, m)
             rest == net \ {p}
  <2>1. /\ p.from = Peer(h) /\ m.type = "JOIN" /\ (s.own.num # 0 \/ s.gen < MaxChannels)
        /\ Step(h, r, rest)
    BY <1>3 DEF RxJoinStep, Receive, Remains
  <2>2. m \in Joins
    BY <2>1, Received
  <2>3. m.chan <= q.gen /\ (m.chan = q.own.num => m.total <= q.own.total /\ m.rel <= q.own.rel)
    <3>1. MessageOK(Peer(h), q, said, m)
      BY <2>1 DEF IInv, NetOK
    <3>2. QED
      BY <2>1, <3>1 DEF MessageOK, Joins, Accepts, Refuses, Leavings, Wrappers
  <2>4. Moves(h, s, r, said')
    BY <1>1, <2>1, <2>2, StepTells, RxJoinMoves
  <2>5. m.chan # s.copy.num
    BY <1>1, <2>1 DEF OnceAt
  <2>6. ASSUME NEW n \in rest, n.from = Peer(h), n.body.type = "JOIN"
        PROVE  n.body.chan \notin {0, m.chan}
    <3>1. n.body \in Joins
      BY <2>6, Received
    <3>2. n.body.chan # m.chan
      BY <2>1, <2>6 DEF Once, OneJoin
    <3>3. QED
      BY <3>1, <3>2 DEF Joins
  <2>7. OnceAt(h, s, q, rest)
    BY <1>1, OnceLess
  <2>8. OnceAt(h, r.s, q, rest) /\ NewJoins(s, r)
    BY <1>1, <2>1, <2>2, <2>3, <2>5, <2>6, <2>7, RxJoinOnce
  <2>9. r.s \in HostRecords /\ OwnMoves(s, r.s)
    BY <2>4 DEF Moves
  <2> HIDE DEF r
  <2>10. QED
    BY <2>1, <2>8, <2>9, StepIs, MoveOnce
<1>4. CASE RxJoinAcceptStep(h, p)
  <2>1. PICK rest \in Remains(h, p) : Step(h, RxJoinAccept(s, m), rest)
    BY <1>4 DEF RxJoinAcceptStep, Receive
  <2>2. m \in Accepts /\ <<Peer(h), "JOIN", m.chan, 1>> \in said
    BY <1>4, Received DEF RxJoinAcceptStep, Receive
  <2>3. Moves(h, s, RxJoinAccept(s, m), said')
    BY <1>1, <2>1, <2>2, StepTells, RxJoinAcceptMoves
  <2>4. QED
    BY <1>1, <1>2, <2>1, <2>3, QuietHandlers
<1>5. CASE RxJoinRefuseStep(h, p)
  <2>1. PICK rest \in Remains(h, p) : Step(h, RxJoinRefuse(s, m), rest)
    BY <1>5 DEF RxJoinRefuseStep, Receive
  <2>2. Moves(h, s, RxJoinRefuse(s, m), said')
    BY <1>1, <2>1, StepTells, RxJoinRefuseMoves
  <2>3. QED
    BY <1>1, <1>2, <2>1, <2>2, QuietHandlers
<1>6. CASE RxLeavingStep(h, p)
  <2>1. PICK rest \in Remains(h, p) : Step(h, RxLeaving(s, m), rest)
    BY <1>6 DEF RxLeavingStep, Receive
  <2>2. Moves(h, s, RxLeaving(s, m), said')
    BY <1>1, <2>1, StepTells, RxLeavingMoves
  <2>3. QED
    BY <1>1, <1>2, <2>1, <2>2, QuietHandlers
<1>7. CASE RxWrapperStep(h, p)
  <2> DEFINE r == RxWrapper(s, m)
  <2>1. PICK rest \in Remains(h, p) : Step(h, r, rest)
    BY <1>7 DEF RxWrapperStep, Receive
  <2>2. p.from = Peer(h) /\ m.type = "WRAPPER"
    BY <1>7 DEF RxWrapperStep, Receive
  <2>3. m \in Wrappers /\ WrapperTrue(h, said, m)
    BY <2>2, Received
  <2>4. m.chan = q.own.num => m.total <= q.own.total /\ m.rel <= q.own.rel
    <3>1. MessageOK(Peer(h), q, said, m)
      BY <2>2 DEF IInv, NetOK
    <3>2. QED
      BY <2>2, <3>1 DEF MessageOK, Joins, Accepts, Refuses, Leavings, Wrappers
  <2>5. Moves(h, s, r, said')
    BY <1>1, <2>1, <2>3, StepTells, RxWrapperMoves
  <2>6. CopyOK(s)
    BY <1>1 DEF HostOK
  <2>7. OnceAt(h, r.s, q, net) /\ NoJoin(r)
    BY <1>1, <2>3, <2>4, <2>6, RxWrapperOnce
  <2>8. r.s \in HostRecords /\ OwnMoves(s, r.s)
    BY <2>5 DEF Moves
  <2> HIDE DEF r
  <2>9. rest \in SUBSET net
    BY RemainsIs
  <2>10. OnceAt(h, r.s, q, rest)
    BY <2>7, <2>9, OnceLess
  <2>11. NewJoins(s, r)
    BY <2>7, NoJoinNewJoins
  <2>12. QED
    BY <2>1, <2>8, <2>9, <2>10, <2>11, StepIs, MoveOnce
<1>8. QED
  BY <1>3, <1>4, <1>5, <1>6, <1>7

\* What a host does by itself keeps Once.
LEMMA OwnStepOnce ==
  ASSUME IInv, Once, NEW h \in Hosts,
         \/ Tick(h) \/ Discover(h) \/ Join(h) \/ JoinAgain(h) \/ Leave(h)
         \/ \E response \in BOOLEAN : TxData(h, response)
         \/ Shutdown(h)
  PROVE  Once'
<1> DEFINE s == host[h]
<1>1. HostOK(h, s, said) /\ s \in HostRecords
  BY HostOf DEF HostOK
<1>2. ASSUME NEW r, Step(h, r, net), Moves(h, s, r, said'), Quiet(s, r.s), NewJoins(s, r)
      PROVE  Once'
  BY <1>2, StepIs, QuietMoveOnce
<1>3. CASE Tick(h)
  <2>1. Step(h, Ticked(s), net)
    BY <1>3 DEF Tick, Ticked
  <2>2. Moves(h, s, Ticked(s), said')
    BY <1>1, <2>1, StepTells, TickMoves
  <2>3. QED
    BY <1>1, <1>2, <2>1, <2>2, QuietTick, NoJoinNewJoins
<1>4. CASE Discover(h)
  <2> DEFINE r == Result([s EXCEPT !.comp = "DISC"], {})
  <2>1. Step(h, r, net)
    BY <1>4 DEF Discover
  <2>2. Moves(h, s, r, said')
    BY <1>1, <2>1, StepTells, DiscoverMoves
  <2>3. Quiet(s, r.s) /\ NoJoin(r)
    BY <1>1, QuietApplication
  <2> HIDE DEF r
  <2>4. QED
    BY <1>2, <2>1, <2>2, <2>3, NoJoinNewJoins
<1>5. CASE Join(h)
  <2>1. Step(h, Joined(s), net)
    BY <1>5 DEF Join, Joined
  <2>2. Moves(h, s, Joined(s), said')
    BY <1>1, <1>5, <2>1, StepTells, JoinedMoves DEF Join
  <2>3. Quiet(s, Joined(s).s) /\ NewJoins(s, Joined(s))
    BY <1>1, <1>5, JoinedOnce DEF Join
  <2>4. QED
    BY <1>2, <2>1, <2>2, <2>3
<1>6. CASE JoinAgain(h)
  <2> DEFINE r == Result([s EXCEPT !.locked = TRUE], {})
  <2>1. Step(h, r, net)
    BY <1>6 DEF JoinAgain
  <2>2. Moves(h, s, r, said')
    BY <1>1, <2>1, StepTells, JoinAgainMoves
  <2>3. Quiet(s, r.s) /\ NoJoin(r)
    BY <1>1, QuietApplication
  <2> HIDE DEF r
  <2>4. QED
    BY <1>2, <2>1, <2>2, <2>3, NoJoinNewJoins
<1>7. CASE Leave(h)
  <2>1. Step(h, Left(s), net) /\ CanSend(s)
    BY <1>7 DEF Leave, Left
  <2>2. Moves(h, s, Left(s), said')
    BY <1>1, <2>1, StepTells, LeftMoves
  <2>3. QED
    BY <1>1, <1>2, <2>1, <2>2, QuietApplication, NoJoinNewJoins
<1>8. CASE \E response \in BOOLEAN : TxData(h, response)
  <2>1. PICK response \in BOOLEAN : TxData(h, response)
    BY <1>8
  <2> DEFINE r == SendWrapper(s, TRUE, "DATA", IF response THEN s.copy.num ELSE 0)
  <2>2. Step(h, r, net) /\ CanSend(s)
    BY <2>1 DEF TxData
  <2>3. Moves(h, s, r, said')
    BY <1>1, <2>2, StepTells, TxDataMoves
  <2>4. Quiet(s, r.s) /\ NoJoin(r)
    BY <1>1, QuietApplication
  <2> HIDE DEF r
  <2>5. QED
    BY <1>2, <2>2, <2>3, <2>4, NoJoinNewJoins
<1>9. CASE Shutdown(h)
  <2>1. Step(h, ShutDown(s), net)
    BY <1>9 DEF Shutdown, ShutDown
  <2>2. Moves(h, s, ShutDown(s), said')
    BY <1>1, <2>1, StepTells, ShutDownMoves
  <2>3. QED
    BY <1>1, <1>2, <2>1, <2>2, QuietApplication, NoJoinNewJoins
<1>10. QED
  BY <1>3, <1>4, <1>5, <1>6, <1>7, <1>8, <1>9

\* A crash and a restart keep Once: the listeners go with the process, and a
\* number is not used again.
LEMMA CrashRestartOnce ==
  ASSUME IInv, Once, NEW h \in Hosts, Crash(h) \/ Restart(h)
  PROVE  Once'
<1> DEFINE s == host[h]
           a == Crashed(s)
           b == Result([s EXCEPT !.alive = TRUE], {})
<1>1. HostOK(h, s, said) /\ s \in HostRecords
  BY HostOf DEF HostOK
<1>2. ASSUME NEW r, host' = [host EXCEPT ![h] = r.s], net' = net, Moves(h, s, r, said),
             Quiet(s, r.s), NoJoin(r)
      PROVE  Once'
  BY <1>2, NoJoinNewJoins, QuietMoveOnce
<1>3. CASE Crash(h)
  <2>1. host' = [host EXCEPT ![h] = a.s] /\ net' = net
    BY <1>3 DEF Crash, Crashed, Result
  <2>2. Moves(h, s, a, said) /\ Quiet(s, a.s) /\ NoJoin(a)
    BY <1>1, CrashedMoves, QuietApplication
  <2> HIDE DEF a
  <2>3. QED
    BY <1>2, <2>1, <2>2
<1>4. CASE Restart(h)
  <2>1. host' = [host EXCEPT ![h] = b.s] /\ net' = net
    BY <1>4 DEF Restart, Result, IInv, HostsOK
  <2>2. Moves(h, s, b, said) /\ Quiet(s, b.s) /\ NoJoin(b)
    BY <1>1, RestartMoves, QuietApplication
  <2> HIDE DEF b
  <2>3. QED
    BY <1>2, <2>1, <2>2
<1>5. QED
  BY <1>3, <1>4


\* The invariant of a network that delivers nothing twice (two listeners on one group
\* would make it twice of one datagram: there are never two).
THEOREM SessionOnce ==
  ASSUME ~Dups
  PROVE  Spec => []Once
<1>1. Init => Once
  <2> SUFFICES ASSUME Init, NEW h \in Hosts
               PROVE  OnceAt(h, host[h], host[Peer(h)], net)
    BY DEF Once, OneJoin, Init
  <2>1. host[h] = Fresh(0) /\ host[Peer(h)] = Fresh(0) /\ net = {}
    BY PeerIs DEF Init
  <2>2. OnceAt(h, Fresh(0), Fresh(0), {})
    BY DEF OnceAt, Fresh, NoCopy, NoMember, Hearing
  <2>3. QED
    BY <2>1, <2>2
<1>2. IInv /\ Once /\ [Next]_vars => Once'
  <2> SUFFICES ASSUME IInv, Once, [Next]_vars
               PROVE  Once'
    OBVIOUS
  <2>1. CASE Next
    <3>1. PICK h \in Hosts :
            \/ \E p \in net : \/ RxJoinStep(h, p) \/ RxJoinAcceptStep(h, p)
                              \/ RxJoinRefuseStep(h, p) \/ RxLeavingStep(h, p)
                              \/ RxWrapperStep(h, p)
            \/ Tick(h) \/ Discover(h) \/ Join(h) \/ JoinAgain(h) \/ Leave(h)
            \/ \E response \in BOOLEAN : TxData(h, response)
            \/ Shutdown(h) \/ Crash(h) \/ Restart(h)
      BY <2>1 DEF Next
    <3>2. QED
      BY <3>1, ReceiveOnce, OwnStepOnce, CrashRestartOnce
  <2>2. CASE UNCHANGED vars
    BY <2>2 DEF vars, Once, OneJoin, OnceAt
  <2>3. QED
    BY <2>1, <2>2
<1>3. QED
  BY <1>1, <1>2, SessionInvariant, PTL DEF Spec

\* If no message is delivered twice, a member's numbers are those of the channel that
\* its record names, whatever was lost, refused or sent before a crash (sdt_rx_join,
\* sdt_rx_wrapper).
THEOREM CopiesFollow ==
  ASSUME ~Dups
  PROVE  Spec => []CopyOfThisChannel
<1>1. Once => CopyOfThisChannel
  BY DEF Once, OnceAt, CopyOfThisChannel
<1>2. QED
  BY <1>1, SessionOnce, PTL

\* ... and who awaits or has a session has a listener for it (sdt_rx_join).
THEOREM MembersHear ==
  ASSUME ~Dups
  PROVE  Spec => []NeverDeaf
<1>1. IInv /\ Once => NeverDeaf
  BY HostOf DEF Once, OnceAt, NeverDeaf, HostOK, CopyOK, Hearing
<1>2. QED
  BY <1>1, SessionInvariant, SessionOnce, PTL

\* ... and no listener stays behind when its channel goes (sdt_del_channel).
THEOREM ListenersGo ==
  ASSUME ~Dups
  PROVE  Spec => []NoListenerLeak
<1>1. IInv /\ Once => NoListenerLeak
  <2> SUFFICES ASSUME IInv, Once, NEW h \in Hosts, ~host[h].copy.is, NEW c \in 1..MaxChannels
               PROVE  host[h].reg[c] = 0
    BY DEF NoListenerLeak
  <2>1. CopyOK(host[h]) /\ OnceAt(h, host[h], host[Peer(h)], net)
    BY HostOf DEF Once, HostOK
  <2>2. host[h].lst # "live"
    BY <2>1 DEF CopyOK, NoCopy
  <2>3. QED
    BY <2>1, <2>2 DEF OnceAt
<1>2. QED
  BY <1>1, SessionInvariant, SessionOnce, PTL
=============================================================================
