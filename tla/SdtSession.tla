----------------------------- MODULE SdtSession -----------------------------
(***************************************************************************)
(* Sessions of SDT (acnsrc/sdt/sdt.c): two hosts, each with one component, *)
(* join each other's channel, connect, leave, expire, crash and restart.   *)
(*                                                                         *)
(* A host is one copy of sdt.c: its own component with its tx_channel, in  *)
(* which the peer is the FOREIGN member, and the record it keeps of the    *)
(* peer's component with a copy of the peer's channel, in which the host's *)
(* component is the LOCAL member.  The four member records of a session    *)
(* are only kept in step by messages.                                      *)
(*                                                                         *)
(* No component is ever local to the code: is_local is tested and never    *)
(* assigned, so only the other branches of sdt_tick are modelled.  NAKs    *)
(* are lost here; SdtChannel has them.  The application's callbacks change *)
(* nothing in sdt.c and are left out.  The application is taken to have    *)
(* called mcast_alloc_init for its component, as nothing in src/ does: a   *)
(* JOIN with the group 0.0.0.0 is dropped by sdt_rx_join.                  *)
(***************************************************************************)
EXTENDS Integers, FiniteSets

CONSTANTS
  Hosts,           \* the two hosts
  App,             \* App[h]: what the application of h does, among AppCalls
  SDT_MAX_RESENDS, \* wrappers the resend pool holds
  Short,           \* RECIPROCAL_TIMEOUT_ms in ticks of the model
  Long,            \* FOREIGN_MEMBER_EXPIRY_TIME_ms in ticks of the model
  Dups,            \* TRUE: the network may deliver a message again
  MaxInFlight,     \* bound: messages the network holds at a time
  MaxChannels,     \* bound: channels a host creates
  MaxSeq,          \* bound: wrappers on one channel (no transmit buffer after that)
  MaxCrashes       \* bound: crashes in a behaviour

\* sdt_join of a new peer, sdt_join of a peer that is a member already,
\* sdt_leave, sdt_tx_reliable_data, sdt_shutdown.
AppCalls == {"join", "join again", "leave", "data", "shutdown"}

ASSUME TwoHosts == \E a, b \in Hosts : a # b /\ Hosts = {a, b}
ASSUME AppType == App \in [Hosts -> SUBSET AppCalls]
ASSUME Timeouts == Short \in Nat \ {0} /\ Long \in Nat /\ Short < Long
ASSUME Bounds == {SDT_MAX_RESENDS, MaxInFlight, MaxChannels, MaxSeq, MaxCrashes} \subseteq Nat
ASSUME DupsBoolean == Dups \in BOOLEAN

VARIABLES
  host,    \* host[h]: the state of h's copy of sdt.c
  net,     \* messages in flight, each with its sender
  crashes, \* number of crashes so far
  said     \* history: acceptances a host has sent, and that it disconnects

vars == <<host, net, crashes, said>>

Peer(h) == CHOOSE p \in Hosts : p # h

Off == -1   \* a timer that sdt_rx_ack shut off

\* An absent member, and one as sdt_add_member makes it.
NoMember  == [st |-> "none",  mid |-> 0, timer |-> Off, exp |-> 0]
NewMember == [st |-> "EMPTY", mid |-> 0, timer |-> Long, exp |-> 0]

\* No channel of our own; no copy of the peer's.
NoOwn  == [num |-> 0, next |-> 1, total |-> 0, rel |-> 0, oldest |-> 0]
NoCopy == [is |-> FALSE, num |-> 0, total |-> 0, rel |-> 0, addr |-> FALSE]

\* A host as sdt_startup leaves it; n channel numbers are used up.
Fresh(n) ==
  [alive  |-> TRUE,    \* the process runs
   fault  |-> "none",  \* or it died of "assert" or "null"
   locked |-> FALSE,   \* ACN_PORT_PROTECT is held for ever by the application
   comp   |-> "none",  \* who created the record of the peer's component
   own    |-> NoOwn,   \* our component's tx_channel
   flag   |-> FALSE,   \* the static flag of sdt_format_wrapper
   fm     |-> NoMember,\* the foreign member in it
   copy   |-> NoCopy,  \* the peer's component's tx_channel
   lm     |-> NoMember,\* the local member in it
   lst    |-> "none",  \* copy's listener: "none", "live" or "freed"
   reg    |-> [c \in 1..MaxChannels |-> 0], \* registered listeners by group
   gen    |-> n]       \* channel numbers used up (the code draws rand())

Result(s, out) == [s |-> s, out |-> out]

(***************************************************************************)
(* Channels and wrappers.                                                  *)
(***************************************************************************)
\* sdt_add_channel for our own component, unless it has one.
WithOwn(s) ==
  IF s.own.num # 0 THEN s
  ELSE [s EXCEPT !.own = [NoOwn EXCEPT !.num = s.gen + 1], !.gen = @ + 1]

\* Mutant of DelCopy: the listener of a deleted channel stays registered.
DelCopyKeepsListener(s) ==
  [s EXCEPT !.copy = NoCopy, !.lm = NoMember, !.lst = "none"]

\* sdt_del_channel for the peer's component.  A freed listener is deleted
\* again, which does nothing while its record is not reused.
DelCopy(s) ==
  [s EXCEPT !.copy = NoCopy, !.lm = NoMember, !.lst = "none",
            !.reg = IF s.lst = "live" THEN [s.reg EXCEPT ![s.copy.num] = @ - 1] ELSE @]

\* Mutant of DelOwn: the members of a deleted channel stay.
DelOwnKeepsMember(s) == [s EXCEPT !.own = NoOwn]

\* sdt_del_channel for our own component.
DelOwn(s) == [s EXCEPT !.own = NoOwn, !.fm = NoMember]

\* sdt_del_component for the peer.
DelComp(s) == [DelCopy(s) EXCEPT !.comp = "none", !.fm = NoMember]

CanSend(s) == s.own.num # 0 /\ s.own.total < MaxSeq

\* sdt_format_wrapper and sdt_format_client_block: a wrapper that carries pdu
\* to the peer, with the association channel assoc.
SendWrapper(s, reliable, pdu, assoc) ==
  LET r   == IF reliable THEN s.own.rel + 1 ELSE s.own.rel
      old == CASE ~reliable -> s.own.oldest
               [] reliable /\ ~s.flag -> r
               [] reliable /\ s.flag ->
                    IF r - s.own.oldest = SDT_MAX_RESENDS
                      THEN r - SDT_MAX_RESENDS + 1 ELSE s.own.oldest
      o   == [s.own EXCEPT !.total = @ + 1, !.rel = r, !.oldest = old]
  IN  Result([s EXCEPT !.own = o, !.flag = @ \/ reliable],
             {[type |-> "WRAPPER", chan |-> o.num, total |-> o.total, rel |-> r,
               oldest |-> old, reliable |-> reliable,
               mid |-> s.fm.mid, assoc |-> assoc, pdu |-> pdu]})

\* sdt_tx_ack, sdt_tx_connect, sdt_tx_connect_accept, sdt_tx_leave,
\* sdt_tx_disconnecting when they can be sent.
SendAck(s)           == SendWrapper(s, FALSE, "ACK", s.copy.num)
SendConnect(s)       == SendWrapper(s, TRUE, "CONNECT", 0)
SendConnectAccept(s) == SendWrapper(s, TRUE, "CONNECT_ACCEPT", s.copy.num)
SendLeave(s)         == SendWrapper(s, TRUE, "LEAVE", 0)
SendDisconnecting(s) == SendWrapper(s, TRUE, "DISCONNECTING", 0)

\* sdt_tx_leaving: the local member tells the leader that it goes.
Leaving(s) == [type |-> "LEAVING", chan |-> s.copy.num, mid |-> s.lm.mid]

\* marshal_channel_param_block and unmarshal_channel_param_block: of what a
\* leader asks of a member, the model keeps the expiry time.
marshal_channel_param_block == Long
unmarshal_channel_param_block(x, m) == [x EXCEPT !.exp = m.params]

\* sdt_tx_join: both members exist afterwards, the foreign one has an mid and
\* little time, and the JOIN is out.
TxJoin(s, reciprocal) ==
  LET o == WithOwn(s)
      m == [(IF o.fm.st = "none" THEN NewMember ELSE o.fm)
              EXCEPT !.mid = o.own.next, !.timer = Short]
      t == [o EXCEPT !.own.next = @ + 1,
                     !.fm = m,
                     !.copy.is = TRUE,
                     !.lm = IF @.st = "none" THEN NewMember ELSE @]
  IN  Result(t, {[type |-> "JOIN", chan |-> t.own.num, mid |-> m.mid,
                  recip |-> IF reciprocal THEN t.copy.num ELSE 0,
                  total |-> t.own.total, rel |-> t.own.rel,
                  params |-> marshal_channel_param_block]})

(***************************************************************************)
(* Handlers of the ad-hoc messages.  s is the host that receives m.        *)
(***************************************************************************)
\* remove_allocations of sdt_rx_join: of x, take back what this call added
\* to s (`listening' says whether it added a listener).
Undo(s, x, group, listening) ==
  LET a == IF s.lm.st = "none" THEN [x EXCEPT !.lm = NoMember] ELSE x
      b == IF listening
             THEN [a EXCEPT !.reg[group] = @ - 1, !.lst = "freed"] ELSE a
      c == IF ~s.copy.is THEN DelCopy(b) ELSE b
      d == IF s.comp = "none" THEN DelComp(c) ELSE c
  IN  IF s.own.num = 0 THEN DelOwn(d) ELSE d

\* sdt_tx_join_accept.
JoinAccept(x, m) ==
  [type |-> "JOIN_ACCEPT", chan |-> m.chan, mid |-> m.mid, recip |-> x.own.num]

\* sdt_tx_join_refuse: the channel number it carries is the leader's.
JoinRefuse(m) == [type |-> "JOIN_REFUSE", mid |-> m.mid]

\* Mutant of AcceptAndUndo: the member moves on before the check.
AcceptTooEarly(s, x, m) ==
  Result(Undo(s, [x EXCEPT !.lm.st = "WAIT_FOR_ACK"], m.chan, TRUE), {JoinAccept(x, m)})

\* sdt_rx_join accepts and then finds the members in other states than it wants.
AcceptAndUndo(s, x, m) == Result(Undo(s, x, m.chan, TRUE), {JoinAccept(x, m)})

\* sdt_rx_join from the point where both members exist: a reciprocal JOIN is
\* answered with an ACK, any other with a JOIN of our own.
JoinSession(s, x, m) ==
  LET ack  == SendAck(x)
      join == TxJoin(x, TRUE)
  IN  CASE m.recip # 0 /\ x.fm.st = "WAIT_FOR_ACK" /\ x.lm.st = "EMPTY" /\ CanSend(x) ->
             Result([ack.s EXCEPT !.lm.st = "WAIT_FOR_ACK"], {JoinAccept(x, m)} \cup ack.out)
        [] m.recip = 0 /\ x.fm.st = "EMPTY" /\ x.lm.st = "EMPTY" ->
             Result([join.s EXCEPT !.lm.st = "WAIT_FOR_ACK", !.fm.st = "WAIT_FOR_ACCEPT"],
                    {JoinAccept(x, m)} \cup join.out)
        [] OTHER -> AcceptAndUndo(s, x, m)

\* sdt_rx_join.
RxJoin(s, m) ==
  LET o == [WithOwn(s) EXCEPT !.comp = IF @ = "none" THEN "JOIN" ELSE @]
      c == [o EXCEPT !.copy = [is |-> TRUE,
                               num |-> IF s.copy.is THEN s.copy.num ELSE m.chan,
                               total |-> m.total, rel |-> m.rel, addr |-> TRUE],
                     !.lst = "live",
                     !.reg[m.chan] = @ + 1]
      x == [c EXCEPT !.copy.num = m.chan,
                     !.lm = [unmarshal_channel_param_block(
                               IF @.st = "none" THEN NewMember ELSE @, m)
                               EXCEPT !.mid = m.mid, !.timer = m.params],
                     !.fm = IF @.st = "none" THEN NewMember ELSE @]
  IN  IF m.recip # 0 /\ m.recip # s.own.num
        THEN Result(s, {JoinRefuse(m)})
      ELSE IF s.copy.is /\ s.copy.num \notin {0, m.chan}
        THEN Result(Undo(s, o, m.chan, FALSE), {JoinRefuse(m)})
      ELSE IF s.lm.st # "none" /\ c.copy.num # 0 /\ s.lm.mid # m.mid
        THEN Result(Undo(s, c, m.chan, TRUE), {JoinRefuse(m)})
      ELSE JoinSession(s, x, m)

\* A message of the peer's membership finds our channel and its member.
FindsForeignMember(s, m) ==
  s.comp # "none" /\ s.own.num # 0 /\ s.fm.st # "none" /\ s.fm.mid = m.mid

\* sdt_rx_join_accept.
RxJoinAccept(s, m) ==
  LET first == [s EXCEPT !.fm.st = "WAIT_FOR_ACK"]
      rearm(x) == [x EXCEPT !.fm.timer = Long]
      ack == SendAck(s)
  IN  CASE ~(FindsForeignMember(s, m) /\ s.own.num = m.chan /\ s.copy.is /\ s.lm.st # "none")
             -> Result(s, {})
        [] OTHER ->
             IF s.fm.st = "WAIT_FOR_ACCEPT" /\ s.lm.st = "EMPTY"
               THEN Result(rearm(first), {})
             ELSE IF s.fm.st = "WAIT_FOR_ACCEPT" /\ s.lm.st = "WAIT_FOR_ACK"
               THEN IF s.copy.num \notin {0, m.recip} \/ ~CanSend(s)
                      THEN Result(s, {})
                      ELSE Result(rearm([ack.s EXCEPT !.fm.st = "WAIT_FOR_ACK"]), ack.out)
             ELSE Result(rearm(s), {})

\* sdt_rx_join_refuse: the channel number in the message is not compared.
RxJoinRefuse(s, m) ==
  Result(IF FindsForeignMember(s, m) THEN [s EXCEPT !.fm.st = "DELETE"] ELSE s, {})

\* sdt_rx_leaving.
RxLeaving(s, m) ==
  Result(IF FindsForeignMember(s, m) /\ s.own.num = m.chan
           THEN [s EXCEPT !.fm.st = "DELETE"] ELSE s, {})

(***************************************************************************)
(* Handlers of what a wrapper carries.                                     *)
(***************************************************************************)
\* sdt_rx_ack.
RxAck(s) ==
  LET joined(x) == IF x.st = "WAIT_FOR_ACK" THEN [x EXCEPT !.st = "JOINED"] ELSE x
      t == [s EXCEPT !.fm = joined([@ EXCEPT !.timer = Off]), !.lm = joined(@)]
  IN  IF s.own.num = 0 \/ s.fm.st = "none" THEN Result(s, {})
      ELSE IF t.fm.st = "JOINED" /\ t.lm.st = "JOINED" /\ CanSend(t)
        THEN SendConnect(t)
      ELSE Result(t, {})

\* sdt_rx_leave.
RxLeave(s) ==
  IF s.own.num = 0 THEN Result(s, {})
  ELSE Result([s EXCEPT !.lm.st = "DELETE"], {Leaving(s)})

\* Mutant of RxConnect: the foreign member is marked, not the local one.
RxConnectMarksForeign(s) ==
  LET accept == SendConnectAccept(s)
  IN  IF s.fm.st = "none" \/ ~CanSend(s) THEN Result(s, {})
      ELSE Result([accept.s EXCEPT !.fm.st = "CONNECTED"], accept.out)

\* sdt_rx_connect.
RxConnect(s) ==
  LET accept == SendConnectAccept(s)
  IN  IF s.fm.st = "none" \/ ~CanSend(s) THEN Result(s, {})
      ELSE Result([accept.s EXCEPT !.lm.st = "CONNECTED"], accept.out)

\* sdt_rx_connect_accept.
RxConnectAccept(s) ==
  IF s.own.num = 0 \/ s.fm.st = "none" THEN Result(s, {})
  ELSE Result([s EXCEPT !.fm.st = "CONNECTED"], {})

\* sdt_rx_disconnecting, whatever the member's state is.
RxDisconnecting(s) ==
  IF s.own.num = 0 \/ s.fm.st = "none" THEN Result(s, {})
  ELSE Result([s EXCEPT !.fm.st = "JOINED"], {})

\* sdt_client_rx_handler.
Dispatch(s, pdu) ==
  CASE pdu = "ACK" -> RxAck(s)
    [] pdu = "LEAVE" -> RxLeave(s)
    [] pdu = "CONNECT" -> RxConnect(s)
    [] pdu = "CONNECT_ACCEPT" -> RxConnectAccept(s)
    [] pdu = "DISCONNECTING" -> RxDisconnecting(s)
    [] pdu = "DATA" -> Result(s, {})

\* Mutant of HandOn: the association channel is not looked at.
HandOnAnyAssociation(s, w) ==
  LET t == [s EXCEPT !.lm.timer = s.lm.exp]
  IN  IF s.lm.st = "none" THEN Result(s, {})
      ELSE IF t.lm.mid # w.mid THEN Result(t, {})
      ELSE Dispatch(t, w.pdu)

\* The tail of sdt_rx_wrapper: the timer is rearmed and the local member
\* with the right mid gets the pdu, if the association channel is ours.
HandOn(s, w) ==
  LET t == [s EXCEPT !.lm.timer = s.lm.exp]
  IN  IF s.lm.st = "none" THEN Result(s, {})
      ELSE IF t.lm.mid # w.mid THEN Result(t, {})
      ELSE IF w.assoc # 0 /\ t.own.num = 0
        THEN Result([t EXCEPT !.alive = FALSE, !.fault = "null"], {})
      ELSE IF w.assoc \notin {0, t.own.num} THEN Result(t, {})
      ELSE Dispatch(t, w.pdu)

\* check_sequence.
check_sequence(copy, w) ==
  LET diff  == w.total - copy.total
      rdiff == w.rel - copy.rel
  IN  IF diff < 1 THEN "SEQ_DUPLICATE"
      ELSE IF diff = 1 \/ rdiff = 0 \/ (w.reliable /\ rdiff = 1) THEN "SEQ_VALID"
      ELSE IF w.oldest - copy.rel > 1 THEN "SEQ_LOST" ELSE "SEQ_NAK"

\* sdt_rx_wrapper, called by RLP for a listener of the wrapper's group.  The
\* channel number in the wrapper is read and not compared.
RxWrapper(s, w) ==
  LET verdict == check_sequence(s.copy, w)
      moved   == [s EXCEPT !.copy.total = w.total, !.copy.rel = w.rel]
  IN  IF s.reg[w.chan] = 0 \/ ~s.copy.is THEN Result(s, {})
      ELSE CASE verdict = "SEQ_VALID" -> HandOn(moved, w)
             [] verdict = "SEQ_NAK" -> IF w.reliable THEN Result(s, {}) ELSE HandOn(s, w)
             [] verdict = "SEQ_DUPLICATE" -> Result(s, {})
             [] verdict = "SEQ_LOST" ->
                  IF s.lm.st = "none" THEN Result(s, {})
                  ELSE Result([s EXCEPT !.lm.st = "DELETE"], {Leaving(s)})

(***************************************************************************)
(* sdt_tick.  The peer's component heads the list, ours comes after it.    *)
(***************************************************************************)
CountDown(x) == IF x.timer > 0 THEN [x EXCEPT !.timer = @ - 1] ELSE x

\* Mutant of Expires: only a member with a session is watched.
ExpiresConnected(x) == x.st = "CONNECTED" /\ CountDown(x).timer = 0

\* A member that is not going anyway runs out of time in this tick.
Expires(x) == x.st \notin {"none", "DELETE"} /\ CountDown(x).timer = 0

\* The local member in the peer's channel, then that channel, then the peer.
TickPeer(s) ==
  LET gone == s.lm.st = "DELETE" \/ Expires(s.lm)
      t == [s EXCEPT !.lm = IF gone THEN NoMember ELSE CountDown(@)]
      c == IF s.copy.is /\ t.lm.st = "none" THEN DelCopy(t) ELSE t
  IN  Result(IF c.comp = "JOIN" /\ ~c.copy.is THEN DelComp(c) ELSE c,
             IF Expires(s.lm) /\ s.copy.addr THEN {Leaving(s)} ELSE {})

\* Mutant of TickOwn: a channel whose member went with its component stays.
TickOwnSkipsEmpty(s) ==
  LET gone == s.fm.st = "DELETE" \/ Expires(s.fm)
  IN  CASE s.own.num = 0 -> s
        [] s.own.num # 0 /\ gone -> DelOwn(s)
        [] s.own.num # 0 /\ ~gone -> [s EXCEPT !.fm = CountDown(@)]

\* The foreign member in our channel, then that channel.  The LEAVING it
\* sends on expiry goes to our own channel's source address, which is unset.
TickOwn(s) ==
  LET gone == s.fm.st \in {"none", "DELETE"} \/ Expires(s.fm)
  IN  CASE s.own.num = 0 -> s
        [] s.own.num # 0 /\ gone -> DelOwn(s)
        [] s.own.num # 0 /\ ~gone -> [s EXCEPT !.fm = CountDown(@)]

(***************************************************************************)
(* Actions.                                                                *)
(***************************************************************************)
\* Host h goes to state r.s and sends r.out; `rest' of the network stays.  Any
\* message may be lost, what the network has no room for is.
Step(h, r, rest) ==
  /\ host' = [host EXCEPT ![h] = r.s]
  /\ \E kept \in SUBSET {[from |-> h, body |-> m] : m \in r.out} :
       /\ Cardinality(rest \cup kept) <= MaxInFlight
       /\ net' = rest \cup kept
  /\ said' = said \cup
       {<<h, "JOIN", m.chan, m.mid>> : m \in {x \in r.out : x.type = "JOIN_ACCEPT"}} \cup
       {<<h, "CONNECT", m.assoc, r.s.lm.mid>> :
          m \in {x \in r.out : x.type = "WRAPPER" /\ x.pdu = "CONNECT_ACCEPT"}} \cup
       {<<h, "DISCONNECTING">> :
          m \in {x \in r.out : x.type = "WRAPPER" /\ x.pdu = "DISCONNECTING"}}
  /\ UNCHANGED crashes

\* What the network still holds once h has received message p.  Two listeners
\* on one group get the same datagram one after the other, like a duplicate.
Remains(h, p) ==
  {net \ {p}} \cup
  (IF Dups \/ (p.body.type = "WRAPPER" /\ host[h].reg[p.body.chan] > 1) THEN {net} ELSE {})

\* The receive thread and the timer thread get in.
Runs(h) == host[h].alive /\ ~host[h].locked

\* sdt_rx_handler.
Receive(h, p, type, r) ==
  /\ Runs(h)
  /\ p \in net
  /\ p.from = Peer(h)
  /\ p.body.type = type
  /\ \E rest \in Remains(h, p) : Step(h, r, rest)

RxJoinStep(h, p) ==
  /\ host[h].own.num # 0 \/ host[h].gen < MaxChannels
  /\ Receive(h, p, "JOIN", RxJoin(host[h], p.body))
RxJoinAcceptStep(h, p) == Receive(h, p, "JOIN_ACCEPT", RxJoinAccept(host[h], p.body))
RxJoinRefuseStep(h, p) == Receive(h, p, "JOIN_REFUSE", RxJoinRefuse(host[h], p.body))
RxLeavingStep(h, p)    == Receive(h, p, "LEAVING", RxLeaving(host[h], p.body))
RxWrapperStep(h, p)    == Receive(h, p, "WRAPPER", RxWrapper(host[h], p.body))

\* sdt_tick.
Tick(h) ==
  /\ Runs(h)
  /\ LET t == TickPeer(host[h]) IN Step(h, Result(TickOwn(t.s), t.out), net)

\* discovery: the peer's component is found by SLP and added (discover.c).
Discover(h) ==
  /\ Runs(h)
  /\ "join" \in App[h]
  /\ host[h].comp = "none"
  /\ Step(h, Result([host[h] EXCEPT !.comp = "DISC"], {}), net)

\* sdt_join of a peer that is not a member.
Join(h) ==
  LET s == host[h]
      j == TxJoin(s, FALSE)
  IN  /\ s.alive
      /\ "join" \in App[h]
      /\ s.comp # "none"
      /\ s.fm.st = "none"
      /\ s.own.num # 0 \/ s.gen < MaxChannels
      /\ Step(h, Result([j.s EXCEPT !.fm.st = "WAIT_FOR_ACCEPT", !.lm.st = "EMPTY"], j.out), net)

\* sdt_join of a peer that is: it returns FAIL with the lock held.
JoinAgain(h) ==
  /\ host[h].alive
  /\ "join again" \in App[h]
  /\ host[h].fm.st # "none"
  /\ Step(h, Result([host[h] EXCEPT !.locked = TRUE], {}), net)

\* sdt_leave, where it does more than fail.  LEAVE is out before it looks for
\* the local member in a channel that may be gone.
Leave(h) ==
  LET s == host[h]
      l == SendLeave(s)
  IN  /\ s.alive
      /\ "leave" \in App[h]
      /\ s.own.num # 0 /\ s.fm.st # "none"
      /\ CanSend(s)
      /\ Step(h, Result(IF ~s.copy.is
                          THEN [l.s EXCEPT !.alive = FALSE, !.fault = "assert"]
                        ELSE IF s.lm.st = "none"
                          THEN [l.s EXCEPT !.alive = FALSE, !.fault = "null"]
                        ELSE [l.s EXCEPT !.lm.st = "DELETE", !.fm.st = "DELETE"],
                        l.out), net)

\* sdt_tx_reliable_data, outbound or in response to the peer.
TxData(h, response) ==
  LET s == host[h]
  IN  /\ s.alive
      /\ "data" \in App[h]
      /\ CanSend(s)
      /\ s.fm.st # "none" /\ s.copy.is
      /\ Step(h, SendWrapper(s, TRUE, "DATA", IF response THEN s.copy.num ELSE 0), net)

\* sdt_shutdown, where it gets the lock: the peer's component comes first, then
\* ours, both taken for foreign; then every record goes.  The DISCONNECTING that
\* it sends on the peer's channel is heard by that channel's members only, and
\* the LEAVING of our own channel goes to an address that is unset.
Shutdown(h) ==
  LET s == host[h]
      leaving == IF s.lm.st # "none" /\ s.copy.addr THEN {Leaving(s)} ELSE {}
      disconnecting ==
        IF s.fm.st = "CONNECTED" /\ s.copy.is /\ CanSend(s)
          THEN SendDisconnecting(s).out ELSE {}
  IN  /\ Runs(h)
      /\ "shutdown" \in App[h]
      /\ Step(h, Result([Fresh(s.gen) EXCEPT !.alive = FALSE, !.flag = s.flag \/ disconnecting # {}],
                        leaving \cup disconnecting), net)

\* The process dies with all it knows, and is started again.
Crash(h) ==
  /\ host[h].alive
  /\ crashes < MaxCrashes
  /\ crashes' = crashes + 1
  /\ host' = [host EXCEPT ![h] = [Fresh(host[h].gen) EXCEPT !.alive = FALSE]]
  /\ UNCHANGED <<net, said>>

Restart(h) ==
  /\ ~host[h].alive
  /\ host[h].fault = "none"
  /\ host' = [host EXCEPT ![h].alive = TRUE]
  /\ UNCHANGED <<net, crashes, said>>

Init ==
  /\ host = [h \in Hosts |-> Fresh(0)]
  /\ net = {}
  /\ crashes = 0
  /\ said = {}

Next ==
  \E h \in Hosts :
    \/ \E p \in net :
         \/ RxJoinStep(h, p)
         \/ RxJoinAcceptStep(h, p)
         \/ RxJoinRefuseStep(h, p)
         \/ RxLeavingStep(h, p)
         \/ RxWrapperStep(h, p)
    \/ Tick(h)
    \/ Discover(h)
    \/ Join(h)
    \/ JoinAgain(h)
    \/ Leave(h)
    \/ \E response \in BOOLEAN : TxData(h, response)
    \/ Shutdown(h)
    \/ Crash(h)
    \/ Restart(h)

\* The timer thread calls sdt_tick every 100 ms as long as the process lives.
Spec == Init /\ [][Next]_vars /\ \A h \in Hosts : WF_vars(Tick(h))
-----------------------------------------------------------------------------
(***************************************************************************)
(* Properties.                                                             *)
(***************************************************************************)
MemberStates ==
  {"none", "DELETE", "EMPTY", "WAIT_FOR_ACCEPT", "WAIT_FOR_ACK", "JOINED", "CONNECTED"}
MemberRecords ==
  [st : MemberStates, mid : Nat, timer : Off..Long, exp : {0, Long}]

\* Type invariant: a host is what the structures of sdt.h and component.h can
\* hold, and there is no member without its channel.
TypeOK ==
  /\ \A h \in Hosts :
       LET s == host[h] IN
       /\ s.fault \in {"none", "assert", "null"}
       /\ s.comp \in {"none", "JOIN", "DISC"}
       /\ s.own.num \in 0..MaxChannels /\ s.gen \in 0..MaxChannels
       /\ s.own.total \in 0..MaxSeq /\ s.own.oldest <= s.own.rel
       /\ s.fm \in MemberRecords /\ s.lm \in MemberRecords
       /\ s.lst \in {"none", "live", "freed"}
       /\ \A c \in DOMAIN s.reg : s.reg[c] \in Nat
       /\ s.own.num = 0 => s.fm = NoMember
       /\ ~s.copy.is => s.lm = NoMember /\ s.copy = NoCopy
       /\ s.comp = "none" => ~s.copy.is
  /\ crashes \in 0..MaxCrashes

\* A leader takes the peer for joined or connected (sdt_rx_ack,
\* sdt_rx_connect_accept) only if the peer has accepted exactly that: this
\* channel, with this mid, whatever is left on the wire of earlier sessions,
\* refused joins and crashed processes.  One message gets round it: a peer that
\* shuts down makes a member JOINED that waits for its first answer
\* (sdt_rx_disconnecting does not look at the state); it is never CONNECTED.
PeerAgreed ==
  \A h \in Hosts :
    LET s == host[h] IN
    /\ s.fm.st \in {"JOINED", "CONNECTED"} =>
         \/ <<Peer(h), "JOIN", s.own.num, s.fm.mid>> \in said
         \/ s.fm.st = "JOINED" /\ <<Peer(h), "DISCONNECTING">> \in said
    /\ s.fm.st = "CONNECTED" =>
         <<Peer(h), "CONNECT", s.own.num, s.fm.mid>> \in said

\* A member's copy of the leader's numbers (sdt_rx_join, check_sequence)
\* belongs to the channel it says it belongs to: never ahead of the leader,
\* although sdt_rx_wrapper does not compare channel numbers.
CopyOfThisChannel ==
  \A h \in Hosts :
    LET s == host[h]
        p == host[Peer(h)]
    IN  s.copy.is /\ s.copy.num # 0 /\ s.copy.num = p.own.num =>
          s.copy.total <= p.own.total /\ s.copy.rel <= p.own.rel

\* A member that awaits or has a session can hear its leader: sdt_rx_join
\* takes back a listener only together with the membership that needs it.
NeverDeaf ==
  \A h \in Hosts :
    LET s == host[h] IN
    s.lm.st \in {"WAIT_FOR_ACK", "JOINED", "CONNECTED"} => s.reg[s.copy.num] > 0

\* No listener outlives the channel it was added for (sdt_rx_join,
\* sdt_del_channel): the table of listeners cannot fill up.
NoListenerLeak ==
  \A h \in Hosts : ~host[h].copy.is =>
    \A c \in 1..MaxChannels : host[h].reg[c] = 0

\* A tick leaves no half-deleted session: our channel lives as long as its
\* member, and a component that a JOIN created as long as its channel.
TickCollects ==
  [][\A h \in Hosts : Tick(h) =>
       LET s == host'[h] IN
       /\ s.own.num # 0 <=> s.fm.st # "none"
       /\ s.comp = "JOIN" => s.copy.is]_vars

\* A member notices that its leader is gone: the membership does not outlive
\* a dead peer (sdt_tick, "we timeout"), unless sdt_join has locked us out.
DeadLeaderNoticed ==
  \A h \in Hosts :
    ~host[Peer(h)].alive ~>
      \/ host[Peer(h)].alive
      \/ host[h].lm.st = "none"
      \/ ~Runs(h)

\* A leader notices that a member is gone ("As a leader, we need to make sure
\* everyone is still there", sdt_tick).
DeadMemberNoticed ==
  \A h \in Hosts :
    ~host[Peer(h)].alive ~>
      \/ host[Peer(h)].alive
      \/ host[h].fm.st = "none"
      \/ ~Runs(h)

\* A foreign member marked for deletion is removed by the next tick and not
\* revived ("and remove it on next tick", sdt_rx_leaving).
DeleteIsFinal ==
  [][\A h \in Hosts : host[h].fm.st = "DELETE" => host'[h].fm.st \in {"DELETE", "none"}]_vars

\* assert(channel) of sdt_find_member_by_component holds when sdt_leave calls it.
LeaveFindsChannel == \A h \in Hosts : host[h].fault # "assert"
=============================================================================
