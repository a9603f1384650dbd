-------------------------------- MODULE Rlp --------------------------------
(***************************************************************************)
(* The receiving side of the root layer protocol: sockets (netsock.c and   *)
(* the linux netxface.c), multicast groups and listeners (rlp.c and        *)
(* rlpmem.c, static memory), and the dispatch of a packet to the callbacks *)
(* of listeners.  The records are slots of fixed pools, linked by index    *)
(* (NULL ends a list), and a freed slot keeps what it held until it is     *)
(* handed out again: the thread that dispatches takes no lock, so listeners *)
(* come and go under it.                                                   *)
(***************************************************************************)
EXTENDS LinkedLists

CONSTANTS
  Ports,             \* the ports clients open; never netx_PORT_EPHEM
  Groups,            \* multicast addresses
  Protocols,
  MAX_NSK_SOCKETS,   \* sizes of the pools
  MAX_RXGROUPS,
  MAX_LISTENERS,
  KernelGroups,      \* memberships the kernel allows a socket
  Vectors,           \* what the fields of a PDU hold: protocols,
  Senders,           \* CIDs,
  Contents,          \* and data
  OwnBlocks,         \* what components that run this code send: CID and units
  ForeignBlocks,     \* what others do: sequences of PDUs
  MaxChanges         \* bound: changes of the tables while a packet is dispatched

ASSUME PoolsAssumption ==
  /\ MAX_NSK_SOCKETS \in Nat \ {0}
  /\ MAX_RXGROUPS \in Nat \ {0}
  /\ MAX_LISTENERS \in Nat \ {0}
  /\ KernelGroups \in Nat

\* What a client gives to be sent, and a PDU on the wire.
Units == [protocol : Vectors, data : Contents]
Pdus == [vec : Vectors \cup {"same"}, hdr : Senders \cup {"same"},
         data : Contents \cup {"same"}, fits : BOOLEAN]

ASSUME WireAssumption ==
  /\ "same" \notin Vectors \cup Senders \cup Contents
  /\ OwnBlocks \subseteq [owner : Senders, units : Seq(Units)]
  /\ ForeignBlocks \subseteq Seq(Pdus)

VARIABLES
  rlp,      \* the tables of RLP and of netsock
  kernel,   \* <<socket, group>>: the memberships the kernel holds
  refused,  \* history: groups of RLP whose membership the kernel refused
  asked,    \* history: the registrations clients hold, by the slot returned
  rx        \* the thread that polls: the packet it dispatches

rlpVars == <<rlp, kernel, refused, asked, rx>>

NULL == 0
Sockets == 1 .. MAX_NSK_SOCKETS
RxGroups == 1 .. MAX_RXGROUPS
Listeners == 1 .. MAX_LISTENERS

\* The addresses a client may name: 0 for unicast, a group, an address that is
\* neither.  netx_getmyip() is MYIP.
UNICAST == "unicast"
Addresses == Groups \cup {UNICAST, "my ip", "another ip"}

ASSUME NamesAssumption ==
  /\ {"none", "hold"} \cap Ports = {}
  /\ "none" \notin Protocols
  /\ {UNICAST, "my ip", "another ip", "illegal"} \cap Groups = {}

\* The first slot of S: the pools are searched from the start.
FirstSlot(S) == IF S = {} THEN NULL ELSE CHOOSE i \in S : \A j \in S : i <= j

\* The first element of a list that is one of S.
FirstOf(list, S) ==
  LET found == {i \in DOMAIN list : list[i] \in S}
  IN  IF found = {} THEN NULL ELSE list[FirstSlot(found)]

GroupList(s) == Walk([g \in RxGroups |-> s.grp[g].next], s.head)
ListFrom(s, l) == Walk([i \in Listeners |-> s.lsn[i].next], l)
ListenersOf(s, g) == ListFrom(s, s.grp[g].listeners)

RlpInit ==
  /\ rlp = [nsk |-> [k \in Sockets |-> [port |-> "none", open |-> FALSE]],
            head |-> NULL,
            grp |-> [g \in RxGroups |->
                       [socket |-> NULL, addr |-> UNICAST, listeners |-> NULL, next |-> NULL]],
            lsn |-> [l \in Listeners |->
                       [protocol |-> "none", rxgroup |-> NULL, next |-> NULL]]]
  /\ kernel = {}
  /\ refused = {}
  /\ asked = [l \in {} |-> NULL]
  /\ rx = [phase |-> "idle"]

-----------------------------------------------------------------------------
(***************************************************************************)
(* Sockets.                                                                *)
(***************************************************************************)
nsk_find_netsock(s, p) == FirstSlot({k \in Sockets : s.nsk[k].port = p})

\* The slot is held by the mark netx_PORT_HOLD until it has its port.
nsk_new_netsock(s) ==
  LET k == FirstSlot({i \in Sockets : s.nsk[i].port = "none"})
  IN  [k |-> k, s |-> IF k = NULL THEN s ELSE [s EXCEPT !.nsk[k].port = "hold"]]

nsk_free_netsock(s, k) == [s EXCEPT !.nsk[k] = [port |-> "none", open |-> FALSE]]

\* socket(), bind() and IP_PKTINFO; ok says whether all of them succeed.  A
\* failure closes the socket again.
netx_udp_open(s, k, p, ok) ==
  IF ok THEN [s EXCEPT !.nsk[k] = [port |-> p, open |-> TRUE]] ELSE s

netx_udp_close(s, k) == [s EXCEPT !.nsk[k].open = FALSE]

\* Mutant of rlp_open_netsocket: the slot of a socket that does not open is lost.
rlp_open_netsocket_forgets(s, p, ok) ==
  LET found == nsk_find_netsock(s, p)
      new == nsk_new_netsock(s)
  IN  CASE found # NULL -> s
        [] found = NULL /\ new.k = NULL -> s
        [] found = NULL /\ new.k # NULL -> netx_udp_open(new.s, new.k, p, ok)

\* One socket per port: whoever asks for a port that is open gets that socket.
rlp_open_netsocket(s, p, ok) ==
  LET found == nsk_find_netsock(s, p)
      new == nsk_new_netsock(s)
  IN  CASE found # NULL -> s
        [] found = NULL /\ new.k = NULL -> s
        [] found = NULL /\ new.k # NULL /\ ok -> netx_udp_open(new.s, new.k, p, ok)
        [] found = NULL /\ new.k # NULL /\ ~ok -> nsk_free_netsock(new.s, new.k)

rlpm_netsock_has_rxgroups(s, k) ==
  \E i \in DOMAIN GroupList(s) : s.grp[GroupList(s)[i]].socket = k

\* Nothing happens to a socket with groups.
rlp_close_netsocket(s, k) ==
  IF rlpm_netsock_has_rxgroups(s, k) THEN s
  ELSE nsk_free_netsock(netx_udp_close(s, k), k)

-----------------------------------------------------------------------------
(***************************************************************************)
(* Groups.  `m' is [s |-> tables, kernel |-> memberships, refused |-> ...].*)
(***************************************************************************)
rlpm_find_rxgroup(s, k, a) ==
  FirstOf(GroupList(s), {g \in RxGroups : s.grp[g].socket = k /\ s.grp[g].addr = a})

\* A slot with no socket is free; the new group becomes the head of the list.
rlpm_new_rxgroup(s, k, a) ==
  LET g == FirstSlot({i \in RxGroups : s.grp[i].socket = NULL})
  IN  [g |-> g,
       s |-> IF g = NULL THEN s
             ELSE [s EXCEPT !.head = g,
                            !.grp[g] = [socket |-> k, addr |-> a,
                                        listeners |-> NULL, next |-> s.head]]]

\* The slot of a group that is not in the list is not touched.
rlpm_free_rxgroup(s, g) ==
  LET before == FirstOf(GroupList(s), {i \in RxGroups : s.grp[i].next = g})
  IN  CASE s.head = g -> [s EXCEPT !.head = s.grp[g].next, !.grp[g].socket = NULL]
        [] s.head # g /\ before # NULL ->
             [s EXCEPT !.grp[before].next = s.grp[g].next, !.grp[g].socket = NULL]
        [] s.head # g /\ before = NULL -> s

\* linux: whether IP_ADD_MEMBERSHIP succeeds is not looked at.
JoinGroup(m, k, a) ==
  IF Cardinality({j \in m.kernel : j[1] = k}) < KernelGroups
  THEN [m EXCEPT !.kernel = @ \cup {<<k, a>>}]
  ELSE [m EXCEPT !.refused = @ \cup {<<k, a>>}]

LeaveGroup(m, k, a) ==
  [m EXCEPT !.kernel = @ \ {<<k, a>>}, !.refused = @ \ {<<k, a>>}]

\* What a client's address stands for: any address of our own is unicast, any
\* other that is no group is refused.
GroupAddr(a) ==
  CASE a \in Groups \cup {UNICAST} -> a
    [] a = "my ip" -> UNICAST
    [] a = "another ip" -> "illegal"

\* ok says whether setting the socket's multicast options succeeds.
rlp_open_rxgroup(m, k, addr, ok) ==
  LET a == GroupAddr(addr)
      found == rlpm_find_rxgroup(m.s, k, a)
      new == rlpm_new_rxgroup(m.s, k, a)
      n == [m EXCEPT !.s = new.s]
  IN  CASE a = "illegal" -> [g |-> NULL, m |-> m]
        [] a # "illegal" /\ found # NULL -> [g |-> found, m |-> m]
        [] a # "illegal" /\ found = NULL /\ new.g = NULL -> [g |-> NULL, m |-> m]
        [] a = UNICAST /\ found = NULL /\ new.g # NULL -> [g |-> new.g, m |-> n]
        [] a \in Groups /\ found = NULL /\ new.g # NULL /\ ok ->
             [g |-> new.g, m |-> JoinGroup(n, k, a)]
        [] a \in Groups /\ found = NULL /\ new.g # NULL /\ ~ok ->
             [g |-> NULL, m |-> [n EXCEPT !.s = rlpm_free_rxgroup(n.s, new.g)]]

\* Mutant of rlp_close_rxgroup: the membership outlives its group.
rlp_close_rxgroup_stays(m, k, g) ==
  IF m.s.grp[g].listeners # NULL THEN m ELSE [m EXCEPT !.s = rlpm_free_rxgroup(@, g)]

rlp_close_rxgroup(m, k, g) ==
  IF m.s.grp[g].listeners # NULL THEN m
  ELSE LET n == IF m.s.grp[g].addr = UNICAST THEN m ELSE LeaveGroup(m, k, m.s.grp[g].addr)
       IN  [n EXCEPT !.s = rlpm_free_rxgroup(@, g)]
-----------------------------------------------------------------------------
(***************************************************************************)
(* Listeners.                                                              *)
(***************************************************************************)
\* The new listener becomes the head of its group's list.  It gets its protocol
\* from rlp_add_listener.
rlpm_new_listener(s, g, protocol) ==
  LET l == FirstSlot({i \in Listeners : s.lsn[i].protocol = "none"})
  IN  [l |-> l,
       s |-> IF l = NULL THEN s
             ELSE [s EXCEPT !.lsn[l] = [protocol |-> protocol, rxgroup |-> g,
                                        next |-> s.grp[g].listeners],
                            !.grp[g].listeners = l]]

\* Mutant of rlpm_free_listener: the freed slot forgets its successor.
rlpm_free_listener_clears(s, l) ==
  LET g == s.lsn[l].rxgroup
      before == FirstOf(ListenersOf(s, g), {i \in Listeners : s.lsn[i].next = l})
      freed == [s.lsn[l] EXCEPT !.protocol = "none", !.next = NULL]
  IN  CASE s.grp[g].listeners = l ->
             [s EXCEPT !.grp[g].listeners = s.lsn[l].next, !.lsn[l] = freed]
        [] s.grp[g].listeners # l /\ before # NULL ->
             [s EXCEPT !.lsn[before].next = s.lsn[l].next, !.lsn[l] = freed]
        [] s.grp[g].listeners # l /\ before = NULL -> s

\* A listener that is not in the list of its group is not touched, so freeing
\* one twice in a row does nothing.
rlpm_free_listener(s, l) ==
  LET g == s.lsn[l].rxgroup
      before == FirstOf(ListenersOf(s, g), {i \in Listeners : s.lsn[i].next = l})
  IN  CASE s.grp[g].listeners = l ->
             [s EXCEPT !.grp[g].listeners = s.lsn[l].next, !.lsn[l].protocol = "none"]
        [] s.grp[g].listeners # l /\ before # NULL ->
             [s EXCEPT !.lsn[before].next = s.lsn[l].next, !.lsn[l].protocol = "none"]
        [] s.grp[g].listeners # l /\ before = NULL -> s

\* Mutant of rlp_add_listener: a group opened for nobody stays.
rlp_add_listener_leaves(m, k, addr, protocol, ok) ==
  LET group == rlp_open_rxgroup(m, k, addr, ok)
      new == rlpm_new_listener(group.m.s, group.g, protocol)
  IN  IF group.g = NULL THEN [l |-> NULL, m |-> group.m]
      ELSE [l |-> new.l, m |-> [group.m EXCEPT !.s = new.s]]

rlp_add_listener(m, k, addr, protocol, ok) ==
  LET group == rlp_open_rxgroup(m, k, addr, ok)
      new == rlpm_new_listener(group.m.s, group.g, protocol)
  IN  CASE group.g = NULL -> [l |-> NULL, m |-> group.m]
        [] group.g # NULL /\ new.l = NULL ->
             [l |-> NULL, m |-> rlp_close_rxgroup(group.m, k, group.g)]
        [] group.g # NULL /\ new.l # NULL -> [l |-> new.l, m |-> [group.m EXCEPT !.s = new.s]]

rlp_del_listener(m, k, l) ==
  rlp_close_rxgroup([m EXCEPT !.s = rlpm_free_listener(@, l)], k, m.s.lsn[l].rxgroup)

rlpm_first_listener(s, g, protocol) ==
  FirstOf(ListenersOf(s, g), {l \in Listeners : s.lsn[l].protocol = protocol})

rlpm_next_listener(s, l, protocol) ==
  FirstOf(ListFrom(s, s.lsn[l].next), {i \in Listeners : s.lsn[i].protocol = protocol})
-----------------------------------------------------------------------------
(***************************************************************************)
(* What is on the wire.  A PDU has a vector (the protocol), a header (the  *)
(* source CID) and data, each given or "same" as in the PDU before; fits   *)
(* says that its length stays within the packet and holds its own fields.  *)
(***************************************************************************)
\* The first PDU of a block has all its fields, the others take the header of
\* the first.  rlp_init_block makes the block empty, also when a PDU that was
\* sent before begins the new block.
rlp_add_pdu(block, owner, unit) ==
  Append(block, [vec |-> unit.protocol,
                 hdr |-> IF block = <<>> THEN owner ELSE "same",
                 data |-> unit.data, fits |-> TRUE])

\* What a component that runs this code sends: meant is what its clients gave.
Sent(owner, units) ==
  LET block[n \in 0 .. Len(units)] ==
        IF n = 0 THEN <<>> ELSE rlp_add_pdu(block[n - 1], owner, units[n])
  IN  [pdus |-> block[Len(units)],
       meant |-> [i \in DOMAIN units |->
                    [protocol |-> units[i].protocol, src |-> owner, data |-> units[i].data]]]

\* The last of some positions in a block.
Latest(S) == CHOOSE i \in S : \A j \in S : j <= i

\* What any other sender may put on the wire: a field that is not given is that
\* of the last PDU that gives it, and what follows a broken PDU is not read.
Foreign(pdus) ==
  LET whole == CHOOSE n \in 0 .. Len(pdus) :
                 /\ \A i \in 1 .. n : pdus[i].fits
                 /\ n = Len(pdus) \/ ~pdus[n + 1].fits
  IN  [pdus |-> pdus,
       meant |-> [i \in 1 .. whole |->
         [protocol |-> pdus[Latest({j \in 1 .. i : pdus[j].vec # "same"})].vec,
          src |-> pdus[Latest({j \in 1 .. i : pdus[j].hdr # "same"})].hdr,
          data |-> pdus[Latest({j \in 1 .. i : pdus[j].data # "same"})].data]]]

\* All the packets.
Packets == {Sent(b.owner, b.units) : b \in OwnBlocks} \cup {Foreign(q) : q \in ForeignBlocks}

-----------------------------------------------------------------------------
(***************************************************************************)
(* Actions of the clients (SDT: start, JOIN, timeouts, stop), one at a     *)
(* time under the lock, whatever the polling thread is doing.              *)
(***************************************************************************)
Tables == [s |-> rlp, kernel |-> kernel, refused |-> refused]

\* What free slots hold.  Nobody reads it but a dispatch that is under way, so it
\* is forgotten when there is none.
FreeGroup == [socket |-> NULL, addr |-> UNICAST, listeners |-> NULL, next |-> NULL]
FreeListener == [protocol |-> "none", rxgroup |-> NULL, next |-> NULL]

Forgotten(s) ==
  [s EXCEPT !.grp = [g \in RxGroups |-> IF @[g].socket = NULL THEN FreeGroup ELSE @[g]],
            !.lsn = [l \in Listeners |-> IF @[l].protocol = "none" THEN FreeListener ELSE @[l]]]

\* The tables become m.  History, while a packet is dispatched: which slots were
\* freed, the groups numbered after the listeners, and whether one of them was
\* handed out again.
Become(m) ==
  LET used(s) == {l \in Listeners : s.lsn[l].protocol # "none"}
                 \cup {MAX_LISTENERS + g : g \in {i \in RxGroups : s.grp[i].socket # NULL}}
      freed == used(rlp) \ used(m.s)
      taken == used(m.s) \ used(rlp)
  IN  /\ rlp' = IF rx.phase = "idle" THEN Forgotten(m.s) ELSE m.s
      /\ kernel' = m.kernel
      /\ refused' = m.refused
      /\ rx' = IF rx.phase = "idle" THEN rx
               ELSE [rx EXCEPT !.steady = @ \ freed,
                               !.got = [l \in Listeners |-> IF l \in freed THEN <<>> ELSE @[l]],
                               !.freed = @ \cup freed,
                               !.reused = @ \/ taken \cap rx.freed # {},
                               !.changes = IF m = Tables THEN @ ELSE @ + 1]

\* The lock is free at any time.  Bound: MaxChanges in one dispatch; at its end
\* the tables are not read any more, so what comes then comes after it.
MayChange == rx.phase # "idle" => rx.phase # "end" /\ rx.changes < MaxChanges

OpenSocket(p, ok) ==
  /\ MayChange
  /\ nsk_find_netsock(rlp, p) # NULL => ok   \* nothing to fail
  /\ Become([Tables EXCEPT !.s = rlp_open_netsocket(rlp, p, ok)])
  /\ UNCHANGED asked

\* A client closes a socket it has open.
CloseSocket(k) ==
  /\ MayChange
  /\ rlp.nsk[k].open
  /\ Become([Tables EXCEPT !.s = rlp_close_netsocket(rlp, k),
                           !.kernel = IF rlpm_netsock_has_rxgroups(rlp, k) THEN @
                                      ELSE {j \in @ : j[1] # k}])
  /\ UNCHANGED asked

AddListener(k, addr, protocol, ok) ==
  LET r == rlp_add_listener(Tables, k, addr, protocol, ok)
  IN  /\ MayChange
      /\ rlp.nsk[k].open
      /\ rx.phase # "idle" => addr \in Groups \cup {UNICAST}   \* others do as these, or nothing
      /\ GroupAddr(addr) \notin Groups \/ rlpm_find_rxgroup(rlp, k, addr) # NULL => ok
      /\ Become(r.m)
      /\ asked' = IF r.l = NULL THEN asked
                  ELSE [l \in DOMAIN asked \cup {r.l} |->
                          IF l = r.l THEN [socket |-> k, addr |-> GroupAddr(addr),
                                           protocol |-> protocol]
                          ELSE asked[l]]

\* sdt_rx_join's remove_allocations deletes the listener, and then the channel,
\* which deletes the listener again: `twice'.
DelListener(l, twice) ==
  LET k == asked[l].socket
      once == rlp_del_listener(Tables, k, l)
  IN  /\ MayChange
      /\ l \in DOMAIN asked
      /\ Become(IF twice THEN rlp_del_listener(once, k, l) ELSE once)
      /\ asked' = [i \in DOMAIN asked \ {l} |-> asked[i]]

(***************************************************************************)
(* The dispatch of a packet, in the polling thread: rlp_process_packet.    *)
(***************************************************************************)
\* The block has ended, or breaks off.
Over(r, i) == i > Len(r.packet.pdus) \/ ~r.packet.pdus[i].fits

\* A packet to address a arrives at socket k: any member of a on this host
\* brings it to all sockets of the port.  A packet for a group that RLP does not
\* have, or whose first PDU lacks a field, is dropped.
RxPacket(k, a, p) ==
  LET g == rlpm_find_rxgroup(rlp, k, a)
  IN  /\ rx.phase = "idle"
      /\ rlp.nsk[k].open
      /\ ~Over([packet |-> p], 1)
      /\ a = UNICAST \/ \E j \in kernel : j[2] = a
      /\ g # NULL
      /\ "same" \notin {p.pdus[1].vec, p.pdus[1].hdr, p.pdus[1].data}
      /\ rx' = [phase |-> "pdu", socket |-> k, addr |-> a, group |-> g, packet |-> p, i |-> 1,
                protocol |-> "none", src |-> "none", data |-> "none", cursor |-> NULL,
                steady |-> {l \in DOMAIN asked : asked[l].socket = k /\ asked[l].addr = a},
                got |-> [l \in Listeners |-> <<>>], freed |-> {}, reused |-> FALSE,
                stray |-> FALSE, changes |-> 0]
      /\ UNCHANGED <<rlp, kernel, refused, asked>>

\* A field that is given is taken, one that is not stays.
Inherit(given, before) == IF given = "same" THEN before ELSE given

\* The next listener gets the PDU, or the next PDU is read, if there is one.
Go(r, l) ==
  CASE l # NULL -> [r EXCEPT !.cursor = l, !.phase = "call"]
    [] l = NULL /\ ~Over(r, r.i + 1) -> [r EXCEPT !.cursor = l, !.phase = "pdu", !.i = @ + 1]
    [] l = NULL /\ Over(r, r.i + 1) -> [r EXCEPT !.cursor = l, !.phase = "end"]

NextPdu ==
  LET pdu == rx.packet.pdus[rx.i]
      r == [rx EXCEPT !.protocol = Inherit(pdu.vec, @), !.src = Inherit(pdu.hdr, @),
                      !.data = Inherit(pdu.data, @)]
  IN  /\ rx.phase = "pdu"
      /\ rx' = Go(r, rlpm_first_listener(rlp, rx.group, r.protocol))
      /\ UNCHANGED <<rlp, kernel, refused, asked>>

Callback ==
  LET l == rx.cursor
      mine == l \in DOMAIN asked /\ [socket |-> rx.socket, addr |-> rx.addr,
                                     protocol |-> rx.protocol] = asked[l]
  IN  /\ rx.phase = "call"
      /\ rx' = [rx EXCEPT !.phase = "back",
                          !.got[l] = IF l \in rx.steady
                                     THEN Append(@, [src |-> rx.src, data |-> rx.data]) ELSE @,
                          !.stray = @ \/ (l \in DOMAIN asked /\ ~mine)]
      /\ UNCHANGED <<rlp, kernel, refused, asked>>

\* What follows the listener is read when its callback has returned.
NextListener ==
  /\ rx.phase = "back"
  /\ rx' = Go(rx, rlpm_next_listener(rlp, rx.cursor, rx.protocol))
  /\ UNCHANGED <<rlp, kernel, refused, asked>>

RxDone ==
  /\ rx.phase = "end"
  /\ rx' = [phase |-> "idle"]
  /\ rlp' = Forgotten(rlp)
  /\ UNCHANGED <<kernel, refused, asked>>

\* Bound: a dispatch is not followed any further once a slot freed in it was
\* handed out again.
RlpNext ==
  /\ rx.phase # "idle" => ~rx.reused
  /\ \/ \E p \in Ports, ok \in BOOLEAN : OpenSocket(p, ok)
     \/ \E k \in Sockets : CloseSocket(k)
     \/ \E k \in Sockets, a \in Addresses, p \in Protocols, ok \in BOOLEAN :
          AddListener(k, a, p, ok)
     \/ \E l \in DOMAIN asked, twice \in BOOLEAN : DelListener(l, twice)
     \/ /\ rx.phase = "idle"
        /\ \E k \in Sockets, a \in Groups \cup {UNICAST}, p \in Packets : RxPacket(k, a, p)
     \/ NextPdu
     \/ Callback
     \/ NextListener
     \/ RxDone

RlpSpec == RlpInit /\ [][RlpNext]_rlpVars
-----------------------------------------------------------------------------
(***************************************************************************)
(* Properties.                                                             *)
(***************************************************************************)
\* Types; a socket that is not open is free (netsock.c), and an open one has a
\* port of its own.
RlpTypeOK ==
  /\ rlp.nsk \in [Sockets -> [port : Ports \cup {"none"}, open : BOOLEAN]]
  /\ \A k \in Sockets : rlp.nsk[k].open <=> rlp.nsk[k].port # "none"
  /\ \A j, k \in Sockets : rlp.nsk[j].open /\ rlp.nsk[j].port = rlp.nsk[k].port => j = k
  /\ rlp.head \in RxGroups \cup {NULL}
  /\ rlp.grp \in [RxGroups -> [socket : Sockets \cup {NULL}, addr : Groups \cup {UNICAST},
                               listeners : Listeners \cup {NULL}, next : RxGroups \cup {NULL}]]
  /\ rlp.lsn \in [Listeners -> [protocol : Protocols \cup {"none"},
                                rxgroup : RxGroups \cup {NULL}, next : Listeners \cup {NULL}]]
  /\ kernel \subseteq Sockets \X Groups
  /\ refused \subseteq Sockets \X Groups
  /\ \A l \in DOMAIN asked :
       asked[l] \in [socket : Sockets, addr : Groups \cup {UNICAST}, protocol : Protocols]
  /\ rx.phase \in {"idle", "pdu", "call", "back", "end"}

\* The pools and the lists agree with what the clients asked for (rlpmem.c):
\* each registration is one slot, once in the list of one group, which is that of
\* its socket and address; no other slot is in use, and no group is empty.
ListsSound ==
  /\ {l \in Listeners : rlp.lsn[l].protocol # "none"} = DOMAIN asked
  /\ LET groups == GroupList(rlp)
         members(g) == {l \in DOMAIN asked : rlp.lsn[l].rxgroup = g}
     IN  /\ \A l \in DOMAIN asked :
              LET g == rlp.lsn[l].rxgroup
              IN  asked[l] = [socket |-> rlp.grp[g].socket, addr |-> rlp.grp[g].addr,
                              protocol |-> rlp.lsn[l].protocol]
         /\ {groups[i] : i \in DOMAIN groups} = {g \in RxGroups : rlp.grp[g].socket # NULL}
         /\ Len(groups) = Cardinality({g \in RxGroups : members(g) # {}})
         /\ \A i \in DOMAIN groups :
              LET its == ListenersOf(rlp, groups[i])
              IN  /\ its # <<>>
                  /\ {its[j] : j \in DOMAIN its} = members(groups[i])
                  /\ Len(its) = Cardinality(members(groups[i]))

\* The memberships of the kernel are those of the groups RLP has listeners for,
\* but for the ones it refused, and they belong to open sockets (rlp_open_rxgroup,
\* rlp_close_rxgroup, rlp_close_netsocket).
KernelAgrees ==
  /\ kernel \cap refused = {}
  /\ kernel \cup refused =
       {<<asked[l].socket, asked[l].addr>> : l \in {i \in DOMAIN asked : asked[i].addr \in Groups}}
  /\ \A j \in kernel : rlp.nsk[j[1]].open

\* What a listener for a protocol is to get of a packet.
UnitsFor(meant, protocol) ==
  LET its[n \in 0 .. Len(meant)] ==
        IF n = 0 THEN <<>>
        ELSE IF meant[n].protocol = protocol
             THEN Append(its[n - 1], [src |-> meant[n].src, data |-> meant[n].data])
             ELSE its[n - 1]
  IN  its[Len(meant)]

\* "When a packet is received matching the netsocket, the destination address,
\* and the protocol, the associated callback function is invoked" (rlp.c): a
\* listener that is registered throughout the dispatch gets exactly the units of
\* its protocol, in order, whatever listeners come and go meanwhile, and nobody
\* gets what is not for it - as long as no slot freed meanwhile is handed out
\* again.
ExactlyItsUnits ==
  rx.phase = "end" /\ ~rx.reused =>
    /\ ~rx.stray
    /\ \A l \in rx.steady : rx.got[l] = UnitsFor(rx.packet.meant, asked[l].protocol)
=============================================================================
