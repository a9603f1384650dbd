------------------------------ MODULE SlpAgent ------------------------------
(***************************************************************************)
(* The SLP agent (acnsrc/slp/slp.c) with its only client in the library,   *)
(* discover.c: it looks for directory agents (DAs), registers a component  *)
(* with each of them, keeps the registration alive, and asks them for the  *)
(* components of others.                                                   *)
(*                                                                         *)
(* Every call of slp.c holds ACN_PORT_PROTECT from its first look at the   *)
(* tables to its last change (the exception is slp_close), so a call is    *)
(* one action.  The agent is a record of slp.c's globals; a message is     *)
(* what slp_tick sends and sends again.  The DAs and the network are       *)
(* external: slpd or another RFC 2608 DA, and UDP, which loses, delays and *)
(* reorders.                                                               *)
(*                                                                         *)
(* xid is a 16-bit counter; here a new message takes the least number that *)
(* no message, no packet and no search uses, so the wrap of xid (to 0,     *)
(* which marks a free message) is left out.  So is the flag dirty of the   *)
(* components found, which nothing in the library reads.                   *)
(***************************************************************************)
EXTENDS Integers, Sequences, FiniteSets, SequencesExt

CONSTANTS
  DAs,                   \* the directory agents, by address
  Urls,                  \* components of this host that may be registered
  Others,                \* components of other hosts, registered at every DA
  NULL,                  \* no address, no URL
  App,                   \* what the application does, among AppCalls
  MAX_DA,                \* DAs the agent can track
  MAX_RQST,              \* messages it can track
  SLP_RETRIES,           \* times a message is sent
  CONFIG_RETRY,          \* ticks between them
  CONFIG_MC_MAX,         \* ticks between the requests of one search for DAs
  CONFIG_MC_RETRY_COUNT, \* requests of one search
  CONFIG_DA_FIND,        \* ticks between two searches
  CONFIG_START_WAIT,     \* longest wait before the first search
  CONFIG_DA_BEAT,        \* ticks after which a silent DA is dropped
  CONFIG_REG_ACTIVE,     \* longest wait before a registration
  REFRESH,               \* SLP_REGIGISTION_REFRESH
  LIFETIME,              \* SLP_REGIGRATION_LIFETIME, in ticks
  MaxDelay,              \* bound: ticks a packet is on its way, then it is lost
  MaxInFlight,           \* bound: a DA advertises when fewer packets are on their way
  MaxAsks,               \* bound: requests on the table when the client asks
  MaxBoots               \* bound: boots of all the DAs together

\* discover_register, discover_deregister, discover_acn, slp_close (and
\* slp_open again).
AppCalls == {"register", "deregister", "discover", "close"}

ASSUME AppType == App \subseteq AppCalls
ASSUME Sizes ==
  {MAX_DA, MAX_RQST, SLP_RETRIES, CONFIG_RETRY, CONFIG_MC_RETRY_COUNT, MaxDelay,
   MaxBoots} \subseteq Nat \ {0}
ASSUME Times ==
  /\ {CONFIG_MC_MAX, CONFIG_DA_FIND, CONFIG_START_WAIT, CONFIG_REG_ACTIVE,
      MaxAsks, MaxInFlight} \subseteq Nat
  /\ REFRESH \in Nat \ {0} /\ CONFIG_DA_BEAT \in Nat /\ LIFETIME \in Nat
  /\ REFRESH < CONFIG_DA_BEAT /\ REFRESH < LIFETIME
ASSUME NetworkIsFinite == IsFiniteSet(DAs) /\ IsFiniteSet(Urls) /\ IsFiniteSet(Others)
ASSUME NullIsNothing == NULL \notin DAs \cup Urls \cup Others
ASSUME OwnAndOthers == Urls \cap Others = {}

VARIABLES
  slp,    \* the globals of slp.c
  found,  \* discover.c: the components of others it has handed to the client
  das,    \* the DAs: das[d].boot is 0 while d is down
  net,    \* packets on their way
  gone    \* history: URLs that were deregistered

vars == <<slp, found, das, net, gone>>

Slots == 1..MAX_DA

EmptySlot == [ip |-> NULL, timeout |-> 0, counter |-> 0, boot |-> 0]

\* slp_init: everything is zero, no socket.
SlpInit ==
  [dead |-> FALSE,    \* the process died of a null pointer
   open |-> FALSE,    \* slp_socket is not NULL
   closing |-> FALSE, \* slp_close waits in da_close
   dda  |-> [discover |-> FALSE, counter |-> 0, xmits |-> 0, xid |-> 0],
   da   |-> [k \in Slots |-> EmptySlot],
   msgs |-> <<>>,     \* from FirstMsg on, the newest first
   url  |-> NULL,     \* discover.c's one buffer, acn_srv_url
   reg  |-> FALSE]    \* reg_props holds a pointer to it

(***************************************************************************)
(* The table of messages and the table of DAs.                             *)
(***************************************************************************)
Xids(s) ==
  {s.msgs[i].xid : i \in DOMAIN s.msgs} \cup {p.xid : p \in net} \cup {s.dda.xid}

\* xid++, as a number of nothing that is still around.
NewXid(s) ==
  CHOOSE x \in 1..Cardinality(Xids(s)) + 1 :
    x \notin Xids(s) /\ \A y \in 1..x-1 : y \in Xids(s)

\* msg_new and what its callers fill in: a full table refuses, and nobody asks.
msg_new(s, type, slot, url, delay) ==
  IF Len(s.msgs) = MAX_RQST THEN s
  ELSE [s EXCEPT !.msgs = <<[type |-> type, xid |-> NewXid(s), slot |-> slot,
                             url |-> url, counter |-> delay,
                             retries |-> SLP_RETRIES]>> \o @]

\* Mutant of msg_free: the message stays.
msg_free_forgets(s, x) == s

\* msg_find_by_xid.
Numbered(s, x) == {i \in DOMAIN s.msgs : s.msgs[i].xid = x}

msg_free(s, x) ==
  IF Numbered(s, x) = {} THEN s
  ELSE [s EXCEPT !.msgs = RemoveAt(@, CHOOSE i \in Numbered(s, x) : TRUE)]

msg_count(s) == Len(s.msgs)

\* da_find_by_ip, da_first: the first such slot, 0 for none.
FirstSlot(test) ==
  IF test = {} THEN 0 ELSE CHOOSE k \in test : \A j \in test : k <= j

da_find_by_ip(s, ip) == FirstSlot({k \in Slots : s.da[k].ip = ip})
da_first(s)          == FirstSlot({k \in Slots : s.da[k].ip # NULL})
da_ip_list(s)        == {s.da[k].ip : k \in Slots} \ {NULL}

\* da_delete clears the ip; the rest of a free slot is not read before NewDa
\* writes it, and is 0 here.
da_delete(s, k)      == [s EXCEPT !.da[k] = EmptySlot]
da_delete_all(s)     == [s EXCEPT !.da = [k \in Slots |-> EmptySlot]]
da_service_ack(s, k) ==
  IF s.da[k].ip = NULL THEN s ELSE [s EXCEPT !.da[k].timeout = CONFIG_DA_BEAT]

\* For all slots from the first to the last, and for all entries of a list.  (They
\* are functions by recursion, which can be reasoned about as a fold cannot.)
ForAllSlots(op(_, _), s) ==
  LET done[k \in 0 .. MAX_DA] == IF k = 0 THEN s ELSE op(done[k - 1], k) IN done[MAX_DA]

InTurn(op(_, _), s, list) ==
  LET done[n \in 0 .. Len(list)] == IF n = 0 THEN s ELSE op(done[n - 1], list[n])
  IN  done[Len(list)]

(***************************************************************************)
(* Registrations.  reg_props holds the pointer acn_srv_url, so it is the   *)
(* present text of the buffer that goes into a message.                    *)
(***************************************************************************)
da_reg_prop(s, k, delay) == msg_new(s, "REG", k, s.url, delay)
da_dereg_prop(s, k)      == msg_new(s, "DEREG", k, s.url, 0)

\* Mutant of da_reg: what is in the buffer is registered, wanted or not.
da_reg_always(s, k, delay) == [da_reg_prop(s, k, delay) EXCEPT !.da[k].counter = REFRESH]

\* Mutant of da_reg: a DA that is found is not told.
da_reg_forgets(s, k, delay) == [s EXCEPT !.da[k].counter = REFRESH]

da_reg(s, k, delay) ==
  [(IF s.reg THEN da_reg_prop(s, k, delay) ELSE s) EXCEPT !.da[k].counter = REFRESH]

\* The registration of the pointer: reg_prop_find does not compare strings.
reg_prop_find(s) == s.reg
reg_prop_add(s)  == [s EXCEPT !.reg = TRUE]
reg_prop_del(s)  == [s EXCEPT !.reg = FALSE]

\* slp_reg: the registration is noted, or found, and told to every DA.
RegAt(s, k) == IF s.da[k].ip = NULL THEN s ELSE da_reg_prop(s, k, 0)

slp_reg(s) == ForAllSlots(RegAt, IF reg_prop_find(s) THEN s ELSE reg_prop_add(s))

\* slp_dereg: the registration is dropped inside the loop over the DAs: without
\* a DA it stays, and for a second DA its strings are gone.
DeregAt(s, k) ==
  CASE s.da[k].ip = NULL -> s
    [] s.da[k].ip # NULL /\ s.reg -> reg_prop_del(da_dereg_prop(s, k))
    [] s.da[k].ip # NULL /\ ~s.reg -> [s EXCEPT !.dead = TRUE]

slp_dereg(s) == IF reg_prop_find(s) THEN ForAllSlots(DeregAt, s) ELSE s

\* da_dereg_all, with the one registration discover.c makes.
DeregAllAt(s, k) == IF s.da[k].ip = NULL THEN s ELSE da_dereg_prop(s, k)

da_dereg_all(s) == [ForAllSlots(DeregAllAt, s) EXCEPT !.reg = FALSE]

slp_dereg_all(s) == IF s.reg THEN da_dereg_all(s) ELSE s

\* Mutant of NewDa: the time it may be silent is not set.
NewDaForgetsTimeout(s, k, ip, boot, delay) ==
  da_reg([s EXCEPT !.da[k] = [@ EXCEPT !.ip = ip, !.boot = boot]], k, delay)

\* An unknown DA takes slot k and is to get the registration.
NewDa(s, k, ip, boot, delay) ==
  da_reg([s EXCEPT !.da[k] = [@ EXCEPT !.ip = ip, !.timeout = CONFIG_DA_BEAT, !.boot = boot]],
         k, delay)

\* Mutant of da_add: a DA that has booted again is kept.
da_add_ignores_boot(s, ip, boot, delay) ==
  LET k == da_find_by_ip(s, ip)
      f == da_find_by_ip(s, NULL)
  IN  CASE k # 0 /\ boot = 0 -> da_delete(s, k)
        [] k # 0 /\ boot # 0 -> da_service_ack([s EXCEPT !.da[k].boot = boot], k)
        [] k = 0 /\ f # 0    -> NewDa(s, f, ip, boot, delay)
        [] k = 0 /\ f = 0    -> s

\* da_add: a known DA is kept, or dropped when it goes down or has booted again
\* (the next advertisement adds it); an unknown one is added, even one that
\* says it goes down, unless the list is full.
da_add(s, ip, boot, delay) ==
  LET k == da_find_by_ip(s, ip)
      f == da_find_by_ip(s, NULL)
  IN  CASE k # 0 /\ boot \in {0} \cup {b \in 1..MaxBoots : b # s.da[k].boot} -> da_delete(s, k)
        [] k # 0 /\ boot # 0 /\ boot = s.da[k].boot -> da_service_ack(s, k)
        [] k = 0 /\ f # 0 -> NewDa(s, f, ip, boot, delay)
        [] k = 0 /\ f = 0 -> s

(***************************************************************************)
(* Packets.                                                                *)
(***************************************************************************)
ToDa(d, type, x, url) ==
  [dir |-> "to", da |-> d, type |-> type, xid |-> x, url |-> url,
   urls |-> {}, boot |-> 0, ok |-> TRUE, ttl |-> MaxDelay]

FromDa(d, type, x, ok, boot, url, urls) ==
  [dir |-> "from", da |-> d, type |-> type, xid |-> x, url |-> url,
   urls |-> urls, boot |-> boot, ok |-> ok, ttl |-> MaxDelay]

\* What is sent to a DA for message m; a request for services names no URL.
slp_send_reg(d, m)     == ToDa(d, "REG", m.xid, m.url)
slp_send_dereg(d, m)   == ToDa(d, "DEREG", m.xid, m.url)
slp_send_srvrqst(d, m) == ToDa(d, "SRVRQST", m.xid, NULL)
slp_send_attrrqst(d, m) == ToDa(d, "ATTRRQST", m.xid, m.url)

\* To where the DA's slot points now, which may be nowhere or another DA.
Send(s, m) ==
  LET d == s.da[m.slot].ip
  IN  IF ~s.open \/ d = NULL THEN {}
      ELSE {CASE m.type = "REG"      -> slp_send_reg(d, m)
              [] m.type = "DEREG"    -> slp_send_dereg(d, m)
              [] m.type = "SRVRQST"  -> slp_send_srvrqst(d, m)
              [] m.type = "ATTRRQST" -> slp_send_attrrqst(d, m)}

\* slp_discover_da: by multicast, with the list of the DAs that need not answer.
slp_discover_da(s) ==
  IF s.open THEN {ToDa(d, "DISCOVER", s.dda.xid, NULL) : d \in DAs \ da_ip_list(s)} ELSE {}

\* A search (again): the request is number n of it.
Search(s, n) ==
  [s EXCEPT !.dda.counter = CONFIG_MC_MAX, !.dda.xmits = n, !.dda.xid = NewXid(s)]

(***************************************************************************)
(* slp_tick.                                                               *)
(***************************************************************************)
SearchDue(s)  == s.dda.discover /\ s.dda.counter = 0 /\ s.dda.xmits # CONFIG_MC_RETRY_COUNT

TickSearch(s) ==
  IF ~s.dda.discover THEN s
  ELSE IF s.dda.counter # 0 THEN [s EXCEPT !.dda.counter = @ - 1]
  ELSE [s EXCEPT !.dda.counter = CONFIG_DA_FIND, !.dda.xmits = 0, !.dda.xid = 0]

\* Mutant of TickDa: a DA does not time out.
TickDaForEver(s, k, delay) ==
  LET t == [s EXCEPT !.da[k].counter = @ - 1]
  IN  CASE s.da[k].ip = NULL -> s
        [] s.da[k].ip # NULL /\ t.da[k].counter = 0 -> da_reg(t, k, delay)
        [] s.da[k].ip # NULL /\ t.da[k].counter # 0 -> t

TickDa(s, k, delay) ==
  LET t == [s EXCEPT !.da[k].timeout = @ - 1]
      r == [t EXCEPT !.da[k].counter = @ - 1]
  IN  CASE s.da[k].ip = NULL -> s
        [] s.da[k].ip # NULL /\ t.da[k].timeout = 0 -> da_delete(t, k)
        [] s.da[k].ip # NULL /\ t.da[k].timeout # 0 /\ r.da[k].counter = 0 -> da_reg(r, k, delay)
        [] s.da[k].ip # NULL /\ t.da[k].timeout # 0 /\ r.da[k].counter # 0 -> r

Result(s, out) == [s |-> s, out |-> out]

\* Mutant of TickMsg: a request that is given up stays on the table.
TickMsgForEver(res, m) ==
  LET s == res.s
      keep(n) == [s EXCEPT !.msgs = Append(@, n)]
  IN  CASE m.counter # 0 -> Result(keep([m EXCEPT !.counter = @ - 1]), res.out)
        [] m.counter = 0 /\ m.retries # 0 ->
             Result(keep([m EXCEPT !.counter = CONFIG_RETRY - 1, !.retries = @ - 1]),
                    res.out \cup Send(s, m))
        [] m.counter = 0 /\ m.retries = 0 ->
             Result(da_delete(keep(m), m.slot), res.out)

\* One message: it waits; it is sent, and counted down in the same round; or it
\* is given up, and its DA with it, and nobody is told.
TickMsg(res, m) ==
  LET s == res.s
      keep(n) == [s EXCEPT !.msgs = Append(@, n)]
  IN  CASE m.counter # 0 -> Result(keep([m EXCEPT !.counter = @ - 1]), res.out)
        [] m.counter = 0 /\ m.retries # 0 ->
             Result(keep([m EXCEPT !.counter = CONFIG_RETRY - 1, !.retries = @ - 1]),
                    res.out \cup Send(s, m))
        [] m.counter = 0 /\ m.retries = 0 -> Result(da_delete(s, m.slot), res.out)

TickDas(s, delay) == ForAllSlots(LAMBDA u, k : TickDa(u, k, delay), s)
TickMsgs(s)       == InTurn(TickMsg, Result([s EXCEPT !.msgs = <<>>], {}), s.msgs)

\* The whole call: a tick that sends a request for DAs does nothing else.
slp_tick(s, delay) ==
  IF SearchDue(s)
    THEN LET t == Search(s, s.dda.xmits + 1) IN Result(t, slp_discover_da(t))
    ELSE TickMsgs(TickDas(TickSearch(s), delay))

(***************************************************************************)
(* The actions of the agent.                                               *)
(***************************************************************************)
Delays == 0..CONFIG_REG_ACTIVE

\* The packets that are still on their way after a tick.
Aged == {[p EXCEPT !.ttl = @ - 1] : p \in {q \in net : q.ttl > 1}}

\* Time passes: the timer calls slp_tick, the registrations age at the DAs,
\* packets get old or are lost.
Tick ==
  /\ ~slp.dead
  /\ \E r \in {slp_tick(slp, delay) : delay \in Delays} :
       /\ slp' = r.s
       /\ net' = Aged \cup r.out
  /\ das' = [d \in DAs |-> [das[d] EXCEPT
               !.regs = [u \in Urls |-> IF @[u] = 0 THEN 0 ELSE @[u] - 1]]]
  /\ UNCHANGED <<found, gone>>

\* slp_open; when the network refuses, nothing has changed.
Open ==
  /\ ~slp.dead /\ ~slp.open
  /\ slp' = [slp EXCEPT !.open = TRUE]
  /\ UNCHANGED <<found, das, net, gone>>

\* slp_active_discovery_start, which acntest.c calls once.
StartDiscovery ==
  /\ slp.open /\ ~slp.dda.discover
  /\ \E wait \in 0..CONFIG_START_WAIT :
       slp' = [slp EXCEPT !.dda = [discover |-> TRUE, counter |-> wait, xmits |-> 0, xid |-> 0]]
  /\ UNCHANGED <<found, das, net, gone>>

\* The application is not inside slp_close.
AppFree == slp.open /\ ~slp.closing /\ ~slp.dead

\* discover_register: the buffer is written before slp_reg looks at it.
Register(u) ==
  /\ "register" \in App /\ AppFree
  /\ msg_count(slp) + MAX_DA <= MaxAsks
  /\ slp' = slp_reg([slp EXCEPT !.url = u])
  /\ UNCHANGED <<found, das, net, gone>>

\* discover_deregister: of whatever component the registration was.
Deregister(u) ==
  /\ "deregister" \in App /\ AppFree
  /\ msg_count(slp) + MAX_DA <= MaxAsks
  /\ slp' = slp_dereg([slp EXCEPT !.url = u])
  /\ gone' = gone \cup {u}
  /\ UNCHANGED <<found, das, net>>

\* A request to ip 0 goes to the first DA of the list, if any.
Ask(s, type, u)    == IF da_first(s) = 0 THEN s ELSE msg_new(s, type, da_first(s), u, 0)
slp_srvrqst(s)     == Ask(s, "SRVRQST", NULL)
slp_attrrqst(s, u) == Ask(s, "ATTRRQST", u)

\* discover.c asks for the attributes of every URL it is told of.
srvrqst_callback(s, u) == slp_attrrqst(s, u)

\* discover.c adds the component, unless it is ours ("Look! I see can myself!")
\* or known; the addresses in the attributes are taken to be reachable.
attrrqst_callback(f, u) == f \cup ({u} \cap Others)

\* discover_acn.
Discover ==
  /\ "discover" \in App /\ AppFree
  /\ msg_count(slp) < MaxAsks
  /\ slp' = slp_srvrqst(slp)
  /\ UNCHANGED <<found, das, net, gone>>

\* slp_close tells the DAs, and waits without the lock.
Close ==
  /\ "close" \in App /\ AppFree
  /\ slp' = [slp_dereg_all(slp) EXCEPT !.closing = TRUE]
  /\ gone' = IF slp.reg THEN gone \cup {slp.url} ELSE gone
  /\ UNCHANGED <<found, das, net>>

\* The wait ends when there is no message left, or after 20 looks.  The timer
\* goes on, and so does what it has still to send.
Closed ==
  /\ slp.closing /\ ~slp.dead
  /\ slp' = [da_delete_all(slp) EXCEPT !.open = FALSE, !.closing = FALSE]
  /\ UNCHANGED <<found, das, net, gone>>

\* A packet p is taken off the network by slp_recv.
Arrives(p, type) == p \in net /\ p.dir = "from" /\ p.type = type /\ slp.open /\ ~slp.dead

\* The message p answers, whatever p says.
Waiting(p) == Numbered(slp, p.xid)

\* slp_receive_daadvert: the answer to our search starts another round of it.
RxDaAdvert(p) ==
  /\ Arrives(p, "DAADVERT")
  /\ \E delay \in Delays :
       LET s == da_add(slp, p.da, p.boot, delay)
           again == s.dda.discover /\ s.dda.xid # 0 /\ p.xid = s.dda.xid
           t == IF again THEN Search(s, 1) ELSE s
       IN  /\ slp' = t
           /\ net' = (net \ {p}) \cup (IF again THEN slp_discover_da(t) ELSE {})
  /\ UNCHANGED <<found, das, gone>>

\* slp_receive_svrack: the sender is not compared, the DA is the one in the
\* slot of the message.
RxSvrAck(p) ==
  /\ Arrives(p, "SVRACK")
  /\ net' = net \ {p}
  /\ slp' = IF Waiting(p) = {} THEN slp
            ELSE LET m == slp.msgs[CHOOSE i \in Waiting(p) : TRUE]
                     s == IF p.ok THEN da_service_ack(slp, m.slot) ELSE da_delete(slp, m.slot)
                 IN  msg_free(s, p.xid)
  /\ UNCHANGED <<found, das, gone>>

\* slp_receive_srvrply with srvrqst_callback: each URL is asked for its
\* attributes, before the message is freed.
RxSrvRply(p) ==
  /\ Arrives(p, "SRVRPLY")
  /\ net' = net \ {p}
  /\ slp' = IF Waiting(p) = {} THEN slp
            ELSE LET us == IF p.ok THEN SetToSeq(p.urls) ELSE <<>>
                     s  == InTurn(srvrqst_callback, slp, us)
                 IN  msg_free(s, p.xid)
  /\ UNCHANGED <<found, das, gone>>

\* slp_receive_attrrply: of an answer with an error discover.c makes nothing.
RxAttrRply(p) ==
  /\ Arrives(p, "ATTRRPLY")
  /\ net' = net \ {p}
  /\ slp' = msg_free(slp, p.xid)
  /\ found' = IF Waiting(p) # {} /\ p.ok THEN attrrqst_callback(found, p.url) ELSE found
  /\ UNCHANGED <<das, gone>>

(***************************************************************************)
(* The directory agents (external): RFC 2608 as far as slp.c depends on it.*)
(***************************************************************************)
Up(d) == das[d].boot # 0

\* A DA answers a packet p, or refuses what it asks for.
DaAnswers(d, p, ok) ==
  /\ Up(d) /\ p \in net /\ p.dir = "to" /\ p.da = d
  /\ LET life == CASE p.type = "REG" -> LIFETIME [] OTHER -> 0
         regs == das[d].regs
         live == {u \in Urls : regs[u] # 0} \cup Others
         rply == CASE p.type = "DISCOVER" -> FromDa(d, "DAADVERT", p.xid, TRUE, das[d].boot, NULL, {})
                   [] p.type = "SRVRQST"  -> FromDa(d, "SRVRPLY", p.xid, ok, 0, NULL, live)
                   [] p.type = "ATTRRQST" -> FromDa(d, "ATTRRPLY", p.xid, ok, 0, p.url, {})
                   [] OTHER               -> FromDa(d, "SVRACK", p.xid, ok, 0, NULL, {})
     IN  /\ net' = (net \ {p}) \cup {rply}
         /\ das' = IF ok /\ p.type \in {"REG", "DEREG"}
                     THEN [das EXCEPT ![d].regs[p.url] = life] ELSE das
  /\ UNCHANGED <<slp, found, gone>>

\* An advertisement nobody asked for.
DaAdvertises(d) ==
  /\ Up(d) /\ Cardinality(net) < MaxInFlight
  /\ net' = net \cup {FromDa(d, "DAADVERT", 0, TRUE, das[d].boot, NULL, {})}
  /\ UNCHANGED <<slp, found, das, gone>>

\* A DA goes down, and says so or not; its registrations are lost.
DaStops(d) ==
  /\ Up(d)
  /\ das' = [das EXCEPT ![d].boot = 0, ![d].regs = [u \in Urls |-> 0]]
  /\ \/ net' = net
     \/ /\ Cardinality(net) < MaxInFlight
        /\ net' = net \cup {FromDa(d, "DAADVERT", 0, TRUE, 0, NULL, {})}
  /\ UNCHANGED <<slp, found, gone>>

\* The boot time of a DA is greater than all before it, here one more.
DaBoots(d) ==
  /\ ~Up(d)
  /\ \E n \in 1..MaxBoots :
       /\ \A e \in DAs : das[e].last < n
       /\ n = 1 \/ \E e \in DAs : das[e].last = n - 1
       /\ das' = [das EXCEPT ![d].boot = n, ![d].last = n]
  /\ UNCHANGED <<slp, found, net, gone>>

-----------------------------------------------------------------------------
Init ==
  /\ slp = SlpInit
  /\ found = {}
  /\ das = [d \in DAs |-> [boot |-> 0, last |-> 0, regs |-> [u \in Urls |-> 0]]]
  /\ net = {}
  /\ gone = {}

RxAny == \E p \in net : RxDaAdvert(p) \/ RxSvrAck(p) \/ RxSrvRply(p) \/ RxAttrRply(p)

AppAny == \/ Open \/ StartDiscovery \/ Discover \/ Close \/ Closed
          \/ \E u \in Urls : Register(u) \/ Deregister(u)

DaAny == \E d \in DAs : \/ \E p \in net, ok \in BOOLEAN : DaAnswers(d, p, ok)
                        \/ DaAdvertises(d) \/ DaStops(d) \/ DaBoots(d)

Next == Tick \/ RxAny \/ AppAny \/ DaAny

-----------------------------------------------------------------------------
(***************************************************************************)
(* Fairness: the timer runs (slp_tick is called every SLP_TMR_INTERVAL); a *)
(* DA that is asked again and again answers at last, and an answer that is *)
(* sent again and again arrives at last.                                   *)
(***************************************************************************)
Accepts(d, type) == \E p \in net : p.type = type /\ DaAnswers(d, p, TRUE)
Hears(d)         == \E p \in net : p.da = d /\ RxDaAdvert(p)

NetFair == \A d \in DAs : /\ SF_vars(Accepts(d, "REG"))
                          /\ SF_vars(Accepts(d, "DISCOVER"))
                          /\ SF_vars(Hears(d))

Spec == Init /\ [][Next]_vars /\ WF_vars(Tick) /\ NetFair

(***************************************************************************)
(* Properties.                                                             *)
(***************************************************************************)
Messages ==
  [type : {"REG", "DEREG", "SRVRQST", "ATTRRQST"}, xid : Nat \ {0}, slot : Slots,
   url : Urls \cup Others \cup {NULL}, counter : Nat, retries : 0..SLP_RETRIES]

\* Type invariant: no two messages have one number, no two slots one DA, and a
\* DA's timers are never 0 between two ticks (a 0 would count down from there).
TypeOK ==
  /\ \A i \in DOMAIN slp.msgs : slp.msgs[i] \in Messages
  /\ Len(slp.msgs) <= MAX_RQST
  /\ \A i, j \in DOMAIN slp.msgs : slp.msgs[i].xid = slp.msgs[j].xid => i = j
  /\ \A k \in Slots : slp.da[k].ip # NULL =>
       /\ slp.da[k].timeout \in 1..CONFIG_DA_BEAT /\ slp.da[k].counter \in 1..REFRESH
       /\ \A j \in Slots \ {k} : slp.da[j].ip # slp.da[k].ip
  /\ slp.closing => slp.open
  /\ slp.reg => slp.url \in Urls
  /\ found \subseteq Others

\* The DA of slot k is the one the agent knows, in the same life.
Current(k) ==
  LET a == slp.da[k] IN a.ip # NULL /\ Up(a.ip) /\ das[a.ip].boot = a.boot

\* What a component has registered is known to every DA on the agent's list, or
\* a message for it is still on the table: whatever is lost, refused, given up
\* or late, and although the DA forgets what is not refreshed in time
\* (SLP_REGIGISTION_REFRESH "must be less than SLP_REGIGRATION_LIFETIME").
\* Not for what was deregistered once: the table is sent from its newest entry
\* on, so the DEREG may overtake a REG or arrive after one.
RegisteredOrOnTheWay ==
  ~slp.dead /\ slp.reg /\ slp.url \notin gone =>
    \A k \in Slots : Current(k) =>
      \/ das[slp.da[k].ip].regs[slp.url] > 0
      \/ \E i \in DOMAIN slp.msgs : LET m == slp.msgs[i] IN
           m.type = "REG" /\ m.slot = k /\ m.url = slp.url

\* The client hears of a component once for each request (slp_receive_attrrply
\* frees the message): a second answer to a request that was sent again finds
\* no message.
AnsweredOnce ==
  [][\A p \in net : RxAttrRply(p) => p.xid \notin {slp'.msgs[i].xid : i \in DOMAIN slp'.msgs}]_vars

\* Every message leaves the table: answered, or given up after SLP_RETRIES.
RequestsEnd ==
  \A x \in 1..MAX_RQST :
    (\E i \in DOMAIN slp.msgs : slp.msgs[i].xid = x) ~>
      \/ slp.dead
      \/ \A i \in DOMAIN slp.msgs : slp.msgs[i].xid # x

\* A DA that is down for good is dropped for good (slp_tick, "Removing
\* non-responsive DA").
SilentDaDropped ==
  \A d \in DAs : <>[](~Up(d)) => <>[](slp.dead \/ d \notin da_ip_list(slp))

\* What nobody registers any more is forgotten by every DA, even when the
\* deregistration was lost or overtaken: the agent stops refreshing it.
GhostsFade ==
  \A d \in DAs, u \in Urls :
    <>[](~slp.reg \/ slp.url # u) => <>[](slp.dead \/ das[d].regs[u] = 0)

\* A registration reaches every DA that stays up, whatever was lost before
\* and however often the DA was given up in between.
EventuallyRegistered ==
  \A d \in DAs, u \in Urls :
    <>[](slp.reg /\ slp.url = u /\ slp.open /\ slp.dda.discover /\ Up(d))
      => []<>(slp.dead \/ das[d].regs[u] > 0)
=============================================================================
