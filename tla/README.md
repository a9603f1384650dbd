# A TLA+ model of OpenACN

OpenACN (`src/`) is a C implementation of ANSI E1.17 (ACN): a root layer over
UDP (RLP), a session protocol with reliable multicast (SDT), a device
management protocol on top (DMP), and service discovery by SLP.  This directory
holds TLA+ modules translated from that source, the TLC configurations that
check them, and proofs checked by TLAPS.  All paths below are relative to
`src/acnsrc/` unless they say otherwise.

## 1. The system

| Component | State it keeps | Operations | Talks to |
|---|---|---|---|
| SDT wrapper layer (`sdt/sdt.c`) | per channel: `total_seq`, `reliable_seq`, `oldest_avail`; the list of resend records | number and send a wrapper, classify a received one, NAK, flag for resend, expire records in `sdt_tick` | RLP below, the members' handlers above |
| SDT sessions (`sdt/sdt.c`) | per component: one `tx_channel` with members (`state`, `mid`, `expires_ms`), a listener per foreign channel | `sdt_join`, `sdt_leave`, handlers of JOIN, JOIN_ACCEPT, JOIN_REFUSE, LEAVING, ACK, LEAVE, CONNECT, CONNECT_ACCEPT ..., `sdt_tick`, `sdt_shutdown` | the peer by messages, the application by callbacks |
| SDT pools (`sdt/sdtmem.c`) | fixed arrays of channels, members and resend records, each with its own mark of "free" | new, free | SDT |
| RLP (`rlp/rlp.c`, `rlpmem.c`) | sockets, multicast groups, listeners; transmit buffers with use counts | add and delete a listener, process a packet, send a block | netxface below, SDT callbacks above |
| Components (`common/component.c`) | the list `allcomps` with use counts | get by CID, release | SDT, discovery |
| SLP (`slp/slp.c`) | pending messages with xid, timer and retries; directory agents; registered properties | register, deregister, requests, `slp_tick`, receive handlers, open and close | discovery, applications |
| Discovery (`slp/discover.c`) | none of its own | chain of SLP requests that ends in `sdt_add_component` | SLP, SDT |
| DMP (`dmp/dmp.c`, `dmpmem.c`) | properties, subscriptions per component | encode and decode addresses, compose and read messages, add and delete subscriptions | SDT |
| Multicast allocation (`common/mcast_util.c`) | the scope and host part of the process, a counter per component | initialise, draw a group | SDT, when it makes a channel |
| netsock, netxface, port layer | sockets; one recursive mutex | receive, send, `ACN_PORT_PROTECT` | everything |

Threads (see `src/build-native-linux/acntest.c`): one polls the network and
calls the receive handlers, one calls `sdt_tick` every 100 ms, and the
application calls `sdt_join` and `sdt_leave`.  All take the one recursive mutex
`ACN_PORT_PROTECT` (`platform/linux/acn_port.h:66`), so a handler or an API call
is one atomic step.  The exceptions: `sdt_join` keeps the lock on one path
(`SdtSession`); `rlp_process_packet` walks lists that others change (`Rlp`);
`dmp_tx_pdu` and `sdt_tx_reliable_data` take buffers without it (`TxBuffers`); DMP
composes its messages in one static area (`DmpMessages`); `slp_close` waits for its
messages without it (`SlpAgent`).

What is hard here: UDP multicast loses, repeats and reorders; a session is four
member records on two hosts that only messages keep in step; the timer thread
deletes members, channels and components under handlers that were written for
one order of events; every pool has a limit.

What makes each part correct:

* wrapper layer: to a member, the reliable wrappers after its JOIN are one
  stream without loss, repetition or reordering, or the member says it lost it;
  the leader never offers what it does not hold;
* sessions: nobody is taken for joined or connected who did not agree to exactly
  that channel and mid; whoever waits can hear; dead peers are noticed; nothing
  leaks when a handshake is taken back;
* pools: no record is handed out twice;
* RLP: a listener that is registered throughout a dispatch gets exactly the units
  of its protocol; the lists, the pools and the kernel's memberships agree;
* transmit buffers: each is counted once and somebody has it, so nobody starves;
* SLP: what is registered is at every DA on the list or on its way, also after
  losses, refusals and reboots; every request ends; what was withdrawn fades;
* DMP: a header and a message mean to the receiver what they meant to the sender;
  use counts of properties equal the subscriptions that refer to them;
* groups: hosts with different last octets never draw one group of a scope.

## 2. The modules

### `ReliableStream` - what the wrapper layer promises
Each member has a state (out, in, gone), a base (what was published when it
joined) and what was delivered to it.  A step publishes, joins a member, delivers
to a member the next item after the last, or ends a membership.  Nothing else.

### `SdtChannel` - the wrapper layer
One leader and the members of its channel.  The leader's variables are the
fields of `sdt_channel_t` (`channel`), the `resends` list (a function from the
reliable number to time left and resend flag; the list is LIFO and numbers grow,
so its order is that of the numbers), the static flag `sent_reliable` of
`sdt_format_wrapper`, its foreign members (`foreign`) and `hung`.  A member has its
copy of the channel (`copy`) and the state of its own record (`status`).  `sent`,
`join`, `naks` and `leaving` are the wire.  `delivered`, `handled` and `again` are
history.

| Action | Code |
|---|---|
| `TxReliable` | every sender of a reliable wrapper: number, `sdt_save_buffer`, transmit |
| `TxUnreliable` | `sdt_tx_ack`, `sdt_tx_mak_all`, `sdt_tx_mak_one` |
| `TxJoin`, `RxJoin` | the numbers a JOIN carries, and what `sdt_rx_join` does with them |
| `RxWrapper` | `sdt_rx_wrapper` up to the dispatch; `RxValid`, `RxGap`, `RxLost` are the verdicts of `check_sequence` |
| `RxNak` | `sdt_rx_nak` and `sdt_flag_for_resend` |
| `RxLeaving` | `sdt_rx_leaving`, which marks the record |
| `LeaderTick`, `MemberTick` | the two halves of `sdt_tick` |

The network removes nothing: a receiver may at any time process anything that
was ever sent.  That covers loss, delay, repetition and reordering at once.
Only a repeated JOIN is a separate choice (`DuplicateJoins`), because it sets a
member back.  Resending does not happen: `sdt_tx_resend` returns before it sends
(`sdt/sdt.c:2680`), so a missed wrapper is heard late or never.

### `SdtSession` - joining, connecting, leaving, expiring
Two hosts, each a whole copy of `sdt.c` with one component, which has called
`mcast_alloc_init`: `sdt_add_component` calls it only for `is_local`, which nothing
sets, and without it a JOIN carries the group 0.0.0.0 and `sdt_rx_join` drops it
(`sdt/sdt.c:2167`), so there would be no sessions at all.  The record of a host:

| Field | Code |
|---|---|
| `own`, `fm` | our component's `tx_channel` and the foreign member in it |
| `copy`, `lm` | the peer's component's `tx_channel` and the local member in it |
| `lst`, `reg` | `channel->listener`, and how many listeners RLP has per group |
| `comp` | whether the peer's component exists and who created it (`cbJOIN`, `cbDISC`) |
| `locked` | `sdt_join` returned with the lock held |
| `fault` | the process ended in an assertion or a null pointer |
| `gen` | channel numbers used |

A handler is an operator from a host (and a message) to a new host and what it
sends; `Step` puts the host in place and lets the network keep any part of what was
sent.  `RxJoin` follows `sdt_rx_join` line by line in its order of allocations,
and `Undo` is its `remove_allocations` macro, order included.  `Tick` is
`sdt_tick`: the peer's component comes first in `allcomps` (it was created last),
then ours; `SdtChannel` has the part about resend records.  `Shutdown` is
`sdt_shutdown`: LEAVE, DISCONNECTING and LEAVING go out while there are buffers, and
every record goes.  `Crash` and `Restart` forget everything but the channel
numbers.  `said` is history: which acceptances a host has sent, and whether it has
disconnected.

Left out or chosen, and why:

* `is_local` is tested in `sdt_tick`, `sdt_add_component` and `sdt_shutdown` but
  assigned nowhere in `src/`; the branches that need it are not modelled, so there
  is no MAK, no leader-side timeout and no DISCONNECT (`sdt_tx_disconnect` is called
  in such a branch only, so `sdt_rx_disconnect` is never reached between two hosts
  that run this code; nor is `sdt_rx_connect_refuse`, whose sender is not written).
  NAKs are lost here.
* Channel numbers are fresh, where the code draws `rand()`: a number is not used
  again, and 0 is not drawn.
* Every channel has a multicast group of its own (`Mcast` has the allocation).
* Allocation failures are left out except one: after `MaxSeq` wrappers a channel
  gets no transmit buffer, so every failing send path is taken.  `SdtRecords` has the
  other failures.
* A DISCONNECTING that `sdt_shutdown` sends goes out on the peer's channel and with
  its numbers; the two hosts have no third member, who would take it for the
  leader's next wrapper.
* Memory is static (`CONFIG_SDTMEM`, `CONFIG_RLPMEM`): deleting a listener twice
  does nothing.
* Callbacks to the application change nothing in `sdt.c` and are left out; what
  the application calls, and when, is free (`App`).
* A message is received once, unless there are two listeners on its group or
  `Dups` is TRUE.  With `Dups = TRUE` two properties fail, for one reason: a
  repeated JOIN adds a second listener and forgets the first
  (`sdt/sdt.c:2168`), and `sdt_rx_wrapper` does not compare channel numbers, so a
  wrapper of the old channel is later taken for one of the new.  No text in the
  repository promises otherwise; it is recorded as a hazard.

### `MCSdtChannel`, `MCSdtSession`
What TLC needs: model values, the applications (`OneSide`: h1 joins h2; `Stops`: h2 is
also shut down and started again; `Busy`: both join at any time, h1 leaves and joins
again, h2 sends data), and the fairness of the timer in a form that TLC evaluates
quickly (`TickHasWork`).

### `SdtRecords` - the components and pools of SDT
One host with several peers and small pools: the list `allcomps`, who created each
component, the pools of channels and members of `sdtmem.c`, linked by index, and
every call that takes from them or gives back: `sdt_add_component`, discovery,
`sdt_join`, `sdt_rx_join` with each place where it may fail, `sdt_tick`,
`sdt_shutdown`.  Which members go at a tick is free (that is `SdtSession`'s
question).  A channel record with number 0 counts as free, and `sdt_tx_join` makes
one, so a record can be handed out twice: `shared` says so, and the records are not
followed any further then.

### `TxBuffers` - transmit buffers and the list of resend records
The pool of `rlpmem.c` with its use counts, the pool and list of resend records, and
two threads that send: one under the lock (SDT's handlers and timer), one without
(`dmp_tx_pdu`).  `rlpm_new_txbuf` is two steps, find and mark.  If both threads find
the same buffer, `raced` says so and nothing is followed any further.

### `Rlp` - sockets, groups, listeners and dispatch
Pools and lists of `rlpmem.c` and `netsock.c` by index, with what a freed slot still
holds, because `rlp_process_packet` may stand on it: it takes no lock.  `kernel` is
the set of memberships of the operating system, which `netx_change_group` changes
and whose refusal it ignores.  A packet is a sequence of PDUs with or without each
field; `meant` is what its sender means.  What components of this code send
(`OwnBlocks`) is put together by `rlp_add_pdu`, any other sender may leave fields out
and break off (`ForeignBlocks`).  The dispatch is split at every PDU and around every callback;
listeners come and go in between, one of them deleted twice as `sdt_rx_join` does.

### `Mcast` - multicast groups
`mcast_alloc_init` and `mcast_alloc_new` on several hosts, each with several components
that share `scope_and_host` and `dyn_mask`.  An address is the set of its bits.

### `Dmp`, `DmpMessages` - DMP
`Dmp`: the subscription pool and lists with the reference counts of properties, and
the address header, encoded by this code or by another sender, absolute or relative.
`DmpMessages`: the six messages DMP composes, field by field in its static area, by
several threads; and the loop of `dmp_client_rx_handler` over a block whose PDUs may
leave fields out.

### `MCTransport`
The six modules above share no variable.  A behaviour of `MCTransport` runs one of
them (`part` says which); the states of their product would say nothing more.

### `SlpAgent`, `MCSlpAgent`, `MCSlpLive` - service location
The agent is a record of the globals of `slp.c`: the list of DAs with their two
timers, the table of messages with xid, slot, timer and retries, the search for DAs,
the registration, and `discover.c`'s one URL buffer, to which the registration
points.  The DAs and the network are external: a DA answers or refuses, goes down
with or without saying so, boots with a greater boot time, and forgets a
registration after its lifetime; packets are lost, late and reordered, and a request
that is sent again is answered again.

| Action | Code |
|---|---|
| `Tick` | `slp_tick`: a search, or the DAs' timers and then each message |
| `Open`, `Close`, `Closed` | `slp_open`; `slp_close` up to its wait, and after it |
| `StartDiscovery` | `slp_active_discovery_start` |
| `Register`, `Deregister`, `Discover` | `discover_register`, `discover_deregister`, `discover_acn` |
| `RxDaAdvert`, `RxSvrAck`, `RxSrvRply`, `RxAttrRply` | the four receive handlers with `discover.c`'s callbacks |
| `DaAnswers`, `DaAdvertises`, `DaStops`, `DaBoots` | external |

A new message takes a number that nothing uses, so xid does not wrap, and `MaxAsks`
keeps the client from filling the table.  The loops over the slots and over the
table are recursive functions, one element after the other in the code's order.
`MCSlpAgent` adds the symmetry of the DAs; `MCSlpLive` makes the timer visible, so
that its fairness can be stated without ENABLED.

### `LinkedLists`
A list that is linked by index through a pool: `Walk` follows the links from the head,
`Endless` says that it never comes to an end.  `Rlp`, `TxBuffers` and `Dmp` use it.

### The proofs
`SdtChannelProofs`, `SdtSessionProofs`, `RlpProofs`, `TxBuffersProofs`,
`AllocationProofs` (about `Mcast` and `SdtRecords`), `DmpProofs` (about `Dmp` and
`DmpMessages`) and `SlpAgentProofs` hold the theorems; `LinkedListProofs` holds what
they share about linked lists, loops and least elements (section 5).

## 3. The runs

| Run | Instance | Result |
|---|---|---|
| `sdt_channel` | one member, pool of 2, records live 2 ticks, 5 wrappers | `TypeOK`, `CopyIsPast`, `WindowFits`, `NakIsLogical`, `LostIsReal`, `StreamPromise` hold (1.1 M states) |
| `sdt_rejoin` | the same with repeated JOINs, 3 wrappers | `CopyIsPast`, `NakIsLogical`, `LostIsReal` hold (62 k states) |
| `sdt_session` | h1 joins h2, h2 is shut down and started again; 2 channels per host, 3 wrappers per channel, 1 crash, 3 messages in flight | `TypeOK`, `PeerAgreed`, `CopyOfThisChannel`, `NoListenerLeak`, `TickCollects`, `DeadLeaderNoticed` hold (524 k states) |
| `sdt_busy` | both join, h1 leaves and joins again, h2 sends data; 1 channel, 3 wrappers, 2 in flight | `PeerAgreed`, `NeverDeaf`, `TickCollects` hold (0.5 M states) |
| `slp` | 2 DAs and a list for 1, 2 messages, 2 sendings, 2 boots, requests for DAs at most 2 ticks apart, 1 component of ours and 1 of others | `TypeOK`, `RegisteredOrOnTheWay`, `AnsweredOnce` hold (3.8 M states) |
| `slp_live` | 1 DA, 3 messages, registering and withdrawing | `EventuallyRegistered`, `RequestsEnd`, `SilentDaDropped`, `GhostsFade` hold |
| `transport` | `Rlp`: 1 socket, 2 groups, 3 listeners, 2 protocols, a kernel that allows 1 membership, 2 changes during a dispatch. `TxBuffers`: 4 buffers, 2 records. `SdtRecords`: 2 peers, 3 channels, 3 members. `Mcast`: 2 hosts, 2 components, 3 scopes. `Dmp`: 2 components, 2 properties, 2 subscriptions, blocks of 2 ranges. `DmpMessages`: 2 threads, blocks of 2 PDUs and broken ones | its 15 invariants hold (506 k states) |
| `handled_once` | as `sdt_channel`, 4 wrappers | violated |
| `never_hung` | as `sdt_channel`, 4 wrappers | violated |
| `dead_member` | h1 joins h2, 1 channel, 1 crash, 2 in flight | violated |
| `delete_is_final` | as `sdt_busy`, 4 wrappers | violated |
| `leave_finds_channel` | as `sdt_busy`, 4 wrappers, 1 crash | violated |

Bounds, and why they are enough for the interesting cases:

* five wrappers with a pool of two: the window slides, records are recycled and
  expire, a wrapper arrives out of order on either side of a gap, and a member
  reaches each verdict of `check_sequence`;
* one member: members never look at each other, and the leader's reaction to
  several is a NAK like any other; the proofs cover any number;
* `SDT_MAX_RESENDS` is 4 in the code and 2 in the runs; the proofs cover every size
  from 2;
* timeouts are in ticks of the model: `Short < Long` is the relation of the
  reciprocal timeout (400 ms) and the expiry time (5 s) that the code depends on;
* three wrappers per channel: ACK, CONNECT and CONNECT_ACCEPT or LEAVE are all of
  a session, and the next send fails;
* two channels: a session, its end, and a new session while messages of the first
  are in flight; a crash or a shutdown in between;
* SLP: two DAs and one slot, so that a slot is given to another DA while messages
  point to it; two sendings, so that a message is repeated and then given up; two
  boots, so that a DA on the list is not the DA that it was.  Liveness is checked
  with one DA: what happens to one does not depend on another but for the slots, and
  those are in the other run;
* RLP: a list of three listeners is the shortest in which one is deleted between two
  others; one membership for two groups makes the kernel refuse; two changes in a
  dispatch delete a listener and hand out its slot again, from where on the dispatch
  is not followed;
* buffers: two records and two senders need three buffers, the fourth is what DMP may
  lose; records: three members for two peers, who need four, so pools run out half
  way through a join; mids start again at 2 instead of 0x7FFF and are of 2 bits.  That
  there are fewer members than numbers (`RecordsAssumption`) is what lets
  `sdt_next_member` end: the code has 4 or 40 members (`include/opt.h:710`,
  `src/build-native-linux/include/user_opt.h:57`) and 2^16 numbers;
* symmetry: `transport` lets `a1` and `a2` change places.  They are groups in `Rlp`
  and peers in `SdtRecords`, no action and no property names one of them, and the
  properties are invariants.  `slp` lets the two DAs change places: slots and messages
  name them, no action or property picks one, and its action property is about one
  step;
* deadlock is not checked: the bounds stop the system, and so do the lock that is
  never released and a failed assertion.

Fairness.  `SdtSession`: weak fairness of `Tick` for each host and no other.  The
timer thread calls `sdt_tick` every 100 ms as long as the process lives, and the
action is disabled only when the process is dead or the lock is held for ever.
Nothing is assumed of the network.  `SlpAgent`: weak fairness of `Tick` for the same
reason (`slp_tick`), and of the network that a packet that is sent again and again
arrives at last: a DA that is always up accepts a registration and answers a search
infinitely often if it is asked infinitely often, and its advertisement is heard.

Exceptions that the properties state, and why they are there.  `PeerAgreed` allows
JOINED after a DISCONNECTING: `sdt_rx_disconnecting` makes a member JOINED whatever it
was.  `RegisteredOrOnTheWay` is not about what was withdrawn once: the table is sent
from its newest message on, so a DEREG may overtake a REG; `GhostsFade` says that
what it leaves is forgotten.  `ExactlyItsUnits` ends where a slot freed during the
dispatch is handed out again during it, `HeldOnce` and `StarvedByLoss` where two
threads found one buffer, `ListOfRecords` where SDT was shut down with wrappers in
the list, `RecordsSound` where a channel with number 0 was handed out again,
`SubscriptionsHeld` where a second subscription was added, `MessagesRead` where
another thread wrote into the area.  In each of these the code goes wrong as
described under `hazards`; the property says that nothing less makes it go wrong.

## 4. What the checks found

Five statements of the source do not hold; each is a run with `expect` violation.

1. `NeverHung` - the loop of `sdt_flag_for_resend` (`sdt/sdt.c:2653`) never moves to
   the next record.  A NAK for anything but the newest wrapper while records are
   held never returns, with the lock held.
2. `HandledOnce` - an unreliable wrapper that arrives in a gap is handed on, but the
   channel's numbers stay, so a repetition is not recognised as a duplicate.  The
   reliable stream is not affected (`StreamPromise`).
3. `DeadMemberNoticed` - `sdt_tick` means to time out members that do not answer a
   MAK, but no MAK is ever sent and `sdt_rx_ack` has switched the timer off.
4. `DeleteIsFinal` - a CONNECT_ACCEPT that overtakes nothing but the next tick
   makes a member connected that was marked for deletion.
5. `LeaveFindsChannel` - `sdt_leave` checks its own channel and then looks for its
   member in the peer's, which may have expired: `assert(channel)` fails.

Met while modelling, and not runs because no text promises the contrary: `sdt_join`
of a member returns with the lock held; two hosts that join each other at the same
moment never connect; a reciprocal JOIN that overtakes the JOIN_ACCEPT is accepted
and taken back; an ACK that overtakes the JOIN_ACCEPT switches the timer of a
handshake off; the MAK that answers a NAK for an expired wrapper carries an
unchanged `oldest_avail`; a DISCONNECTING revives a member that waits or is to be
deleted, and takes a number of the peer's channel; after `sdt_shutdown` with wrappers
in the list, `sdt_tick` meets freed records; the second subscription of a process
takes the record of the first; the second DA gets a deregistration made from a
deleted record; of several addresses of a component only the first is looked at
(`slp/discover.c:287`); the start address of a DMP message is cut to 8 bits.
`PROJECT.json` lists them under `hazards`.

## 5. The proofs

Everything here holds for every value of the constants that the modules' ASSUMEs
allow.  TLC checked each inductive invariant on the runs' instances first.

### The wrapper layer (`SdtChannelProofs`)

For every set of members, pool of at least two, expiry time and bound.

* `TypeCorrect`: `TypeOK` is inductive as it stands.
* `WindowAlwaysFits`: `WindowFits` alone is not inductive - that the window never
  grows by two, and that the tail recycled by `sdt_save_buffer` is the record that
  falls out of the window, needs to know which numbers are held.  The inductive
  invariant `PoolInv` says in addition that the held numbers are an interval that
  ends at `reliable_seq` (records expire oldest first and a full pool gives up its
  oldest), that times left grow with the number, and that the window starts at the
  beginning of the channel or is exactly as long as the pool.
* `CopyAlwaysPast`, `LostAlwaysReal`: `WireInv` says how the numbers on the wire
  relate: `rel` grows with `total`, by one exactly at a reliable wrapper, and the
  `oldest` of any wrapper is at most the leader's.  With `PoolInv` this gives that
  "oldest is more than one ahead" really means "no longer held".
* `NakAlwaysLogical`: a member's copy is never before its JOIN; with `CopyIsPast` a
  gap then starts after the JOIN and ends with a wrapper that exists.
* `ImplementsStream`: `Spec` implements `ReliableStream` under the mapping in
  `SdtChannel` (`Stream`), if JOINs are not repeated.  The invariant `StreamInv` says
  that a member's copy counts exactly what was delivered since its JOIN; lemma
  `Verdicts` turns each verdict of `check_sequence` into a fact about the reliable
  wrappers between the member's copy and the wrapper it classifies.  With repeated
  JOINs the theorem is false, as it must be: a member that is set back hears
  wrappers again.
* `WordsCompareRight`: the model's numbers are naturals, the code's have 32 bits and
  are compared by the sign of their difference.  `check_sequence_words` is
  `check_sequence` on such words; the theorem says that it gives the same verdict
  for every wrapper that lies less than 2^31 wrappers, less the pool, from the last
  one the member took - also where the numbers have wrapped around in between.  That
  the reliable and the oldest number are then near enough as well is the invariant
  `GapsInv`: reliable numbers grow no faster than total ones, and a wrapper's
  `oldest` is at most a pool behind its own number.  `DifferenceIs` is the arithmetic.
  An older wrapper than that is taken for a new one; the transport would have to hold
  it back for that long.  The theorem is about `check_sequence` only: `sdt_rx_nak`
  compares numbers without a difference, and what it does at the wrap-around is
  not modelled.

### Sessions (`SdtSessionProofs`)

For any two hosts, any applications, any number of channels, wrappers, crashes and
messages in flight.

* `SessionInvariant`: `IInv` is inductive.  `PeerAgreed` is not, nor is `TypeOK`: that
  a member is connected only to a peer that agreed needs to know that whoever waits
  for an ACK was accepted before, that an acceptance on the wire was made
  (`MessageOK`), and that the numbers in a message are not ahead of the channel that
  sent it.  `HostsOK` says this of each host's records: our channel has exactly one
  foreign member, with mid 1; the copy of the peer's channel has exactly the local
  member; a live listener is one that RLP counts; and each state of a member is backed
  by what the peer said (`Backed`).  `NetOK` says it of the messages.
  `ConnectAfterJoin` says that a peer that agreed to connect had agreed to the JOIN.
* The proof is about one host: `Moves(h, s, r, S)` says that a handler takes host `h`
  from `s` to a sound `r.s` and sends only sound messages.  There is a lemma `...Moves`
  for every handler, and `MoveIInv` turns any such move into a step that keeps `IInv`.
  `sdt_rx_join` is taken apart into its outcomes (`RxJoinIs`), of which taking back
  (`UndoneIs`) is shown to undo exactly what had been made.
* `SessionTypes`, `SessionsAgreed` (`PeerAgreed`) follow; `TicksCollect` is the action
  property `TickCollects`.
* `SessionOnce`: with a network that delivers nothing twice (`~Dups`), `Once` is an
  invariant too: RLP counts one listener for the copy, if it is live, and none for any
  other channel; a member that hears has it; the copy's numbers are not ahead of the
  channel; a channel's JOIN is at most once on the wire.  `CopiesFollow`
  (`CopyOfThisChannel`), `MembersHear` (`NeverDeaf`) and `ListenersGo`
  (`NoListenerLeak`) follow.  Without the hypothesis they are false: a JOIN that
  arrives twice adds a second listener and forgets the first (`sdt/sdt.c:2168`).

### Linked lists (`LinkedListProofs`)

The pools of RLP, SDT and DMP link their records by index.  The lemmas say of any
pool what a walk from the head visits, when it ends, and what it is after a record
was put before the head or moved there.  `ListOf(links, head, slots)` says that the
list is these slots, each once: putting one before the head adds it (`ListOfPut`),
taking one out, at the head or from behind its predecessor, removes it
(`ListOfBehead`, `ListOfDrop`), and changes in slots that are not of the list change
nothing (`ListOfSame`).  They go by the least number that is a
counterexample (`Smallest`, `Largest`): induction with a predicate as parameter is out
of the provers' reach, a least element of a set of numbers is not.

### Multicast groups (`AllocationProofs`)

For any hosts, components, scopes and hashes, and any number of draws up to 255.

* `GroupsStayApart`: `GroupsApart`.  The property compares groups; it is inductive only
  with what they were made of.  `McastInv` adds that each host's `scope_and_host` and
  shift are those of the scope last asked for (`HostsReady`), and that each group drawn
  is scope, host and a number `x`, from which the component's counter went on by as many
  steps as there were draws since, at most, unless it was initialised in between
  (`EntriesOK`).  Fewer than 2^8 steps lead a counter of 16 bits to another number in the
  8 bits that the narrowest field keeps of it.  Numbers of 16 bits are equal if their
  bits are, and scope, host and number have disjoint ranges of bits in a group, so equal
  groups have equal parts.

### Components, channels and members (`AllocationProofs`)

For any peers, pools and numbers, as long as there are fewer members than numbers.

* `RecordsTypes`: `RecTypeOK`.  `RecordsAreSound`: `RecordsSound`.  `RecordsInv`, which
  is inductive, adds to the types:
  - `Sound`, until a record in use is handed out again: `RecordsSound` with who is a
    member of what.  The members of our channel are peers, that of a peer's channel is
    ours (`OwnersSound`).  Without it a peer's channel could fill up with others, and the
    join that fails could not be undone by what `remove_allocations` looks at;
  - `Enough`: where `sdt_rx_join` died for want of a member record there are more peers
    than pairs of records.
* Each operation is shown to keep `OK` (types and `Sound`) from any state that has it,
  however far it comes and whatever it takes back; the steps of the specification then
  follow.  Where the order of the code leaves the records out of order for a while - a
  member without a number, a channel whose owner was released - the lemma says what
  is missing (`MidIs`, `ChannelNumberIs`) and the next call supplies it.
* The loops over the components (`sdt_del_component`, `sdt_tick`, `sdt_shutdown`) are
  recursive functions and are followed round by round, with a round that fails first
  as the least counterexample.
* `sdt_next_member` finds a number: `SDT_MAX_MEMBERS` of them cannot be all of
  `MidWidth` (`SomeMidIsFree`).  `Enough` is counted by injections (`TooFewRecords`): if
  every member record is in use and each component but ours has two at most, there are
  more than half as many of them.

### Transmit buffers (`TxBuffersProofs`)

For every number of buffers and records.

* `BuffersInvariant`: `TxIInv` is inductive.  Beyond the types it says that a buffer
  in use has exactly one holder - a record, one thread that sends it, or nobody since
  DMP let go of it - until two threads found the same buffer (`raced`), and that the
  list of resend records holds exactly the records with a buffer and ends, until SDT
  was shut down with wrappers in it.
* `BuffersTypes`, `BuffersHeldOnce` (`HeldOnce`), `StarvedOnlyByLoss`
  (`StarvedByLoss`) follow.
* `RecordsListed` (`ListOfRecords`) assumes more than one record.  With
  `SDT_MAX_RESENDS` = 1 it is false, and TLC shows it: `sdt_save_buffer`
  (`sdt/sdt.c:4275`) takes the tail of the list, which is its head too, and puts it
  before itself, so the list never ends.  `opt.h` has 4 and says of no value that it
  is not allowed.

### RLP (`RlpProofs`)

For any tables of sockets, groups and listeners, ports, groups, protocols, packets of
any length, and any number of changes while one is dispatched.

* `RlpInvariant`: `RlpIInv` is inductive.  `ListsSound` is not, although it speaks of
  everything in the tables: which slot an operation takes, and whether it opens or
  closes a group or a socket, depends on what the tables look like between two calls
  of one operation, when a group may be there for nobody; and `ListsSound` does not say
  that no two groups have the same socket and address, without which a listener that is
  deleted is looked for in the wrong one.  `Sound` says of tables, at any such moment,
  that open sockets have different ports (`SocketsOK`), that the groups in use are
  exactly those of the one list, the listeners in use exactly those of their group's,
  that no two groups have the same socket and address and that all are on open sockets
  (`ListsOK`).  `EmptyBut(s, G)` says which groups may be empty, and `Held(s)` what the
  tables say is registered.
* There is a lemma for each operation of `rlpmem.c` on sound tables: what it changes
  (`NewGroupIs`, `DropGroupIs`, ...) and that they stay sound (`NewGroupSound`, ...);
  then for the operations of `rlp.c` and the kernel's memberships that are made of them
  (`OpenGroup`, `CloseGroup`, `AddL`, `DelL`).  Deleting a listener a second time changes
  nothing: its slot is free, whatever it still holds, and free slots are never
  followed from a list.
* `RlpTypes` (`RlpTypeOK`), `ListsAreSound` (`ListsSound`) and `KernelMatches`
  (`KernelAgrees`) follow.
* `UnitsExact` (`ExactlyItsUnits`) needs an invariant of the dispatch, `DispatchInv`.
  The polling thread may stand on a listener that was deleted, and go on from it, so
  the list of the group says nothing of where it will get to.  What does is the
  `Trail`: the listeners of the group and the slots freed meanwhile, which still lead
  on.  `Ranked(s, g, T, F, r)` says that there are ranks that fall with every step on
  the trail, so a walk ends and comes to nobody twice, and that no step leads past a
  listener that was there all the time.  `Dispatches` adds that the listener called is
  on the trail and is one for the protocol of the PDU, that the fields are those of the
  PDU in hand, and that each listener that was there all the time has got what it was
  to get of the PDUs so far: of the one in hand exactly if its rank is above that of
  the listener called (`Served`).
* `GoesOnQuietly`, `GoesOnWithNew` and `GoesOnWithout` say what a change of the tables
  does to that.  A new listener is the head of its list and gets a rank above all, a
  freed slot keeps its own, and its predecessor now leads to where it led.  This is
  where it matters that the freed slot keeps its successor (`rlpm_free_listener`) and
  that no slot of the trail is handed out again.  `FirstAhead` is about the walk: who
  is found next is on the trail, and nobody who waits for the PDU stands before.
* `PacketsAre`: what `rlp_add_pdu` makes of a client's units, and any block of another
  sender whose first PDU gives all fields, is read as it is meant (`WellMeant`).  What a
  listener is to get is a recursive function of the packet; the proof needs only that it
  grows by one unit or none with each PDU (`UptoIs`).
* `WireAssumption` says that the blocks are made of the vectors, senders and contents
  named, and that the mark of a field that is not given is none of these.
  `NamesAssumption` says that the marks the module uses for "no port", "no protocol" and
  the like are no ports, protocols or groups.

### DMP (`DmpProofs`)

For every set of components and properties, pool of subscriptions, address and block
of PDUs.

* `DmpInvariant`: `DmpIInv` is inductive: until a second subscription is added, there
  is one at most, which is alone in its component's list and alone counted; and the
  last addresses that were read are numbers from which the next header, relative or
  absolute, is decoded to what its sender meant.  `DmpTypes`, `OneSubscriptionHeld`
  (`SubscriptionsHeld`), `HeadersUnderstood` (`AddressesUnderstood`) follow.
* `MessagesInvariant`: `MsgIInv` is inductive: the static area holds what a thread has
  written into it so far, until another one writes.  `MessagesAreRead`
  (`MessagesRead`): such a message is read as it was meant; and of any block of PDUs
  that leave fields out, `dmp_client_rx_handler` reads what the nearest PDU before
  gave, up to the first that is broken.

### SLP agent (`SlpAgentProofs`)

For any DAs, slots, table of messages, URLs, retries, timers and boots.

* `SlpInvariant`: `SlpTypes` is inductive.  `TypeOK` is not: that no two messages have
  the same number, which `AnsweredOnce` comes down to, and that the slots in use are of
  different DAs with their counters running, must be carried through the loops of
  `slp_tick`, in which messages are sent, given up and added.  `AgentTypes` (`TypeOK`)
  and `AnsweredOnlyOnce` (`AnsweredOnce`, an action property: whoever asked hears of it
  once, although it was sent again and answered twice) follow.
* `RegisteredWhileRoom`: in every behaviour in which the table always has room for one
  message per DA (`Room`), `RegisteredOrOnTheWay` holds.  `SlpInv` adds to the types:
  - `BootsKnown`: no boot time is known that has not been, so a DA that booted again
    is recognised by its next advertisement;
  - `DeregsGone`: a DEREG, in the table or on the wire, is of something withdrawn;
  - `NoSearch`: without discovery no search is due;
  - `Covered`: each DA on the list that has not booted since has what is registered for
    longer than the counter of its slot runs (`Fed`), or a REG in the table is to bring
    it, and all packets in flight with its number are that REG or a refusal (`Pending`),
    so no answer that is on its way takes the message off the table with nothing done.
  That a registration lasts until it is renewed is not one inequality.  In a tick in
  which the search for DAs sends a request, `slp_tick` returns before it counts the
  slots down, while the DA's clock goes on.  After it the search waits
  `CONFIG_MC_MAX` ticks.  `Lasts(r, c, m)` says that what is left at the DA (`r`)
  outlasts the counter of the slot (`c`) with all the ticks that the search, with `m`
  left to wait, can still take from it.
* Two hypotheses.  `Slack == (LIFETIME - REFRESH) * CONFIG_MC_MAX >= REFRESH` is what the
  above needs of the timers; it is enough, and need not be necessary.  The values of
  `include/slp.h` satisfy it with much to spare: the renewal comes 300 ticks before the end
  of a lifetime, the search waits 150 ticks, a renewal takes 3000.  The runs' instances
  satisfy it too.  `[]Room(slp)` is not proved: `msg_new` refuses silently when the
  table is full, and a registration refused so is on its way nowhere until the next
  renewal.  The code has 50 messages and 10 DAs; how many requests an application has
  open is its own affair.

### Only model-checked

* liveness (`DeadLeaderNoticed`, `EventuallyRegistered`, `RequestsEnd`,
  `SilentDaDropped`, `GhostsFade`): the prover has neither fairness nor ENABLED, and
  what a fair run is cannot be said without it;
* `RegisteredOrOnTheWay` where the table of messages may be full.

## 6. Not modelled, and the plan

Not modelled, and why:

* what the build never reaches: the branches of `is_local`, resending
  (`sdt_tx_resend` returns before it sends), `slp_receive_srvrqst` (its call is
  commented out), the directory agent (`SLP_IS_DA` is not set), DMP's queue;
* `sdt_tx_connect_refuse`, which is not written, and the reaction to it;
* the text of service attributes (`slp/discover.c`): `attrrqst_callback` is taken to
  find a reachable address;
* wrap-around of xid, and of the sequence numbers outside `check_sequence`
  (`sdt_rx_nak` compares them as unsigned numbers): beyond the bounds of TLC;
* several registered properties in one SLP agent: `discover.c` has one buffer;
* DMP values longer than the static area, and PDUs whose length is 0;
* the interface code of the other platforms, byte packing and text conversion (no
  state), logging, test programs, build files.

Next, most important first:

1. `sdt_rx_nak` and `oldest_avail` on numbers that wrap around.
2. Several registered properties in one SLP agent, with the one URL buffer of
   `discover.c`.
