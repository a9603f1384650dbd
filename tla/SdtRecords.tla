------------------------------ MODULE SdtRecords ------------------------------
(***************************************************************************)
(* The records of SDT on one host with several peers: the components it    *)
(* tracks (component.c), and the pools of channels and members (sdtmem.c)  *)
(* that sdt_join, sdt_rx_join, sdt_tick and sdt_shutdown take from and     *)
(* give back to.  A channel record with number 0 is free, a member record  *)
(* without a component is; a pointer is the index of a record.  What a free record *)
(* still holds is left out: whoever is given it clears it.                 *)
(*                                                                         *)
(* When a member goes is SdtSession's question: here any may go at a tick. *)
(* Messages are left out but for what they do to the records, and so are   *)
(* listeners (Rlp) and resend records (TxBuffers).                         *)
(***************************************************************************)
EXTENDS Naturals, Sequences, FiniteSets

CONSTANTS
  Peers,                  \* the foreign components
  SDT_MAX_CHANNELS,       \* sizes of the pools
  SDT_MAX_MEMBERS,
  CONFIG_MAX_COMPONENTS,
  ChannelNumbers,         \* what rand() draws, here and at the peers
  MidLimit,               \* 0x7FFF: sdt_next_member starts again
  MidWidth                \* 2^16

ASSUME RecordsAssumption ==
  /\ {SDT_MAX_CHANNELS, SDT_MAX_MEMBERS, CONFIG_MAX_COMPONENTS} \subseteq Nat \ {0}
  /\ ChannelNumbers \subseteq Nat
  /\ MidLimit \in Nat \ {0} /\ MidWidth \in Nat /\ MidLimit < MidWidth
  /\ SDT_MAX_MEMBERS < MidWidth   \* 4 (opt.h) or 40: a free number is always found
  /\ {"local", "none"} \cap Peers = {}

VARIABLE sdt   \* sdt_state, the components and the pools: see RecordsInit

LOCAL_COMP == "local"
Cids == Peers \cup {LOCAL_COMP}
Channels == 1 .. SDT_MAX_CHANNELS
Members == 1 .. SDT_MAX_MEMBERS
Nil == 0

FreeChannel == [number |-> 0, available_mid |-> 0, members |-> <<>>]
FreeMember == [component |-> "none", mid |-> 0]

Unknown == [created_by |-> "cbNONE", tx_channel |-> Nil]

RecordsInit ==
  sdt = [started  |-> TRUE,
         died     |-> "no",  \* on a null pointer: "short" of members, "added twice"
         shared   |-> FALSE, \* history: a channel in use was handed out
         allcomps |-> <<>>,  \* newest first
         comp     |-> [c \in Cids |-> Unknown],
         chan     |-> [i \in Channels |-> FreeChannel],
         mem      |-> [m \in Members |-> FreeMember]]

-----------------------------------------------------------------------------
(***************************************************************************)
(* Pools and lists.  A search that fails gives Nil.                        *)
(***************************************************************************)
LowestOf(S) == IF S = {} THEN Nil ELSE CHOOSE i \in S : \A j \in S : i <= j

\* The first element of a list that is in S.
FirstIn(list, S) ==
  LET n == LowestOf({k \in DOMAIN list : list[k] \in S}) IN IF n = Nil THEN Nil ELSE list[n]

\* The elements of a list that are in S, in their order.
Keep(list, S) ==
  LET kept[n \in 0 .. Len(list)] ==
        IF n = 0 THEN <<>>
        ELSE IF list[n] \in S THEN Append(kept[n - 1], list[n]) ELSE kept[n - 1]
  IN  kept[Len(list)]

sdtm_new_channel(s) == LowestOf({i \in Channels : s.chan[i].number = 0})
sdtm_new_member(s) == LowestOf({m \in Members : s.mem[m].component = "none"})

sdt_find_comp_by_cid(s, c) == \E i \in DOMAIN s.allcomps : s.allcomps[i] = c

sdt_find_member_by_component(s, i, c) ==
  FirstIn(s.chan[i].members, {m \in Members : s.mem[m].component = c})

sdt_find_member_by_mid(s, i, mid) ==
  FirstIn(s.chan[i].members, {m \in Members : s.mem[m].mid = mid})

\* Mutant of Numbered: the numbers do not wrap.
numbers_grow(s, i, m) ==
  LET from == IF s.chan[i].available_mid = MidLimit THEN 1 ELSE s.chan[i].available_mid
      taken(k) == sdt_find_member_by_mid(s, i, from + k) # Nil
      k == CHOOSE n \in 0 .. MidWidth - 1 : ~taken(n) /\ \A j \in 0 .. n - 1 : taken(j)
  IN  [s EXCEPT !.mem[m].mid = from + k, !.chan[i].available_mid = from + k + 1]

\* sdt_next_member for member m: the next number no member of channel i has; the
\* one after it is kept.
Numbered(s, i, m) ==
  LET from == IF s.chan[i].available_mid = MidLimit THEN 1 ELSE s.chan[i].available_mid
      taken(k) == sdt_find_member_by_mid(s, i, (from + k) % MidWidth) # Nil
      k == CHOOSE n \in 0 .. MidWidth - 1 : ~taken(n) /\ \A j \in 0 .. n - 1 : taken(j)
  IN  [s EXCEPT !.mem[m].mid = (from + k) % MidWidth,
                !.chan[i].available_mid = (from + k + 1) % MidWidth]

\* Record i is cleared, whoever points to it, and is the channel of component c.
TakeChannel(s, i, c, number) ==
  [s EXCEPT !.chan[i] = [number |-> number, available_mid |-> 1, members |-> <<>>],
            !.comp[c].tx_channel = i,
            !.shared = @ \/ \E d \in Cids : s.comp[d].tx_channel = i]

\* The channel of component c: the one it has, or a free record; Nil if there is none.
sdt_add_channel(s, c, number) ==
  LET i == sdtm_new_channel(s)
  IN  CASE s.comp[c].tx_channel # Nil -> [i |-> s.comp[c].tx_channel, s |-> s]
        [] s.comp[c].tx_channel = Nil /\ i = Nil -> [i |-> Nil, s |-> s]
        [] s.comp[c].tx_channel = Nil /\ i # Nil -> [i |-> i, s |-> TakeChannel(s, i, c, number)]

\* Record m is component c's, at the head of the list of channel i.
TakeMember(s, m, i, c) ==
  [s EXCEPT !.mem[m] = [component |-> c, mid |-> 0], !.chan[i].members = <<m>> \o @]

\* Component c in the list of channel i: found, or a new member; Nil if there is none.
MemberOf(s, i, c) ==
  LET old == sdt_find_member_by_component(s, i, c)
      m == sdtm_new_member(s)
  IN  CASE old # Nil -> [m |-> old, s |-> s]
        [] old = Nil /\ m = Nil -> [m |-> Nil, s |-> s]
        [] old = Nil /\ m # Nil -> [m |-> m, s |-> TakeMember(s, m, i, c)]

\* A member that is not in the list is not touched.
sdt_del_member(s, i, m) ==
  IF \A n \in DOMAIN s.chan[i].members : s.chan[i].members[n] # m THEN s
  ELSE [s EXCEPT !.chan[i].members = Keep(@, Members \ {m}),
                 !.mem[m] = FreeMember]

\* The members of channel i that are in S are deleted.
DelMembers(s, i, S) ==
  LET its == {s.chan[i].members[n] : n \in DOMAIN s.chan[i].members} \cap S
  IN  [s EXCEPT !.chan[i].members = Keep(@, Members \ S),
                !.mem = [m \in Members |-> IF m \in its THEN FreeMember ELSE @[m]]]

sdt_del_channel(s, c) ==
  LET i == s.comp[c].tx_channel
  IN  IF i = Nil THEN s
      ELSE [DelMembers(s, i, Members) EXCEPT !.comp[c].tx_channel = Nil, !.chan[i] = FreeChannel]

\* The components of `list' one after the other, each by Op.
InTurn(s, list, Op(_, _)) ==
  LET done[n \in 0 .. Len(list)] == IF n = 0 THEN s ELSE Op(done[n - 1], list[n])
  IN  done[Len(list)]

comp_release(s, c) ==
  [s EXCEPT !.allcomps = Keep(@, Cids \ {c}), !.comp[c] = Unknown]

\* Mutant of sdt_del_component: it stays a member of others' channels.
del_component_only(s, c) == comp_release(sdt_del_channel(s, c), c)

\* Component c leaves the channels of all others, and goes with its own.
sdt_del_component(s, c) ==
  LET leave(x, d) ==
        IF x.comp[d].tx_channel = Nil THEN x
        ELSE sdt_del_member(x, x.comp[d].tx_channel,
                            sdt_find_member_by_component(x, x.comp[d].tx_channel, c))
  IN  comp_release(sdt_del_channel(InTurn(s, s.allcomps, leave), c), c)

\* compm_new and sdt_add_component for a component that is not known; no is_local is
\* kept.  If the pool of components is empty nothing happens.
AddComponent(s, c, creator) ==
  IF Len(s.allcomps) = CONFIG_MAX_COMPONENTS THEN s
  ELSE [s EXCEPT !.allcomps = <<c>> \o @,
                 !.comp[c] = [created_by |-> creator, tx_channel |-> Nil]]

-----------------------------------------------------------------------------
(***************************************************************************)
(* Joining.  x is what this call has made of s; p is the peer, i our       *)
(* channel, j the peer's.                                                  *)
(***************************************************************************)
Own(s) == s.comp[LOCAL_COMP].tx_channel

\* remove_allocations of sdt_tx_join: fm and lm are the members it has added.
TxUndo(s, x, p, i, j, fm, lm) ==
  LET a == IF lm # Nil THEN sdt_del_member(x, j, lm) ELSE x
      b == IF s.comp[p].tx_channel = Nil THEN sdt_del_channel(a, p) ELSE a
      c == IF fm # Nil THEN sdt_del_member(b, i, fm) ELSE b
  IN  IF Own(s) = Nil THEN sdt_del_channel(c, LOCAL_COMP) ELSE c

\* sdt_tx_join: our channel with the peer as a member, the peer's channel, which
\* has no number yet, with us as a member; built says whether a JOIN could be built.
TxJoin(s, p, number, built) ==
  LET own == sdt_add_channel(s, LOCAL_COMP, number)
      fm == MemberOf(own.s, own.i, p)
      numbered == Numbered(fm.s, own.i, fm.m)
      copy == sdt_add_channel(numbered, p, 0)
      lm == MemberOf(copy.s, copy.i, LOCAL_COMP)
      newFm == IF fm.s = own.s THEN Nil ELSE fm.m
      newLm == IF lm.s = copy.s THEN Nil ELSE lm.m
  IN  CASE own.i = Nil -> [ok |-> FALSE, s |-> s]
        [] own.i # Nil /\ fm.m = Nil ->
             [ok |-> FALSE, s |-> TxUndo(s, fm.s, p, own.i, Nil, Nil, Nil)]
        [] own.i # Nil /\ fm.m # Nil /\ copy.i = Nil ->
             [ok |-> FALSE, s |-> TxUndo(s, copy.s, p, own.i, Nil, newFm, Nil)]
        [] own.i # Nil /\ fm.m # Nil /\ copy.i # Nil /\ (lm.m = Nil \/ ~built) ->
             [ok |-> FALSE, s |-> TxUndo(s, lm.s, p, own.i, copy.i, newFm, newLm)]
        [] own.i # Nil /\ fm.m # Nil /\ copy.i # Nil /\ lm.m # Nil /\ built ->
             [ok |-> TRUE, s |-> lm.s]

\* remove_allocations of sdt_rx_join: lm is the member it has added; the foreign
\* member it may have added to our channel stays, unless the channel goes.
RxUndo(s, x, p, j, lm) ==
  LET a == IF lm # Nil THEN sdt_del_member(x, j, lm) ELSE x
      b == IF s.comp[p].tx_channel = Nil THEN sdt_del_channel(a, p) ELSE a
      c == IF ~sdt_find_comp_by_cid(s, p) THEN sdt_del_component(b, p) ELSE b
  IN  IF Own(s) = Nil THEN sdt_del_channel(c, LOCAL_COMP) ELSE c

\* sdt_rx_join of m = [chan, mid, reciprocal] from p.  How far it comes: no listener
\* can be added for the channel's group, the members are not in the states this kind
\* of JOIN wants or an answer cannot be built, or our own JOIN cannot be built.
Outcomes == {"no listener", "no answer", "no join", "done"}

RxJoin(s, p, m, number, outcome) ==
  LET own == sdt_add_channel(s, LOCAL_COMP, number)
      known == IF sdt_find_comp_by_cid(s, p) THEN own.s ELSE AddComponent(own.s, p, "cbJOIN")
      other == s.comp[p].tx_channel # Nil
               /\ known.chan[s.comp[p].tx_channel].number \notin {0, m.chan}
      copy == sdt_add_channel(known, p, m.chan)
      lm == MemberOf(copy.s, copy.i, LOCAL_COMP)
      newLm == IF lm.s = copy.s THEN Nil ELSE lm.m
      fm == MemberOf([lm.s EXCEPT !.mem[lm.m].mid = m.mid], own.i, p)
      x == [fm.s EXCEPT !.chan[copy.i].number = m.chan]
      join == TxJoin(x, p, 0, outcome = "done" /\ m.chan > 0)
  IN  CASE own.i = Nil -> s
        [] own.i # Nil /\ (~sdt_find_comp_by_cid(known, p) \/ other \/ copy.i = Nil) ->
             RxUndo(s, known, p, Nil, Nil)
        [] OTHER ->
             IF outcome = "no listener" \/ lm.m = Nil
                \/ (newLm = Nil /\ copy.s.chan[copy.i].number # 0 /\ lm.s.mem[lm.m].mid # m.mid)
               THEN RxUndo(s, copy.s, p, copy.i, Nil)
             ELSE IF fm.m = Nil THEN [fm.s EXCEPT !.died = "short"]
             ELSE IF outcome = "no answer" THEN RxUndo(s, x, p, copy.i, newLm)
             ELSE IF m.reciprocal THEN x
             ELSE IF join.ok THEN join.s
             ELSE RxUndo(s, join.s, p, copy.i, newLm)

-----------------------------------------------------------------------------
(***************************************************************************)
(* Actions.                                                                *)
(***************************************************************************)
\* sdt_add_component of the application's own component.  It says is_local, the
\* record does not keep it: a second time the record is released and then used.
AddLocal ==
  sdt' = IF sdt_find_comp_by_cid(sdt, LOCAL_COMP)
         THEN [comp_release(sdt, LOCAL_COMP) EXCEPT !.died = "added twice"]
         ELSE AddComponent(sdt, LOCAL_COMP, "cbAPP")

\* A component is found by SLP; one that is known is left as it is.
Discovered(p) ==
  /\ ~sdt_find_comp_by_cid(sdt, p)
  /\ sdt' = AddComponent(sdt, p, "cbDISC")

\* sdt_join of a component that is no member yet.
JoinPeer(p, number, built) ==
  /\ sdt.started
  /\ sdt_find_comp_by_cid(sdt, LOCAL_COMP) /\ sdt_find_comp_by_cid(sdt, p)
  /\ Own(sdt) # Nil => sdt_find_member_by_component(sdt, Own(sdt), p) = Nil
  /\ sdt' = TxJoin(sdt, p, number, built).s

\* A JOIN from p; a reciprocal one that does not name our channel changes nothing.
JoinedBy(p, m, number, outcome) ==
  /\ sdt.started
  /\ sdt_find_comp_by_cid(sdt, LOCAL_COMP)
  /\ m.reciprocal => Own(sdt) # Nil
  /\ sdt' = RxJoin(sdt, p, m, number, outcome)

\* sdt_tick, in which the members in `gone' go: each component's channel goes with
\* its last member, and a component that a JOIN has created with its channel.
TickRecords(gone) ==
  LET visit(s, c) ==
        LET i == s.comp[c].tx_channel
            a == IF i = Nil THEN s ELSE DelMembers(s, i, gone)
            b == IF i # Nil /\ a.chan[i].members = <<>> THEN sdt_del_channel(a, c) ELSE a
        IN  IF b.comp[c].tx_channel = Nil /\ b.comp[c].created_by = "cbJOIN"
            THEN sdt_del_component(b, c) ELSE b
  IN  /\ sdt.started
      /\ sdt' = InTurn(sdt, sdt.allcomps, visit)

\* sdt_shutdown deletes all components, ours too.
ShutdownRecords ==
  /\ sdt.started
  /\ sdt' = [InTurn(sdt, sdt.allcomps, sdt_del_component) EXCEPT !.started = FALSE]

StartupRecords ==
  /\ ~sdt.started
  /\ sdt' = [sdt EXCEPT !.started = TRUE]

\* rand() is called for a new channel only.
Draws == IF Own(sdt) = Nil THEN ChannelNumbers ELSE {0}

\* Bound: the records are not followed any further once one was handed out twice.
RecordsNext ==
  /\ sdt.died = "no" /\ ~sdt.shared
  /\ \/ AddLocal
     \/ \E p \in Peers : Discovered(p)
     \/ \E p \in Peers, number \in Draws, built \in BOOLEAN : JoinPeer(p, number, built)
     \/ \E p \in Peers, number \in Draws,
           m \in [chan : ChannelNumbers, mid : {1}, reciprocal : BOOLEAN],
           outcome \in Outcomes : JoinedBy(p, m, number, outcome)
     \/ \E gone \in SUBSET {m \in Members : sdt.mem[m].component # "none"} : TickRecords(gone)
     \/ ShutdownRecords
     \/ StartupRecords

RecordsSpec == RecordsInit /\ [][RecordsNext]_sdt
-----------------------------------------------------------------------------
(***************************************************************************)
(* Properties.                                                             *)
(***************************************************************************)
Listed(i) == {sdt.chan[i].members[n] : n \in DOMAIN sdt.chan[i].members}

\* Types; SDT that is not started knows no peer's channel.
RecTypeOK ==
  /\ sdt.died \in {"no", "short", "added twice"}
  /\ sdt.allcomps \in Seq(Cids)
  /\ sdt.comp \in [Cids -> [created_by : {"cbNONE", "cbAPP", "cbDISC", "cbJOIN"},
                            tx_channel : Channels \cup {Nil}]]
  /\ \A i \in Channels : sdt.chan[i] \in [number : ChannelNumbers \cup {0},
                                          available_mid : 0 .. MidWidth - 1, members : Seq(Members)]
  /\ sdt.mem \in [Members -> [component : Cids \cup {"none"}, mid : 0 .. MidWidth - 1]]
  /\ ~sdt.started => \A p \in Peers : sdt.comp[p].tx_channel = Nil

\* What the pools and the components say of each other agrees (sdtmem.c,
\* component.c), whatever joins fail half way, go and are shut down: a channel is
\* one component's, a member stands once in one list, for a component that is
\* known, with a number of its own, and all other records are free - until
\* a channel with number 0, which counts as free, is handed out again.  So
\* sdt_rx_join, which dies for want of a member record, does it only when there
\* are more peers than pairs of records, however many joins have failed before.
RecordsSound ==
  ~sdt.shared =>
    /\ sdt.died = "short" => 2 * (Len(sdt.allcomps) - 1) > SDT_MAX_MEMBERS
    /\ sdt.died # "added twice" =>
        LET owned == {sdt.comp[c].tx_channel : c \in Cids} \ {Nil}
            known == {sdt.allcomps[n] : n \in DOMAIN sdt.allcomps}
        IN  /\ Cardinality(known) = Len(sdt.allcomps)
            /\ known = {c \in Cids : sdt.comp[c].created_by # "cbNONE"}
            /\ \A c, d \in Cids : c # d /\ sdt.comp[c].tx_channel = sdt.comp[d].tx_channel =>
                 sdt.comp[c].tx_channel = Nil
            /\ \A c \in Cids \ known : sdt.comp[c].tx_channel = Nil
            /\ \A i \in Channels \ owned : sdt.chan[i].number = 0 /\ sdt.chan[i].members = <<>>
            /\ \A i \in owned : Cardinality(Listed(i)) = Len(sdt.chan[i].members)
            /\ \A i, j \in owned : i # j => Listed(i) \cap Listed(j) = {}
            /\ {m \in Members : sdt.mem[m].component # "none"} = UNION {Listed(i) : i \in owned}
            /\ \A i \in owned : \A m, n \in Listed(i) : m # n =>
                 /\ sdt.mem[m].component # sdt.mem[n].component
                 /\ sdt.mem[m].mid # 0 => sdt.mem[m].mid # sdt.mem[n].mid
            /\ \A i \in owned : \A m \in Listed(i) : sdt.mem[m].component \in known
=============================================================================
