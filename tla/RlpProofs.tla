------------------------------ MODULE RlpProofs ------------------------------
(***************************************************************************)
(* Proofs about Rlp, for any pools, ports, groups, protocols and packets:  *)
(* that the lists hold what is in use, and then that a dispatch brings     *)
(* each listener its units while the lists change under it.                *)
(***************************************************************************)
EXTENDS Rlp, LinkedListProofs

SocketRecords == [port : Ports \cup {"none"}, open : BOOLEAN]
GroupRecords == [socket : Sockets \cup {NULL}, addr : Groups \cup {UNICAST},
                 listeners : Listeners \cup {NULL}, next : RxGroups \cup {NULL}]
ListenerRecords == [protocol : Protocols \cup {"none"}, rxgroup : RxGroups \cup {NULL},
                    next : Listeners \cup {NULL}]
TableRecords == [nsk : [Sockets -> SocketRecords], head : RxGroups \cup {NULL},
                 grp : [RxGroups -> GroupRecords], lsn : [Listeners -> ListenerRecords]]

GroupLinks(s) == [g \in RxGroups |-> s.grp[g].next]
ListenerLinks(s) == [i \in Listeners |-> s.lsn[i].next]

\* The groups and listeners that are in use.
Busy(s) == {g \in RxGroups : s.grp[g].socket # NULL}
Used(s) == {l \in Listeners : s.lsn[l].protocol # "none"}
Members(s, g) == {l \in Used(s) : s.lsn[l].rxgroup = g}

\* What the tables say is registered.
Held(s) ==
  [l \in Used(s) |-> [socket |-> s.grp[s.lsn[l].rxgroup].socket,
                      addr |-> s.grp[s.lsn[l].rxgroup].addr,
                      protocol |-> s.lsn[l].protocol]]

\* ... with one more registration, and with one less.
With(held, l, entry) == [i \in DOMAIN held \cup {l} |-> IF i = l THEN entry ELSE held[i]]
Less(held, l) == [i \in DOMAIN held \ {l} |-> held[i]]

\* What RLP thinks the kernel has.
Memberships(s) ==
  {<<s.grp[g].socket, s.grp[g].addr>> : g \in {i \in Busy(s) : s.grp[i].addr \in Groups}}

\* A socket that is not open is free, and an open one has a port of its own.
SocketsOK(s) ==
  /\ \A k \in Sockets : s.nsk[k].open <=> s.nsk[k].port # "none"
  /\ \A j, k \in Sockets : s.nsk[j].open /\ s.nsk[j].port = s.nsk[k].port => j = k

\* The groups in use are in the one list, the listeners of each in its own, and no
\* two groups have the same socket and address.
ListsOK(s) ==
  /\ ListOf(GroupLinks(s), s.head, Busy(s))
  /\ \A g \in Busy(s) : ListOf(ListenerLinks(s), s.grp[g].listeners, Members(s, g))
  /\ \A g \in Busy(s) : s.nsk[s.grp[g].socket].open
  /\ \A l \in Used(s) : s.lsn[l].rxgroup \in Busy(s)
  /\ \A g, h \in Busy(s) : s.grp[g].socket = s.grp[h].socket /\ s.grp[g].addr = s.grp[h].addr => g = h

Sound(s) == s \in TableRecords /\ SocketsOK(s) /\ ListsOK(s)

\* Only g may be a group that is there for nobody.
EmptyBut(s, G) == \A g \in Busy(s) : Members(s, g) = {} => g \in G

KernelOK(m) == m.kernel \cap m.refused = {} /\ m.kernel \cup m.refused = Memberships(m.s)

DispatchOK == "phase" \in DOMAIN rx /\ rx.phase \in {"idle", "pdu", "call", "back", "end"}

\* The inductive invariant.
RlpIInv ==
  /\ Sound(rlp)
  /\ EmptyBut(rlp, {})
  /\ asked = Held(rlp)
  /\ KernelOK(Tables)
  /\ DispatchOK
-----------------------------------------------------------------------------
\* The sizes of the pools.
LEMMA Sizes ==
  /\ MAX_NSK_SOCKETS \in Nat /\ MAX_RXGROUPS \in Nat /\ MAX_LISTENERS \in Nat
  /\ MAX_NSK_SOCKETS > 0 /\ MAX_RXGROUPS > 0 /\ MAX_LISTENERS > 0
BY PoolsAssumption

\* A null pointer is no slot.
LEMMA NullIs == NULL = 0 /\ NULL \notin Sockets /\ NULL \notin RxGroups /\ NULL \notin Listeners
BY DEF NULL, Sockets, RxGroups, Listeners

\* The first slot of a set of slots is one of them.
LEMMA FirstSlotIs ==
  ASSUME NEW S \in SUBSET Nat
  PROVE  /\ S = {} => FirstSlot(S) = NULL
         /\ S # {} => FirstSlot(S) \in S
<1>1. S = {} => FirstSlot(S) = NULL
  BY DEF FirstSlot
<1>2. S # {} => FirstSlot(S) \in S
  <2>1. S # {} => \E i \in S : \A j \in S : i <= j
    BY Smallest
  <2> QED
    BY <2>1 DEF FirstSlot
<1> QED
  BY <1>1, <1>2

\* x is one of T that is in S, or the null pointer if there is none.
Found(x, T, S) ==
  /\ x # NULL => x \in T /\ x \in S
  /\ x = NULL => \A y \in T : y \notin S

\* The first of a list is one that was looked for, or there is none.
LEMMA FirstOfIs ==
  ASSUME NEW D, NEW list \in Seq(D), NULL \notin D, NEW S,
         NEW T, T = {list[i] : i \in 1 .. Len(list)}
  PROVE  Found(FirstOf(list, S), T, S)
<1> DEFINE found == {i \in DOMAIN list : list[i] \in S}
<1>1. DOMAIN list = 1 .. Len(list) /\ Len(list) \in Nat
  OBVIOUS
<1>2. found \in SUBSET Nat /\ found \subseteq 1 .. Len(list)
  BY <1>1
<1>3. \A i \in found : list[i] \in S /\ list[i] \in D /\ list[i] # NULL
  BY <1>1
<1>4. CASE found = {}
  <2>1. FirstOf(list, S) = NULL
    BY <1>4 DEF FirstOf
  <2>2. \A i \in 1 .. Len(list) : list[i] \notin S
    BY <1>1, <1>4
  <2> QED
    BY <2>1, <2>2 DEF Found
<1>5. CASE found # {}
  <2>1. FirstSlot(found) \in found
    BY <1>2, <1>5, FirstSlotIs
  <2>2. FirstOf(list, S) = list[FirstSlot(found)]
    BY <1>5 DEF FirstOf
  <2>3. FirstOf(list, S) # NULL /\ FirstOf(list, S) \in S
    BY <2>1, <2>2, <1>3
  <2> QED
    BY <2>1, <2>2, <2>3, <1>2 DEF Found
<1> QED
  BY <1>4, <1>5

\* The links of the tables.
LEMMA LinksAre ==
  ASSUME NEW s \in TableRecords
  PROVE  /\ Pool(RxGroups, GroupLinks(s)) /\ Pool(Listeners, ListenerLinks(s))
         /\ \A g \in RxGroups : GroupLinks(s)[g] = s.grp[g].next
         /\ \A l \in Listeners : ListenerLinks(s)[l] = s.lsn[l].next
<1>1. IsFiniteSet(RxGroups) /\ IsFiniteSet(Listeners)
  <2>1. 1 \in Int /\ MAX_RXGROUPS \in Int /\ MAX_LISTENERS \in Int
    BY Sizes
  <2> QED
    BY <2>1, FS_Interval DEF RxGroups, Listeners
<1>2. 0 \notin RxGroups /\ 0 \notin Listeners
  BY NullIs
<1>3. GroupLinks(s) \in [RxGroups -> RxGroups \cup {0}]
  BY DEF GroupLinks, TableRecords, GroupRecords, NULL
<1>4. ListenerLinks(s) \in [Listeners -> Listeners \cup {0}]
  BY DEF ListenerLinks, TableRecords, ListenerRecords, NULL
<1>5. /\ \A g \in RxGroups : GroupLinks(s)[g] = s.grp[g].next
      /\ \A l \in Listeners : ListenerLinks(s)[l] = s.lsn[l].next
  BY DEF GroupLinks, ListenerLinks
<1> QED
  BY <1>1, <1>2, <1>3, <1>4, <1>5 DEF Pool

\* The fields of the tables, of a group and of a listener.
LEMMA FieldTypes ==
  ASSUME NEW s \in TableRecords
  PROVE  /\ s.nsk \in [Sockets -> SocketRecords] /\ s.head \in RxGroups \cup {NULL}
         /\ s.grp \in [RxGroups -> GroupRecords] /\ s.lsn \in [Listeners -> ListenerRecords]
         /\ s = [nsk |-> s.nsk, head |-> s.head, grp |-> s.grp, lsn |-> s.lsn]
         /\ \A k \in Sockets : s.nsk[k].port \in Ports \cup {"none"} /\ s.nsk[k].open \in BOOLEAN
         /\ \A g \in RxGroups : /\ s.grp[g].socket \in Sockets \cup {NULL}
                                /\ s.grp[g].addr \in Groups \cup {UNICAST}
                                /\ s.grp[g].listeners \in Listeners \cup {NULL}
                                /\ s.grp[g].next \in RxGroups \cup {NULL}
         /\ \A l \in Listeners : /\ s.lsn[l].protocol \in Protocols \cup {"none"}
                                 /\ s.lsn[l].rxgroup \in RxGroups \cup {NULL}
                                 /\ s.lsn[l].next \in Listeners \cup {NULL}
<1>1. /\ s.nsk \in [Sockets -> SocketRecords] /\ s.head \in RxGroups \cup {NULL}
      /\ s.grp \in [RxGroups -> GroupRecords] /\ s.lsn \in [Listeners -> ListenerRecords]
      /\ s = [nsk |-> s.nsk, head |-> s.head, grp |-> s.grp, lsn |-> s.lsn]
  BY DEF TableRecords
<1>2. \A k \in Sockets : s.nsk[k].port \in Ports \cup {"none"} /\ s.nsk[k].open \in BOOLEAN
  BY <1>1 DEF SocketRecords
<1>3. \A g \in RxGroups : /\ s.grp[g].socket \in Sockets \cup {NULL}
                          /\ s.grp[g].addr \in Groups \cup {UNICAST}
                          /\ s.grp[g].listeners \in Listeners \cup {NULL}
                          /\ s.grp[g].next \in RxGroups \cup {NULL}
  BY <1>1 DEF GroupRecords
<1>4. \A l \in Listeners : /\ s.lsn[l].protocol \in Protocols \cup {"none"}
                           /\ s.lsn[l].rxgroup \in RxGroups \cup {NULL}
                           /\ s.lsn[l].next \in Listeners \cup {NULL}
  BY <1>1 DEF ListenerRecords
<1> QED
  BY <1>1, <1>2, <1>3, <1>4


\* Tables with other groups and listeners.
LEMMA TablesWith ==
  ASSUME NEW s \in TableRecords, NEW G, NEW L, NEW h
  PROVE  /\ [s EXCEPT !.head = h, !.grp = G] = [nsk |-> s.nsk, head |-> h, grp |-> G, lsn |-> s.lsn]
         /\ [s EXCEPT !.grp = G] = [nsk |-> s.nsk, head |-> s.head, grp |-> G, lsn |-> s.lsn]
         /\ [s EXCEPT !.lsn = L, !.grp = G] = [nsk |-> s.nsk, head |-> s.head, grp |-> G, lsn |-> L]
         /\ [s EXCEPT !.grp = G, !.lsn = L] = [nsk |-> s.nsk, head |-> s.head, grp |-> G, lsn |-> L]
         /\ [s EXCEPT !.lsn = L] = [nsk |-> s.nsk, head |-> s.head, grp |-> s.grp, lsn |-> L]
         /\ [s EXCEPT !.head = h] = [nsk |-> s.nsk, head |-> h, grp |-> s.grp, lsn |-> s.lsn]
<1> DEFINE T(H, G1, L1) == [nsk |-> s.nsk, head |-> H, grp |-> G1, lsn |-> L1]
<1>1. \A H, G1, L1, X : /\ [T(H, G1, L1) EXCEPT !.grp = X] = T(H, X, L1)
                       /\ [T(H, G1, L1) EXCEPT !.lsn = X] = T(H, G1, X)
                       /\ [T(H, G1, L1) EXCEPT !.head = X] = T(X, G1, L1)
  OBVIOUS
<1>2. s = T(s.head, s.grp, s.lsn)
  BY DEF TableRecords
<1> HIDE DEF T
<1> DEFINE sh == [s EXCEPT !.head = h]
           sg == [s EXCEPT !.grp = G]
           sl == [s EXCEPT !.lsn = L]
<1>3. sh = T(h, s.grp, s.lsn) /\ sg = T(s.head, G, s.lsn) /\ sl = T(s.head, s.grp, L)
  BY <1>1, <1>2
<1> HIDE DEF sh, sg, sl
<1>4. [sh EXCEPT !.grp = G] = T(h, G, s.lsn)
  BY <1>1, <1>3
<1>5. [sl EXCEPT !.grp = G] = T(s.head, G, L)
  BY <1>1, <1>3
<1>6. [sg EXCEPT !.lsn = L] = T(s.head, G, L)
  BY <1>1, <1>3
<1> USE DEF sh, sg, sl
<1>7. /\ [s EXCEPT !.head = h, !.grp = G] = T(h, G, s.lsn)
      /\ [s EXCEPT !.lsn = L, !.grp = G] = T(s.head, G, L)
      /\ [s EXCEPT !.grp = G, !.lsn = L] = T(s.head, G, L)
  BY <1>4, <1>5, <1>6, Zenon
<1> QED
  BY <1>3, <1>7 DEF T

\* The list of groups holds just those that are in use.
LEMMA GroupsListed ==
  ASSUME NEW s, Sound(s)
  PROVE  /\ GroupList(s) \in Seq(RxGroups)
         /\ Busy(s) = {GroupList(s)[i] : i \in 1 .. Len(GroupList(s))}
         /\ Len(GroupList(s)) = Cardinality(Busy(s))
<1>1. s \in TableRecords /\ ListOf(GroupLinks(s), s.head, Busy(s))
  BY DEF Sound, ListsOK
<1>2. Pool(RxGroups, GroupLinks(s))
  BY <1>1, LinksAre
<1>3. GroupList(s) = Walk(GroupLinks(s), s.head)
  BY DEF GroupList, GroupLinks
<1> QED
  BY <1>1, <1>2, <1>3, ListOfWalk

\* ... and that of a group's listeners just its own.
LEMMA ListenersListed ==
  ASSUME NEW s, Sound(s), NEW g \in Busy(s)
  PROVE  /\ ListenersOf(s, g) \in Seq(Listeners)
         /\ Members(s, g) = {ListenersOf(s, g)[i] : i \in 1 .. Len(ListenersOf(s, g))}
         /\ Len(ListenersOf(s, g)) = Cardinality(Members(s, g))
<1>1. s \in TableRecords /\ ListOf(ListenerLinks(s), s.grp[g].listeners, Members(s, g))
  BY DEF Sound, ListsOK
<1>2. Pool(Listeners, ListenerLinks(s))
  BY <1>1, LinksAre
<1>3. ListenersOf(s, g) = Walk(ListenerLinks(s), s.grp[g].listeners)
  BY DEF ListenersOf, ListFrom, ListenerLinks
<1> QED
  BY <1>1, <1>2, <1>3, ListOfWalk

\* rlpm_find_rxgroup finds the group of a socket and address, if there is one.
LEMMA FindGroup ==
  ASSUME NEW s, Sound(s), NEW k \in Sockets, NEW a
  PROVE  LET g == rlpm_find_rxgroup(s, k, a)
         IN  /\ g # NULL => g \in Busy(s) /\ s.grp[g].socket = k /\ s.grp[g].addr = a
             /\ g = NULL => \A h \in Busy(s) : s.grp[h].socket # k \/ s.grp[h].addr # a
<1> DEFINE S == {g \in RxGroups : s.grp[g].socket = k /\ s.grp[g].addr = a}
           g == rlpm_find_rxgroup(s, k, a)
<1>1. g = FirstOf(GroupList(s), S)
  BY DEF rlpm_find_rxgroup
<1> HIDE DEF S
<1>2. Found(FirstOf(GroupList(s), S), Busy(s), S)
  BY GroupsListed, NullIs, FirstOfIs
<1> QED
  BY <1>1, <1>2 DEF Busy, S, Found

\* A socket with groups is one that a group in use names.
LEMMA HasGroups ==
  ASSUME NEW s, Sound(s), NEW k
  PROVE  rlpm_netsock_has_rxgroups(s, k) <=> \E g \in Busy(s) : s.grp[g].socket = k
<1>1. DOMAIN GroupList(s) = 1 .. Len(GroupList(s))
  BY GroupsListed
<1> QED
  BY <1>1, GroupsListed DEF rlpm_netsock_has_rxgroups

\* The record of a new group: it is before the others, and has no listeners.
NewGroup(s, t, g, k, a) ==
  /\ t \in TableRecords /\ t.nsk = s.nsk /\ t.lsn = s.lsn /\ t.head = g
  /\ \A i \in RxGroups \ {g} : t.grp[i] = s.grp[i]
  /\ t.grp[g] = [socket |-> k, addr |-> a, listeners |-> NULL, next |-> s.head]

\* rlpm_new_rxgroup takes a slot that is not in use, if there is one.
LEMMA NewGroupIs ==
  ASSUME NEW s \in TableRecords, NEW k \in Sockets, NEW a \in Groups \cup {UNICAST}
  PROVE  LET n == rlpm_new_rxgroup(s, k, a)
         IN  /\ n.g = NULL => n.s = s
             /\ n.g # NULL => n.g \in RxGroups \ Busy(s) /\ NewGroup(s, n.s, n.g, k, a)
<1> DEFINE g == FirstSlot({i \in RxGroups : s.grp[i].socket = NULL})
           r == [socket |-> k, addr |-> a, listeners |-> NULL, next |-> s.head]
           t == [s EXCEPT !.head = g, !.grp[g] = r]
           n == rlpm_new_rxgroup(s, k, a)
<1>1. n = [g |-> g, s |-> IF g = NULL THEN s ELSE t]
  BY DEF rlpm_new_rxgroup
<1>2. g # NULL => g \in RxGroups /\ s.grp[g].socket = NULL
  <2>1. {i \in RxGroups : s.grp[i].socket = NULL} \in SUBSET Nat
    BY Sizes DEF RxGroups
  <2> QED
    BY <2>1, FirstSlotIs, Zenon
<1> HIDE DEF g
<1>3. ASSUME g # NULL PROVE NewGroup(s, t, g, k, a)
  <2>1. r \in GroupRecords /\ g \in RxGroups
    BY <1>2, <1>3, FieldTypes DEF GroupRecords
  <2> HIDE DEF r
  <2>4. t.nsk = s.nsk /\ t.lsn = s.lsn /\ t.head = g /\ t.grp = [s.grp EXCEPT ![g] = r]
    BY <2>1, FieldTypes DEF TableRecords
  <2>2. t = [nsk |-> t.nsk, head |-> t.head, grp |-> t.grp, lsn |-> t.lsn]
    BY <2>1, FieldTypes DEF TableRecords
  <2> HIDE DEF t
  <2>5. t.grp \in [RxGroups -> GroupRecords]
    BY <2>1, <2>4, FieldTypes
  <2>3. t \in TableRecords
    BY <1>3, <2>1, <2>2, <2>4, <2>5, FieldTypes DEF TableRecords
  <2>6. t.grp[g] = r /\ \A i \in RxGroups \ {g} : t.grp[i] = s.grp[i]
    BY <2>1, <2>4, FieldTypes
  <2> QED
    BY <2>3, <2>4, <2>6 DEF NewGroup, r
<1>4. g # NULL => g \notin Busy(s)
  BY <1>2 DEF Busy
<1> HIDE DEF t, n
<1>5. n.g = g /\ n.s = IF g = NULL THEN s ELSE t
  BY <1>1
<1> QED
  BY <1>2, <1>3, <1>4, <1>5 DEF n


\* The tables keep who has registered what.
SameHeld(s, t) == Used(t) = Used(s) /\ Held(t) = Held(s) /\ \A g \in RxGroups : Members(t, g) = Members(s, g)

\* A new group is sound, and is the one without listeners.
LEMMA NewGroupSound ==
  ASSUME NEW s, Sound(s), NEW k \in Sockets, s.nsk[k].open, NEW a \in Groups \cup {UNICAST},
         \A h \in Busy(s) : s.grp[h].socket # k \/ s.grp[h].addr # a,
         NEW g \in RxGroups, g \notin Busy(s), NEW t, NewGroup(s, t, g, k, a)
  PROVE  /\ Sound(t) /\ SameHeld(s, t) /\ Busy(t) = Busy(s) \cup {g} /\ Members(t, g) = {}
         /\ Memberships(t) = Memberships(s) \cup (IF a \in Groups THEN {<<k, a>>} ELSE {})
<1>1. /\ s \in TableRecords /\ t \in TableRecords /\ t.nsk = s.nsk /\ t.lsn = s.lsn /\ t.head = g
      /\ \A i \in RxGroups \ {g} : t.grp[i] = s.grp[i]
      /\ t.grp[g].socket = k /\ t.grp[g].addr = a /\ t.grp[g].listeners = NULL
      /\ t.grp[g].next = s.head
  BY DEF Sound, NewGroup
<1>2. Busy(t) = Busy(s) \cup {g} /\ \A i \in Busy(s) : i \in RxGroups \ {g} /\ t.grp[i] = s.grp[i]
  BY <1>1, NullIs DEF Busy
<1>3. Used(t) = Used(s) /\ \A h : Members(t, h) = Members(s, h)
  BY <1>1 DEF Used, Members
<1>4. \A l \in Used(s) : s.lsn[l].rxgroup \in Busy(s)
  BY DEF Sound, ListsOK
<1>5. Members(s, g) = {}
  BY <1>4 DEF Members
<1>6. Held(t) = Held(s)
  BY <1>1, <1>2, <1>3, <1>4 DEF Held
<1>7. SocketsOK(t)
  BY <1>1 DEF SocketsOK, Sound
<1>8. ListOf(GroupLinks(t), t.head, Busy(t))
  <2>1. ListOf(GroupLinks(s), s.head, Busy(s))
    BY DEF Sound, ListsOK
  <2>2. Pool(RxGroups, GroupLinks(s)) /\ Pool(RxGroups, GroupLinks(t))
    BY <1>1, LinksAre
  <2>3. GroupLinks(t)[g] = s.head /\ \A i \in Busy(s) : GroupLinks(t)[i] = GroupLinks(s)[i]
    BY <1>1, <1>2, LinksAre
  <2> QED
    BY <2>1, <2>2, <2>3, <1>1, <1>2, ListOfPut
<1>9. ASSUME NEW h \in Busy(t) PROVE ListOf(ListenerLinks(t), t.grp[h].listeners, Members(t, h))
  <2>1. ListenerLinks(t) = ListenerLinks(s)
    BY <1>1 DEF ListenerLinks
  <2>2. CASE h = g
    <3>1. ListOf(ListenerLinks(t), 0, {})
      BY <1>1, LinksAre, ListOfNone
    <3> QED
      BY <3>1, <2>2, <1>1, <1>3, <1>5, NullIs
  <2>3. CASE h # g
    <3>1. h \in Busy(s) /\ t.grp[h] = s.grp[h]
      BY <2>3, <1>2
    <3>2. ListOf(ListenerLinks(s), s.grp[h].listeners, Members(s, h))
      BY <3>1 DEF Sound, ListsOK
    <3> QED
      BY <3>1, <3>2, <2>1, <1>3
  <2> QED
    BY <2>2, <2>3
<1>10. \A h \in Busy(t) : t.nsk[t.grp[h].socket].open
  BY <1>1, <1>2 DEF Sound, ListsOK
<1>11. \A l \in Used(t) : t.lsn[l].rxgroup \in Busy(t)
  BY <1>1, <1>2, <1>3, <1>4
<1>12. \A h, i \in Busy(t) : t.grp[h].socket = t.grp[i].socket /\ t.grp[h].addr = t.grp[i].addr => h = i
  <2>1. \A h, i \in Busy(s) : s.grp[h].socket = s.grp[i].socket /\ s.grp[h].addr = s.grp[i].addr => h = i
    BY DEF Sound, ListsOK
  <2> QED
    BY <2>1, <1>1, <1>2
<1>13. Sound(t)
  BY <1>1, <1>7, <1>8, <1>9, <1>10, <1>11, <1>12 DEF Sound, ListsOK
<1>14. Memberships(t) = Memberships(s) \cup (IF a \in Groups THEN {<<k, a>>} ELSE {})
  BY <1>1, <1>2 DEF Memberships
<1> QED
  BY <1>2, <1>3, <1>5, <1>6, <1>13, <1>14 DEF SameHeld

\* The record of a group goes, and whatever leads to it leads past it.
DropGroup(s, t, g) ==
  /\ t \in TableRecords /\ t.nsk = s.nsk /\ t.lsn = s.lsn
  /\ \A i \in RxGroups : /\ t.grp[i].socket = IF i = g THEN NULL ELSE s.grp[i].socket
                         /\ t.grp[i].addr = s.grp[i].addr
                         /\ t.grp[i].listeners = s.grp[i].listeners
  /\ \/ /\ s.head = g /\ t.head = s.grp[g].next
        /\ \A i \in RxGroups : t.grp[i].next = s.grp[i].next
     \/ \E b \in Busy(s) :
          /\ s.head # g /\ t.head = s.head /\ s.grp[b].next = g
          /\ \A i \in RxGroups : t.grp[i].next = IF i = b THEN s.grp[g].next ELSE s.grp[i].next

\* rlpm_free_rxgroup of a group that is in use.
LEMMA DropGroupIs ==
  ASSUME NEW s, Sound(s), NEW g \in Busy(s)
  PROVE  DropGroup(s, rlpm_free_rxgroup(s, g), g)
<1>1. s \in TableRecords /\ g \in RxGroups
  BY DEF Sound, Busy
<1> DEFINE S == {i \in RxGroups : s.grp[i].next = g}
           b == FirstOf(GroupList(s), S)
<1>2. Found(b, Busy(s), S)
  BY GroupsListed, NullIs, FirstOfIs
<1>3. s.head # g => b \in Busy(s) /\ b \in RxGroups /\ s.grp[b].next = g
  <2>1. Pool(RxGroups, GroupLinks(s)) /\ ListOf(GroupLinks(s), s.head, Busy(s))
    BY <1>1, LinksAre DEF Sound, ListsOK
  <2>2. s.head # g => \E i \in Busy(s) : GroupLinks(s)[i] = g
    BY <2>1, ListOfIs
  <2>3. s.head # g => \E i \in Busy(s) : i \in S
    BY <2>2, <1>1, LinksAre DEF Busy
  <2> QED
    BY <2>3, <1>2 DEF Found, Busy
<1> HIDE DEF b, S
<1> DEFINE n == s.grp[g].next
           t1 == [s EXCEPT !.head = n, !.grp[g].socket = NULL]
           t2 == [s EXCEPT !.grp[b].next = n, !.grp[g].socket = NULL]
<1>4. rlpm_free_rxgroup(s, g) = IF s.head = g THEN t1 ELSE t2
  <2>1. b # NULL \/ s.head = g
    BY <1>3, NullIs
  <2> QED
    BY <2>1 DEF rlpm_free_rxgroup, b, S
<1>5. n \in RxGroups \cup {NULL}
  BY <1>1, FieldTypes
<1> HIDE DEF n
<1>6. CASE s.head = g
  <2>0. t1 = [nsk |-> t1.nsk, head |-> t1.head, grp |-> t1.grp, lsn |-> t1.lsn]
    <3> DEFINE G == [s.grp EXCEPT ![g].socket = NULL]
               u == [s EXCEPT !.head = n, !.grp = G]
    <3>1. t1 = u
      BY <1>1
    <3>2. s \in TableRecords
      BY <1>1
    <3> DEFINE v == [s EXCEPT !.head = n]
    <3> HIDE DEF t1, G
    <3>3. v = [nsk |-> s.nsk, head |-> n, grp |-> s.grp, lsn |-> s.lsn]
      BY <3>2, TablesWith
    <3>4. u = [v EXCEPT !.grp = G]
      OBVIOUS
    <3> HIDE DEF u, v
    <3>5. v \in TableRecords /\ v.nsk = s.nsk /\ v.head = n /\ v.lsn = s.lsn
      BY <3>2, <3>3, <1>5, FieldTypes DEF TableRecords
    <3>6. u = [nsk |-> s.nsk, head |-> n, grp |-> G, lsn |-> s.lsn]
      BY <3>4, <3>5, TablesWith
    <3> QED
      BY <3>1, <3>6
  <2>01. t1.nsk = s.nsk /\ t1.lsn = s.lsn /\ t1.head = n
    BY <1>1, FieldTypes DEF TableRecords
  <2>02. t1.grp = [s.grp EXCEPT ![g].socket = NULL]
    BY <1>1, FieldTypes
  <2>1. t1.nsk = s.nsk /\ t1.lsn = s.lsn /\ t1.head = n /\ t1.grp = [s.grp EXCEPT ![g].socket = NULL]
        /\ t1 = [nsk |-> t1.nsk, head |-> t1.head, grp |-> t1.grp, lsn |-> t1.lsn]
    BY <2>0, <2>01, <2>02
  <2> HIDE DEF t1
  <2>2. t1.grp \in [RxGroups -> GroupRecords]
    BY <2>1, <1>1, FieldTypes DEF GroupRecords
  <2>3. t1 \in TableRecords
    BY <2>1, <2>2, <1>1, <1>5, FieldTypes DEF TableRecords
  <2>4. \A i \in RxGroups : /\ t1.grp[i].socket = IF i = g THEN NULL ELSE s.grp[i].socket
                            /\ t1.grp[i].addr = s.grp[i].addr
                            /\ t1.grp[i].listeners = s.grp[i].listeners
                            /\ t1.grp[i].next = s.grp[i].next
    BY <2>1, <1>1, FieldTypes DEF GroupRecords
  <2>5. rlpm_free_rxgroup(s, g) = t1
    BY <1>4, <1>6
  <2>6. DropGroup(s, t1, g)
    <3>1. t1.head = s.grp[g].next
      BY <2>1 DEF n
    <3> QED
      BY <2>1, <2>3, <2>4, <3>1, <1>6 DEF DropGroup
  <2> QED
    BY <2>5, <2>6
<1>7. CASE s.head # g
  <2>0. b \in RxGroups
    BY <1>3, <1>7
  <2>01. t2 = [nsk |-> t2.nsk, head |-> t2.head, grp |-> t2.grp, lsn |-> t2.lsn]
    <3> DEFINE G == [s.grp EXCEPT ![b].next = n, ![g].socket = NULL]
               u == [s EXCEPT !.grp = G]
    <3>1. t2 = u
      BY <1>1
    <3> HIDE DEF t2, G
    <3>2. u = [nsk |-> s.nsk, head |-> s.head, grp |-> G, lsn |-> s.lsn]
      BY <1>1, TablesWith
    <3> QED
      BY <3>1, <3>2
  <2>02. t2.nsk = s.nsk /\ t2.lsn = s.lsn /\ t2.head = s.head
    BY <1>1, FieldTypes DEF TableRecords
  <2>03. t2.grp = [s.grp EXCEPT ![b].next = n, ![g].socket = NULL]
    BY <2>0, <1>1, FieldTypes
  <2>1. t2.nsk = s.nsk /\ t2.lsn = s.lsn /\ t2.head = s.head
        /\ t2.grp = [s.grp EXCEPT ![b].next = n, ![g].socket = NULL]
        /\ t2 = [nsk |-> t2.nsk, head |-> t2.head, grp |-> t2.grp, lsn |-> t2.lsn]
    BY <2>01, <2>02, <2>03
  <2> HIDE DEF t2
  <2>4. \A i \in RxGroups : /\ t2.grp[i] \in GroupRecords
                            /\ t2.grp[i].socket = IF i = g THEN NULL ELSE s.grp[i].socket
                            /\ t2.grp[i].addr = s.grp[i].addr
                            /\ t2.grp[i].listeners = s.grp[i].listeners
                            /\ t2.grp[i].next = IF i = b THEN n ELSE s.grp[i].next
    BY <2>0, <2>1, <1>1, <1>5, FieldTypes DEF GroupRecords
  <2>2. t2.grp \in [RxGroups -> GroupRecords]
    BY <2>0, <2>1, <2>4, <1>1, FieldTypes
  <2>3. t2 \in TableRecords
    BY <2>1, <2>2, <1>1, FieldTypes DEF TableRecords
  <2>5. rlpm_free_rxgroup(s, g) = t2
    BY <1>4, <1>7
  <2>6. DropGroup(s, t2, g)
    BY <2>1, <2>3, <2>4, <1>3, <1>7 DEF DropGroup, n
  <2> QED
    BY <2>5, <2>6
<1> QED
  BY <1>6, <1>7


\* Without a group that has no listeners the tables are sound.
LEMMA DropGroupSound ==
  ASSUME NEW s, Sound(s), NEW g \in Busy(s), Members(s, g) = {}, NEW t, DropGroup(s, t, g)
  PROVE  /\ Sound(t) /\ SameHeld(s, t) /\ Busy(t) = Busy(s) \ {g} /\ t.grp[g].listeners = NULL
         /\ \A i \in RxGroups : t.grp[i].addr = s.grp[i].addr
         /\ Memberships(t) = Memberships(s) \ {<<s.grp[g].socket, s.grp[g].addr>>}
<1>1. /\ s \in TableRecords /\ t \in TableRecords /\ t.nsk = s.nsk /\ t.lsn = s.lsn /\ g \in RxGroups
      /\ \A i \in RxGroups : /\ t.grp[i].socket = IF i = g THEN NULL ELSE s.grp[i].socket
                             /\ t.grp[i].addr = s.grp[i].addr
                             /\ t.grp[i].listeners = s.grp[i].listeners
  BY DEF Sound, DropGroup, Busy
<1>2. /\ Busy(t) = Busy(s) \ {g}
      /\ \A i \in Busy(s) \ {g} : /\ i \in RxGroups /\ t.grp[i].socket = s.grp[i].socket
                                  /\ t.grp[i].addr = s.grp[i].addr
                                  /\ t.grp[i].listeners = s.grp[i].listeners
  BY <1>1 DEF Busy
<1>3. Used(t) = Used(s) /\ \A h : Members(t, h) = Members(s, h)
  BY <1>1 DEF Used, Members
<1>4. \A l \in Used(s) : s.lsn[l].rxgroup \in Busy(s) \ {g}
  BY DEF Sound, ListsOK, Members
<1>5. Held(t) = Held(s)
  BY <1>1, <1>2, <1>3, <1>4 DEF Held
<1>6. SocketsOK(t)
  BY <1>1 DEF SocketsOK, Sound
<1>7. ListOf(GroupLinks(t), t.head, Busy(t))
  <2>1. ListOf(GroupLinks(s), s.head, Busy(s))
    BY DEF Sound, ListsOK
  <2>2. Pool(RxGroups, GroupLinks(s)) /\ Pool(RxGroups, GroupLinks(t))
    BY <1>1, LinksAre
  <2>3. \A i \in RxGroups : GroupLinks(s)[i] = s.grp[i].next /\ GroupLinks(t)[i] = t.grp[i].next
    BY <1>1, LinksAre
  <2>4. CASE /\ s.head = g /\ t.head = s.grp[g].next
             /\ \A i \in RxGroups : t.grp[i].next = s.grp[i].next
    <3>1. \A i \in Busy(s) \ {s.head} : GroupLinks(t)[i] = GroupLinks(s)[i]
      BY <2>3, <2>4 DEF Busy
    <3>2. s.head # 0 /\ GroupLinks(s)[s.head] = t.head
      BY <2>3, <2>4, <1>1, NullIs
    <3>3. ListOf(GroupLinks(t), GroupLinks(s)[s.head], Busy(s) \ {s.head})
      BY <2>1, <2>2, <3>1, <3>2, ListOfBehead
    <3> QED
      BY <2>4, <3>2, <3>3, <1>2
  <2>5. ASSUME NEW b \in Busy(s), s.head # g, t.head = s.head, s.grp[b].next = g,
               \A i \in RxGroups : t.grp[i].next = IF i = b THEN s.grp[g].next ELSE s.grp[i].next
        PROVE  ListOf(GroupLinks(t), t.head, Busy(t))
    <3>1. b \in RxGroups /\ GroupLinks(s)[b] = g /\ GroupLinks(t)[b] = GroupLinks(s)[g]
      BY <2>3, <2>5, <1>1 DEF Busy
    <3>2. \A i \in Busy(s) \ {b, g} : GroupLinks(t)[i] = GroupLinks(s)[i]
      BY <2>3, <2>5 DEF Busy
    <3> QED
      BY <2>1, <2>2, <2>5, <3>1, <3>2, <1>2, ListOfDrop
  <2> QED
    BY <2>4, <2>5 DEF DropGroup
<1>8. ASSUME NEW h \in Busy(t) PROVE ListOf(ListenerLinks(t), t.grp[h].listeners, Members(t, h))
  <2>1. ListenerLinks(t) = ListenerLinks(s)
    BY <1>1 DEF ListenerLinks
  <2>2. h \in Busy(s) /\ t.grp[h].listeners = s.grp[h].listeners
    BY <1>2
  <2>3. ListOf(ListenerLinks(s), s.grp[h].listeners, Members(s, h))
    BY <2>2 DEF Sound, ListsOK
  <2> QED
    BY <2>1, <2>2, <2>3, <1>3
<1>9. \A h \in Busy(t) : t.nsk[t.grp[h].socket].open
  BY <1>1, <1>2 DEF Sound, ListsOK
<1>10. \A l \in Used(t) : t.lsn[l].rxgroup \in Busy(t)
  BY <1>1, <1>2, <1>3, <1>4
<1>11. \A h, i \in Busy(s) : s.grp[h].socket = s.grp[i].socket /\ s.grp[h].addr = s.grp[i].addr => h = i
  BY DEF Sound, ListsOK
<1>12. \A h, i \in Busy(t) : t.grp[h].socket = t.grp[i].socket /\ t.grp[h].addr = t.grp[i].addr => h = i
  BY <1>2, <1>11
<1>13. Sound(t)
  BY <1>1, <1>6, <1>7, <1>8, <1>9, <1>10, <1>12 DEF Sound, ListsOK
<1>14. t.grp[g].listeners = NULL
  <2>1. ListOf(ListenerLinks(s), s.grp[g].listeners, {}) /\ Pool(Listeners, ListenerLinks(s))
    BY <1>1, LinksAre DEF Sound, ListsOK
  <2>2. s.grp[g].listeners = 0
    BY <2>1, ListOfIs
  <2> QED
    BY <2>2, <1>1, NullIs
<1>15. Memberships(t) = Memberships(s) \ {<<s.grp[g].socket, s.grp[g].addr>>}
  <2>1. Memberships(t) \subseteq Memberships(s) \ {<<s.grp[g].socket, s.grp[g].addr>>}
    <3> SUFFICES ASSUME NEW h \in Busy(t), t.grp[h].addr \in Groups
                 PROVE  /\ <<t.grp[h].socket, t.grp[h].addr>> \in Memberships(s)
                        /\ <<t.grp[h].socket, t.grp[h].addr>> # <<s.grp[g].socket, s.grp[g].addr>>
      BY DEF Memberships
    <3>1. h \in Busy(s) \ {g} /\ t.grp[h].socket = s.grp[h].socket /\ t.grp[h].addr = s.grp[h].addr
      BY <1>2
    <3>2. s.grp[h].socket # s.grp[g].socket \/ s.grp[h].addr # s.grp[g].addr
      BY <3>1, <1>11
    <3> QED
      BY <3>1, <3>2 DEF Memberships
  <2>2. Memberships(s) \ {<<s.grp[g].socket, s.grp[g].addr>>} \subseteq Memberships(t)
    <3> SUFFICES ASSUME NEW h \in Busy(s), s.grp[h].addr \in Groups,
                        <<s.grp[h].socket, s.grp[h].addr>> # <<s.grp[g].socket, s.grp[g].addr>>
                 PROVE  <<s.grp[h].socket, s.grp[h].addr>> \in Memberships(t)
      BY DEF Memberships
    <3>1. h # g
      OBVIOUS
    <3>2. h \in Busy(t) /\ t.grp[h].socket = s.grp[h].socket /\ t.grp[h].addr = s.grp[h].addr
      BY <3>1, <1>2
    <3> QED
      BY <3>2 DEF Memberships
  <2> QED
    BY <2>1, <2>2
<1> QED
  BY <1>1, <1>2, <1>3, <1>5, <1>13, <1>14, <1>15 DEF SameHeld

\* The record of a new listener: it is before the others of its group.
NewListener(s, t, l, g, p) ==
  /\ t \in TableRecords /\ t.nsk = s.nsk /\ t.head = s.head
  /\ \A i \in Listeners \ {l} : t.lsn[i] = s.lsn[i]
  /\ t.lsn[l] = [protocol |-> p, rxgroup |-> g, next |-> s.grp[g].listeners]
  /\ \A i \in RxGroups : /\ t.grp[i].socket = s.grp[i].socket /\ t.grp[i].addr = s.grp[i].addr
                         /\ t.grp[i].next = s.grp[i].next
                         /\ t.grp[i].listeners = IF i = g THEN l ELSE s.grp[i].listeners

\* rlpm_new_listener takes a slot that is not in use, if there is one.
LEMMA NewListenerIs ==
  ASSUME NEW s \in TableRecords, NEW g \in RxGroups, NEW p \in Protocols
  PROVE  LET n == rlpm_new_listener(s, g, p)
         IN  /\ n.l = NULL => n.s = s
             /\ n.l # NULL => n.l \in Listeners \ Used(s) /\ NewListener(s, n.s, n.l, g, p)
<1> DEFINE l == FirstSlot({i \in Listeners : s.lsn[i].protocol = "none"})
           r == [protocol |-> p, rxgroup |-> g, next |-> s.grp[g].listeners]
           t == [s EXCEPT !.lsn[l] = r, !.grp[g].listeners = l]
           n == rlpm_new_listener(s, g, p)
<1>1. n = [l |-> l, s |-> IF l = NULL THEN s ELSE t]
  BY DEF rlpm_new_listener
<1>2. l # NULL => l \in Listeners /\ s.lsn[l].protocol = "none"
  <2>1. {i \in Listeners : s.lsn[i].protocol = "none"} \in SUBSET Nat
    BY Sizes DEF Listeners
  <2> QED
    BY <2>1, FirstSlotIs, Zenon
<1> HIDE DEF l
<1>3. ASSUME l # NULL PROVE NewListener(s, t, l, g, p)
  <2>1. r \in ListenerRecords /\ l \in Listeners
    BY <1>2, <1>3, FieldTypes DEF ListenerRecords
  <2> HIDE DEF r
  <2> DEFINE G == [s.grp EXCEPT ![g].listeners = l]
             L == [s.lsn EXCEPT ![l] = r]
             u == [s EXCEPT !.lsn = L, !.grp = G]
  <2>2. t = u
    OBVIOUS
  <2>3. G \in [RxGroups -> GroupRecords] /\ L \in [Listeners -> ListenerRecords]
    BY <2>1, FieldTypes DEF GroupRecords
  <2>4. /\ \A i \in RxGroups : /\ G[i].socket = s.grp[i].socket /\ G[i].addr = s.grp[i].addr
                               /\ G[i].next = s.grp[i].next
                               /\ G[i].listeners = IF i = g THEN l ELSE s.grp[i].listeners
        /\ L[l] = r /\ \A i \in Listeners \ {l} : L[i] = s.lsn[i]
    BY <2>1, FieldTypes DEF GroupRecords
  <2> HIDE DEF t, G, L
  <2>5. u = [nsk |-> s.nsk, head |-> s.head, grp |-> G, lsn |-> L]
    BY TablesWith
  <2>6. t.nsk = s.nsk /\ t.head = s.head /\ t.grp = G /\ t.lsn = L
    BY <2>2, <2>5
  <2>7. t \in TableRecords
    BY <2>2, <2>3, <2>5, FieldTypes DEF TableRecords
  <2> QED
    BY <2>4, <2>6, <2>7 DEF NewListener, r
<1>4. l # NULL => l \notin Used(s)
  BY <1>2 DEF Used
<1> HIDE DEF t, n
<1>5. n.l = l /\ n.s = IF l = NULL THEN s ELSE t
  BY <1>1
<1> QED
  BY <1>2, <1>3, <1>4, <1>5 DEF n

\* A new listener is sound, and is registered for what it was asked for.
LEMMA NewListenerSound ==
  ASSUME NEW s, Sound(s), NEW g \in Busy(s), NEW p \in Protocols,
         NEW l \in Listeners, l \notin Used(s), NEW t, NewListener(s, t, l, g, p)
  PROVE  /\ Sound(t) /\ Busy(t) = Busy(s) /\ Memberships(t) = Memberships(s)
         /\ Used(t) = Used(s) \cup {l} /\ l \in Members(t, g)
         /\ \A h \in RxGroups : h # g => Members(t, h) = Members(s, h)
         /\ Held(t) = With(Held(s), l, [socket |-> s.grp[g].socket, addr |-> s.grp[g].addr,
                                        protocol |-> p])
<1>1. /\ s \in TableRecords /\ t \in TableRecords /\ t.nsk = s.nsk /\ t.head = s.head
      /\ g \in RxGroups
      /\ \A i \in Listeners \ {l} : t.lsn[i] = s.lsn[i]
      /\ t.lsn[l].protocol = p /\ t.lsn[l].rxgroup = g /\ t.lsn[l].next = s.grp[g].listeners
      /\ \A i \in RxGroups : /\ t.grp[i].socket = s.grp[i].socket /\ t.grp[i].addr = s.grp[i].addr
                             /\ t.grp[i].next = s.grp[i].next
                             /\ t.grp[i].listeners = IF i = g THEN l ELSE s.grp[i].listeners
  BY DEF Sound, NewListener, Busy
<1>2. Busy(t) = Busy(s) /\ \A i \in Busy(s) : i \in RxGroups
  BY <1>1 DEF Busy
<1>3. p # "none"
  BY NamesAssumption
<1>4. Used(t) = Used(s) \cup {l} /\ \A i \in Used(s) : i \in Listeners \ {l} /\ t.lsn[i] = s.lsn[i]
  BY <1>1, <1>3 DEF Used
<1>5. /\ Members(t, g) = Members(s, g) \cup {l}
      /\ \A h \in RxGroups : h # g => Members(t, h) = Members(s, h)
  BY <1>1, <1>4 DEF Members
<1>6. \A i \in Used(s) : s.lsn[i].rxgroup \in Busy(s)
  BY DEF Sound, ListsOK
<1>7. SocketsOK(t)
  BY <1>1 DEF SocketsOK, Sound
<1>8. ListOf(GroupLinks(t), t.head, Busy(t))
  <2>1. GroupLinks(t) = GroupLinks(s)
    BY <1>1 DEF GroupLinks
  <2> QED
    BY <2>1, <1>1, <1>2 DEF Sound, ListsOK
<1>9. ASSUME NEW h \in Busy(t) PROVE ListOf(ListenerLinks(t), t.grp[h].listeners, Members(t, h))
  <2>1. h \in Busy(s) /\ h \in RxGroups
    BY <1>2
  <2>2. ListOf(ListenerLinks(s), s.grp[h].listeners, Members(s, h))
    BY <2>1 DEF Sound, ListsOK
  <2>3. Pool(Listeners, ListenerLinks(s)) /\ Pool(Listeners, ListenerLinks(t))
    BY <1>1, LinksAre
  <2>4. \A i \in Members(s, h) : ListenerLinks(t)[i] = ListenerLinks(s)[i]
    BY <1>1, <1>4, LinksAre DEF Members
  <2>5. CASE h = g
    <3>1. ListenerLinks(t)[l] = s.grp[h].listeners
      BY <2>5, <1>1, LinksAre
    <3>2. ListOf(ListenerLinks(t), l, Members(s, h) \cup {l})
      BY <2>2, <2>3, <2>4, <3>1, ListOfPut
    <3> QED
      BY <3>2, <2>1, <2>5, <1>1, <1>5
  <2>6. CASE h # g
    <3>1. ListOf(ListenerLinks(t), s.grp[h].listeners, Members(s, h))
      BY <2>2, <2>3, <2>4, ListOfSame
    <3> QED
      BY <3>1, <2>1, <2>6, <1>1, <1>5
  <2> QED
    BY <2>5, <2>6
<1>10. \A h \in Busy(t) : t.nsk[t.grp[h].socket].open
  BY <1>1, <1>2 DEF Sound, ListsOK
<1>11. \A i \in Used(t) : t.lsn[i].rxgroup \in Busy(t)
  BY <1>1, <1>2, <1>4, <1>6
<1>12. \A h, i \in Busy(t) : t.grp[h].socket = t.grp[i].socket /\ t.grp[h].addr = t.grp[i].addr => h = i
  BY <1>1, <1>2 DEF Sound, ListsOK
<1>13. Sound(t)
  BY <1>1, <1>7, <1>8, <1>9, <1>10, <1>11, <1>12 DEF Sound, ListsOK
<1>14. Memberships(t) = Memberships(s)
  BY <1>1, <1>2 DEF Memberships
<1>15. Held(t) = With(Held(s), l, [socket |-> s.grp[g].socket, addr |-> s.grp[g].addr, protocol |-> p])
  <2>1. \A i \in Used(s) : Held(s)[i] = [socket |-> t.grp[t.lsn[i].rxgroup].socket,
                                         addr |-> t.grp[t.lsn[i].rxgroup].addr,
                                         protocol |-> t.lsn[i].protocol]
    BY <1>1, <1>2, <1>4, <1>6 DEF Held
  <2>2. [socket |-> s.grp[g].socket, addr |-> s.grp[g].addr, protocol |-> p]
          = [socket |-> t.grp[t.lsn[l].rxgroup].socket, addr |-> t.grp[t.lsn[l].rxgroup].addr,
             protocol |-> t.lsn[l].protocol]
    BY <1>1
  <2>3. Held(t) = [i \in Used(s) \cup {l} |-> [socket |-> t.grp[t.lsn[i].rxgroup].socket,
                                               addr |-> t.grp[t.lsn[i].rxgroup].addr,
                                               protocol |-> t.lsn[i].protocol]]
    BY <1>4 DEF Held
  <2>4. DOMAIN Held(s) = Used(s)
    BY DEF Held
  <2> QED
    BY <2>1, <2>2, <2>3, <2>4 DEF With
<1> QED
  BY <1>2, <1>4, <1>5, <1>13, <1>14, <1>15

\* A listener goes, and whatever leads to it leads past it.  The slot keeps its group
\* and its successor.
DropListener(s, t, l) ==
  /\ t \in TableRecords /\ t.nsk = s.nsk /\ t.head = s.head
  /\ \A i \in RxGroups : /\ t.grp[i].socket = s.grp[i].socket /\ t.grp[i].addr = s.grp[i].addr
                         /\ t.grp[i].next = s.grp[i].next
  /\ \A i \in Listeners : /\ t.lsn[i].protocol = IF i = l THEN "none" ELSE s.lsn[i].protocol
                          /\ t.lsn[i].rxgroup = s.lsn[i].rxgroup
  /\ \/ /\ s.grp[s.lsn[l].rxgroup].listeners = l
        /\ \A i \in RxGroups : t.grp[i].listeners =
             IF i = s.lsn[l].rxgroup THEN s.lsn[l].next ELSE s.grp[i].listeners
        /\ \A i \in Listeners : t.lsn[i].next = s.lsn[i].next
     \/ \E b \in Members(s, s.lsn[l].rxgroup) :
          /\ s.grp[s.lsn[l].rxgroup].listeners # l /\ s.lsn[b].next = l
          /\ \A i \in RxGroups : t.grp[i].listeners = s.grp[i].listeners
          /\ \A i \in Listeners : t.lsn[i].next = IF i = b THEN s.lsn[l].next ELSE s.lsn[i].next

\* rlpm_free_listener of a listener that is in use.
LEMMA DropListenerIs ==
  ASSUME NEW s, Sound(s), NEW l \in Used(s)
  PROVE  DropListener(s, rlpm_free_listener(s, l), l)
<1> DEFINE g == s.lsn[l].rxgroup
<1>1. s \in TableRecords /\ l \in Listeners /\ g \in Busy(s) /\ g \in RxGroups /\ l \in Members(s, g)
  BY DEF Sound, ListsOK, Used, Busy, Members
<1> HIDE DEF g
<1> DEFINE S == {i \in Listeners : s.lsn[i].next = l}
           b == FirstOf(ListenersOf(s, g), S)
<1>2. Found(b, Members(s, g), S)
  BY <1>1, ListenersListed, NullIs, FirstOfIs
<1>3. s.grp[g].listeners # l => b \in Members(s, g) /\ b \in Listeners /\ s.lsn[b].next = l
  <2>1. Pool(Listeners, ListenerLinks(s))
        /\ ListOf(ListenerLinks(s), s.grp[g].listeners, Members(s, g))
    BY <1>1, LinksAre DEF Sound, ListsOK
  <2>2. s.grp[g].listeners # l => \E i \in Members(s, g) : ListenerLinks(s)[i] = l
    BY <2>1, <1>1, ListOfIs
  <2>3. s.grp[g].listeners # l => \E i \in Members(s, g) : i \in S
    BY <2>2, <1>1, LinksAre DEF Members, Used
  <2> QED
    BY <2>3, <1>2 DEF Found, Members, Used
<1> HIDE DEF b, S
<1> DEFINE n == s.lsn[l].next
           t1 == [s EXCEPT !.grp[g].listeners = n, !.lsn[l].protocol = "none"]
           t2 == [s EXCEPT !.lsn[b].next = n, !.lsn[l].protocol = "none"]
<1>4. rlpm_free_listener(s, l) = IF s.grp[g].listeners = l THEN t1 ELSE t2
  <2>1. b # NULL \/ s.grp[g].listeners = l
    BY <1>3, NullIs
  <2> QED
    BY <2>1 DEF rlpm_free_listener, b, S, g
<1>5. n \in Listeners \cup {NULL}
  BY <1>1, FieldTypes
<1> HIDE DEF n
<1>6. CASE s.grp[g].listeners = l
  <2> DEFINE G == [s.grp EXCEPT ![g].listeners = n]
             L == [s.lsn EXCEPT ![l].protocol = "none"]
             u == [s EXCEPT !.grp = G, !.lsn = L]
  <2>1. t1 = u
    BY <1>1
  <2>2. G \in [RxGroups -> GroupRecords] /\ L \in [Listeners -> ListenerRecords]
    BY <1>1, <1>5, FieldTypes DEF GroupRecords, ListenerRecords
  <2>3. /\ \A i \in RxGroups : /\ G[i].socket = s.grp[i].socket /\ G[i].addr = s.grp[i].addr
                               /\ G[i].next = s.grp[i].next
                               /\ G[i].listeners = IF i = g THEN n ELSE s.grp[i].listeners
        /\ \A i \in Listeners : /\ L[i].protocol = IF i = l THEN "none" ELSE s.lsn[i].protocol
                                /\ L[i].rxgroup = s.lsn[i].rxgroup /\ L[i].next = s.lsn[i].next
    BY <1>1, FieldTypes DEF GroupRecords, ListenerRecords
  <2> HIDE DEF t1, G, L
  <2>4. u = [nsk |-> s.nsk, head |-> s.head, grp |-> G, lsn |-> L]
    BY <1>1, TablesWith
  <2>5. t1.nsk = s.nsk /\ t1.head = s.head /\ t1.grp = G /\ t1.lsn = L
    BY <2>1, <2>4
  <2>6. t1 \in TableRecords
    BY <2>1, <2>2, <2>4, <1>1, FieldTypes DEF TableRecords
  <2>7. DropListener(s, t1, l)
    BY <2>3, <2>5, <2>6, <1>6 DEF DropListener, g, n
  <2> QED
    BY <2>7, <1>4, <1>6
<1>7. CASE s.grp[g].listeners # l
  <2>0. b \in Listeners /\ b \in Members(s, g) /\ s.lsn[b].next = l
    BY <1>3, <1>7
  <2> DEFINE L1 == [s.lsn EXCEPT ![b].next = n]
             L == [L1 EXCEPT ![l].protocol = "none"]
             u == [s EXCEPT !.lsn = L]
  <2>1. t2 = u
    BY <1>1
  <2>2. L1 \in [Listeners -> ListenerRecords]
    BY <2>0, <1>5, <1>1, FieldTypes DEF ListenerRecords
  <2>3. \A i \in Listeners : /\ L1[i].protocol = s.lsn[i].protocol /\ L1[i].rxgroup = s.lsn[i].rxgroup
                             /\ L1[i].next = IF i = b THEN n ELSE s.lsn[i].next
    BY <2>0, <1>1, FieldTypes DEF ListenerRecords
  <2> HIDE DEF L1
  <2>4. L \in [Listeners -> ListenerRecords]
    BY <2>2, <1>1 DEF ListenerRecords
  <2>5. \A i \in Listeners : /\ L[i].protocol = IF i = l THEN "none" ELSE L1[i].protocol
                             /\ L[i].rxgroup = L1[i].rxgroup /\ L[i].next = L1[i].next
    BY <2>2, <1>1 DEF ListenerRecords
  <2> HIDE DEF t2, L
  <2>6. u = [nsk |-> s.nsk, head |-> s.head, grp |-> s.grp, lsn |-> L]
    BY <1>1, TablesWith
  <2>7. t2.nsk = s.nsk /\ t2.head = s.head /\ t2.grp = s.grp /\ t2.lsn = L
    BY <2>1, <2>6
  <2>8. t2 \in TableRecords
    BY <2>1, <2>4, <2>6, <1>1, FieldTypes DEF TableRecords
  <2>9. DropListener(s, t2, l)
    BY <2>0, <2>3, <2>5, <2>7, <2>8, <1>7 DEF DropListener, g, n
  <2> QED
    BY <2>9, <1>4, <1>7
<1> QED
  BY <1>6, <1>7

\* Without a listener the tables are sound, and nothing else that is registered is
\* touched.
LEMMA DropListenerSound ==
  ASSUME NEW s, Sound(s), NEW l \in Used(s), NEW t, DropListener(s, t, l)
  PROVE  /\ Sound(t) /\ Busy(t) = Busy(s) /\ Memberships(t) = Memberships(s)
         /\ Used(t) = Used(s) \ {l} /\ t.lsn[l].rxgroup = s.lsn[l].rxgroup
         /\ s.lsn[l].rxgroup \in Busy(s)
         /\ \A h : Members(t, h) = Members(s, h) \ {l}
         /\ Held(t) = Less(Held(s), l)
         /\ \A i \in RxGroups : t.grp[i].socket = s.grp[i].socket /\ t.grp[i].addr = s.grp[i].addr
<1> DEFINE g == s.lsn[l].rxgroup
<1>1. /\ s \in TableRecords /\ t \in TableRecords /\ t.nsk = s.nsk /\ t.head = s.head
      /\ l \in Listeners
      /\ \A i \in RxGroups : /\ t.grp[i].socket = s.grp[i].socket /\ t.grp[i].addr = s.grp[i].addr
                             /\ t.grp[i].next = s.grp[i].next
      /\ \A i \in Listeners : /\ t.lsn[i].protocol = IF i = l THEN "none" ELSE s.lsn[i].protocol
                              /\ t.lsn[i].rxgroup = s.lsn[i].rxgroup
  BY DEF Sound, DropListener, Used
<1>2. Busy(t) = Busy(s) /\ \A i \in Busy(s) : i \in RxGroups
  BY <1>1 DEF Busy
<1>3. /\ Used(t) = Used(s) \ {l}
      /\ \A i \in Used(t) : /\ i \in Listeners /\ t.lsn[i].protocol = s.lsn[i].protocol
                            /\ t.lsn[i].rxgroup = s.lsn[i].rxgroup
  BY <1>1 DEF Used
<1>4. \A h : Members(t, h) = Members(s, h) \ {l}
  BY <1>3 DEF Members
<1>5. \A i \in Used(s) : s.lsn[i].rxgroup \in Busy(s)
  BY DEF Sound, ListsOK
<1>6. g \in Busy(s) /\ g \in RxGroups /\ l \in Members(s, g)
  BY <1>2, <1>5 DEF Members
<1>7. SocketsOK(t)
  BY <1>1 DEF SocketsOK, Sound
<1>8. ListOf(GroupLinks(t), t.head, Busy(t))
  <2>1. GroupLinks(t) = GroupLinks(s)
    BY <1>1 DEF GroupLinks
  <2> QED
    BY <2>1, <1>1, <1>2 DEF Sound, ListsOK
<1>9. ASSUME NEW h \in Busy(t) PROVE ListOf(ListenerLinks(t), t.grp[h].listeners, Members(t, h))
  <2>1. h \in Busy(s) /\ h \in RxGroups /\ Members(t, h) = Members(s, h) \ {l}
    BY <1>2, <1>4
  <2>2. ListOf(ListenerLinks(s), s.grp[h].listeners, Members(s, h))
    BY <2>1 DEF Sound, ListsOK
  <2>3. Pool(Listeners, ListenerLinks(s)) /\ Pool(Listeners, ListenerLinks(t))
    BY <1>1, LinksAre
  <2>4. \A i \in Listeners : /\ ListenerLinks(s)[i] = s.lsn[i].next
                             /\ ListenerLinks(t)[i] = t.lsn[i].next
    BY <1>1, LinksAre
  <2>5. \A i \in Members(s, h) : i \in Listeners
    BY DEF Members, Used
  <2>6. h # g => Members(s, h) \ {l} = Members(s, h)
    BY DEF Members
  <2>7. CASE /\ s.grp[g].listeners = l
             /\ \A i \in RxGroups : t.grp[i].listeners = IF i = g THEN s.lsn[l].next ELSE s.grp[i].listeners
             /\ \A i \in Listeners : t.lsn[i].next = s.lsn[i].next
    <3>1. \A i \in Members(s, h) : ListenerLinks(t)[i] = ListenerLinks(s)[i]
      BY <2>4, <2>5, <2>7
    <3>2. CASE h = g
      <4>1. s.grp[h].listeners = l /\ l # 0 /\ ListenerLinks(s)[l] = t.grp[h].listeners
        BY <3>2, <2>1, <2>4, <2>7, <1>1, NullIs
      <4>2. ListOf(ListenerLinks(t), ListenerLinks(s)[s.grp[h].listeners],
                   Members(s, h) \ {s.grp[h].listeners})
        BY <4>1, <3>1, <2>2, <2>3, ListOfBehead
      <4> QED
        BY <4>1, <4>2, <2>1
    <3>3. CASE h # g
      <4>1. ListOf(ListenerLinks(t), s.grp[h].listeners, Members(s, h))
        BY <3>1, <2>2, <2>3, ListOfSame
      <4> QED
        BY <4>1, <3>3, <2>1, <2>6, <2>7
    <3> QED
      BY <3>2, <3>3
  <2>8. ASSUME NEW b \in Members(s, g), s.lsn[b].next = l,
               \A i \in RxGroups : t.grp[i].listeners = s.grp[i].listeners,
               \A i \in Listeners : t.lsn[i].next = IF i = b THEN s.lsn[l].next ELSE s.lsn[i].next
        PROVE  ListOf(ListenerLinks(t), t.grp[h].listeners, Members(t, h))
    <3>1. b \in Listeners
      BY DEF Members, Used
    <3>2. ListenerLinks(s)[b] = l /\ ListenerLinks(t)[b] = ListenerLinks(s)[l]
      BY <3>1, <2>4, <2>8, <1>1
    <3>3. \A i \in Members(s, h) \ {b} : ListenerLinks(t)[i] = ListenerLinks(s)[i]
      BY <2>4, <2>5, <2>8
    <3>4. CASE h = g
      <4>1. ListOf(ListenerLinks(t), s.grp[h].listeners, Members(s, h) \ {l})
        BY <3>2, <3>3, <3>4, <2>2, <2>3, <1>6, ListOfDrop
      <4> QED
        BY <4>1, <2>1, <2>8
    <3>5. CASE h # g
      <4>1. b \notin Members(s, h)
        BY <3>5 DEF Members
      <4>2. ListOf(ListenerLinks(t), s.grp[h].listeners, Members(s, h))
        BY <4>1, <3>3, <2>2, <2>3, ListOfSame
      <4> QED
        BY <4>2, <3>5, <2>1, <2>6, <2>8
    <3> QED
      BY <3>4, <3>5
  <2> QED
    BY <2>7, <2>8 DEF DropListener
<1>10. \A h \in Busy(t) : t.nsk[t.grp[h].socket].open
  BY <1>1, <1>2 DEF Sound, ListsOK
<1>11. \A i \in Used(t) : t.lsn[i].rxgroup \in Busy(t)
  BY <1>2, <1>3, <1>5
<1>12. \A h, i \in Busy(t) : t.grp[h].socket = t.grp[i].socket /\ t.grp[h].addr = t.grp[i].addr => h = i
  BY <1>1, <1>2 DEF Sound, ListsOK
<1>13. Sound(t)
  BY <1>1, <1>7, <1>8, <1>9, <1>10, <1>11, <1>12 DEF Sound, ListsOK
<1>14. Memberships(t) = Memberships(s)
  BY <1>1, <1>2 DEF Memberships
<1>15. Held(t) = Less(Held(s), l)
  <2>1. \A i \in Used(s) \ {l} : Held(s)[i] = [socket |-> t.grp[t.lsn[i].rxgroup].socket,
                                               addr |-> t.grp[t.lsn[i].rxgroup].addr,
                                               protocol |-> t.lsn[i].protocol]
    BY <1>1, <1>2, <1>3, <1>5 DEF Held
  <2>2. Held(t) = [i \in Used(s) \ {l} |-> [socket |-> t.grp[t.lsn[i].rxgroup].socket,
                                            addr |-> t.grp[t.lsn[i].rxgroup].addr,
                                            protocol |-> t.lsn[i].protocol]]
    BY <1>3 DEF Held
  <2>3. DOMAIN Held(s) = Used(s)
    BY DEF Held
  <2> QED
    BY <2>1, <2>2, <2>3 DEF Less
<1> QED
  BY <1>1, <1>2, <1>3, <1>4, <1>6, <1>13, <1>14, <1>15

\* A slot that is not in the list it names is not found in it: no slot of the list
\* leads to it, and the list does not begin with it.
LEMMA NotListed ==
  ASSUME NEW s \in TableRecords, NEW g \in RxGroups, NEW S,
         ListOf(ListenerLinks(s), s.grp[g].listeners, S), NEW l \in Listeners, l \notin S,
         s.lsn[l].rxgroup = g
  PROVE  rlpm_free_listener(s, l) = s
<1> DEFINE T == {i \in Listeners : s.lsn[i].next = l}
           b == FirstOf(ListenersOf(s, g), T)
<1>1. Pool(Listeners, ListenerLinks(s)) /\ \A i \in Listeners : ListenerLinks(s)[i] = s.lsn[i].next
  BY LinksAre
<1>2. /\ S \in SUBSET Listeners
      /\ s.grp[g].listeners # 0 => s.grp[g].listeners \in S
      /\ \A x \in S : ListenerLinks(s)[x] \in S \cup {0}
  BY <1>1, ListOfIs
<1>3. l # 0
  BY NullIs
<1>4. s.grp[g].listeners # l
  BY <1>2, <1>3
<1>5. ListenersOf(s, g) = Walk(ListenerLinks(s), s.grp[g].listeners)
  BY DEF ListenersOf, ListFrom, ListenerLinks
<1>6. /\ ListenersOf(s, g) \in Seq(Listeners)
      /\ S = {ListenersOf(s, g)[i] : i \in 1 .. Len(ListenersOf(s, g))}
  BY <1>1, <1>5, ListOfWalk
<1> HIDE DEF T
<1>7. Found(b, S, T)
  BY <1>6, NullIs, FirstOfIs
<1>8. b = NULL
  <2> SUFFICES ASSUME b # NULL PROVE FALSE
    OBVIOUS
  <2>1. b \in S /\ b \in T
    BY <1>7 DEF Found
  <2> QED
    BY <2>1, <1>1, <1>2, <1>3 DEF T
<1> QED
  BY <1>4, <1>8 DEF rlpm_free_listener, b, T

\* The same of a group that is not in use.
LEMMA NotAGroup ==
  ASSUME NEW s, Sound(s), NEW g \in RxGroups, g \notin Busy(s)
  PROVE  rlpm_free_rxgroup(s, g) = s
<1> DEFINE T == {i \in RxGroups : s.grp[i].next = g}
           b == FirstOf(GroupList(s), T)
<1>1. s \in TableRecords /\ ListOf(GroupLinks(s), s.head, Busy(s))
  BY DEF Sound, ListsOK
<1>2. Pool(RxGroups, GroupLinks(s)) /\ \A i \in RxGroups : GroupLinks(s)[i] = s.grp[i].next
  BY <1>1, LinksAre
<1>3. /\ s.head # 0 => s.head \in Busy(s)
      /\ \A x \in Busy(s) : GroupLinks(s)[x] \in Busy(s) \cup {0}
  BY <1>1, <1>2, ListOfIs
<1>4. g # 0 /\ s.head # g
  BY <1>3, NullIs
<1> HIDE DEF T
<1>5. Found(b, Busy(s), T)
  BY GroupsListed, NullIs, FirstOfIs
<1>6. b = NULL
  <2> SUFFICES ASSUME b # NULL PROVE FALSE
    OBVIOUS
  <2>1. b \in Busy(s) /\ b \in T
    BY <1>5 DEF Found
  <2> QED
    BY <2>1, <1>2, <1>3, <1>4 DEF T
<1> QED
  BY <1>4, <1>6 DEF rlpm_free_rxgroup, b, T

\* The tables and the memberships that go with them.
Triple(m) == m = [s |-> m.s, kernel |-> m.kernel, refused |-> m.refused]
Whole(m) == Triple(m) /\ Sound(m.s) /\ KernelOK(m)

\* Changes of one of the three.
LEMMA TripleWith ==
  ASSUME NEW m, Triple(m), NEW X
  PROVE  /\ [m EXCEPT !.s = X] = [s |-> X, kernel |-> m.kernel, refused |-> m.refused]
         /\ [m EXCEPT !.kernel = X] = [s |-> m.s, kernel |-> X, refused |-> m.refused]
         /\ [m EXCEPT !.refused = X] = [s |-> m.s, kernel |-> m.kernel, refused |-> X]
<1> DEFINE T(S, K, R) == [s |-> S, kernel |-> K, refused |-> R]
<1>1. \A S, K, R, Z : /\ [T(S, K, R) EXCEPT !.s = Z] = T(Z, K, R)
                      /\ [T(S, K, R) EXCEPT !.kernel = Z] = T(S, Z, R)
                      /\ [T(S, K, R) EXCEPT !.refused = Z] = T(S, K, Z)
  OBVIOUS
<1>2. m = T(m.s, m.kernel, m.refused)
  BY DEF Triple
<1> HIDE DEF T
<1>3. /\ [m EXCEPT !.s = X] = T(X, m.kernel, m.refused)
      /\ [m EXCEPT !.kernel = X] = T(m.s, X, m.refused)
      /\ [m EXCEPT !.refused = X] = T(m.s, m.kernel, X)
  BY <1>1, <1>2
<1> QED
  BY <1>3 DEF T

\* A membership that is asked for is held or was refused.
LEMMA JoinIs ==
  ASSUME NEW m, Triple(m), m.kernel \cap m.refused = {}, NEW k, NEW a,
         <<k, a>> \notin m.kernel \cup m.refused
  PROVE  LET n == JoinGroup(m, k, a)
         IN  /\ Triple(n) /\ n.s = m.s /\ n.kernel \cap n.refused = {}
             /\ n.kernel \cup n.refused = m.kernel \cup m.refused \cup {<<k, a>>}
<1> DEFINE X == m.kernel \cup {<<k, a>>}
           Y == m.refused \cup {<<k, a>>}
           n == JoinGroup(m, k, a)
<1>1. n = [m EXCEPT !.kernel = X] \/ n = [m EXCEPT !.refused = Y]
  BY DEF JoinGroup
<1> HIDE DEF n, X, Y
<1>2. \/ n = [s |-> m.s, kernel |-> X, refused |-> m.refused]
      \/ n = [s |-> m.s, kernel |-> m.kernel, refused |-> Y]
  BY <1>1, TripleWith
<1>3. Triple(n) /\ n.s = m.s
  BY <1>2 DEF Triple
<1>4. \/ n.kernel = X /\ n.refused = m.refused
      \/ n.kernel = m.kernel /\ n.refused = Y
  BY <1>2
<1> QED
  BY <1>3, <1>4 DEF n, X, Y

\* A membership that is given up is neither.
LEMMA LeaveIs ==
  ASSUME NEW m, Triple(m), NEW k, NEW a
  PROVE  LET n == LeaveGroup(m, k, a)
         IN  /\ Triple(n) /\ n.s = m.s
             /\ n.kernel = m.kernel \ {<<k, a>>} /\ n.refused = m.refused \ {<<k, a>>}
<1> DEFINE X == m.kernel \ {<<k, a>>}
           Y == m.refused \ {<<k, a>>}
           n == LeaveGroup(m, k, a)
<1>1. n = [m EXCEPT !.kernel = X, !.refused = Y]
  BY DEF LeaveGroup
<1> HIDE DEF n, X, Y
<1>2. n = [s |-> m.s, kernel |-> X, refused |-> Y]
  <2> DEFINE h == [m EXCEPT !.kernel = X]
  <2>1. h = [s |-> m.s, kernel |-> X, refused |-> m.refused]
    BY TripleWith
  <2>2. n = [h EXCEPT !.refused = Y]
    BY <1>1
  <2> HIDE DEF h
  <2>3. Triple(h) /\ h.s = m.s /\ h.kernel = X
    BY <2>1 DEF Triple
  <2>4. [h EXCEPT !.refused = Y] = [s |-> h.s, kernel |-> h.kernel, refused |-> Y]
    BY <2>3, TripleWith
  <2> QED
    BY <2>2, <2>3, <2>4
<1>3. Triple(n) /\ n.s = m.s /\ n.kernel = X /\ n.refused = Y
  BY <1>2 DEF Triple
<1> QED
  BY <1>3 DEF n, X, Y

\* What an address of a client stands for.
LEMMA AddrIs ==
  ASSUME NEW a \in Addresses
  PROVE  /\ GroupAddr(a) \in Groups \cup {UNICAST, "illegal"}
         /\ GroupAddr(a) # "illegal" => GroupAddr(a) \in Groups \cup {UNICAST}
         /\ "illegal" \notin Groups /\ UNICAST # "illegal" /\ UNICAST \notin Groups
<1>1. CASE a \in Groups \cup {UNICAST}
  <2>1. a # "my ip" /\ a # "another ip"
    BY <1>1, NamesAssumption DEF UNICAST
  <2>2. GroupAddr(a) = a
    BY <1>1, <2>1 DEF GroupAddr
  <2> QED
    BY <1>1, <2>2, NamesAssumption DEF UNICAST
<1>2. CASE a \notin Groups \cup {UNICAST}
  <2>1. a = "my ip" \/ a = "another ip"
    BY <1>2 DEF Addresses
  <2>2. GroupAddr(a) = UNICAST \/ GroupAddr(a) = "illegal"
    BY <1>2, <2>1 DEF GroupAddr
  <2> QED
    BY <2>2, NamesAssumption DEF UNICAST
<1> QED
  BY <1>1, <1>2

\* rlp_open_rxgroup leaves the tables and the memberships in accord, and the group it
\* returns is that of the socket and the address.
LEMMA OpenGroup ==
  ASSUME NEW m, Whole(m), EmptyBut(m.s, {}), NEW k \in Sockets, m.s.nsk[k].open,
         NEW addr \in Addresses, NEW ok \in BOOLEAN
  PROVE  LET r == rlp_open_rxgroup(m, k, addr, ok)
         IN  /\ Whole(r.m) /\ Held(r.m.s) = Held(m.s) /\ Used(r.m.s) = Used(m.s)
             /\ r.m.s.nsk = m.s.nsk
             /\ r.g = NULL => EmptyBut(r.m.s, {})
             /\ r.g # NULL => /\ r.g \in Busy(r.m.s) /\ EmptyBut(r.m.s, {r.g})
                              /\ r.m.s.grp[r.g].socket = k /\ r.m.s.grp[r.g].addr = GroupAddr(addr)
<1> DEFINE a == GroupAddr(addr)
           found == rlpm_find_rxgroup(m.s, k, a)
           new == rlpm_new_rxgroup(m.s, k, a)
           n == [m EXCEPT !.s = new.s]
           r == rlp_open_rxgroup(m, k, addr, ok)
<1> SUFFICES /\ Whole(r.m) /\ Held(r.m.s) = Held(m.s) /\ Used(r.m.s) = Used(m.s)
             /\ r.m.s.nsk = m.s.nsk
             /\ r.g = NULL => EmptyBut(r.m.s, {})
             /\ r.g # NULL => /\ r.g \in Busy(r.m.s) /\ EmptyBut(r.m.s, {r.g})
                              /\ r.m.s.grp[r.g].socket = k /\ r.m.s.grp[r.g].addr = a
  OBVIOUS
<1>1. /\ a \in Groups \cup {UNICAST, "illegal"} /\ (a # "illegal" => a \in Groups \cup {UNICAST})
      /\ "illegal" \notin Groups /\ UNICAST # "illegal" /\ UNICAST \notin Groups
  BY AddrIs
<1>2. r = CASE a = "illegal" -> [g |-> NULL, m |-> m]
            [] a # "illegal" /\ found # NULL -> [g |-> found, m |-> m]
            [] a # "illegal" /\ found = NULL /\ new.g = NULL -> [g |-> NULL, m |-> m]
            [] a = UNICAST /\ found = NULL /\ new.g # NULL -> [g |-> new.g, m |-> n]
            [] a \in Groups /\ found = NULL /\ new.g # NULL /\ ok ->
                 [g |-> new.g, m |-> JoinGroup(n, k, a)]
            [] a \in Groups /\ found = NULL /\ new.g # NULL /\ ~ok ->
                 [g |-> NULL, m |-> [n EXCEPT !.s = rlpm_free_rxgroup(n.s, new.g)]]
  BY DEF rlp_open_rxgroup
<1> HIDE DEF a, r
<1>3. /\ Triple(m) /\ Sound(m.s) /\ m.s \in TableRecords /\ m.kernel \cap m.refused = {}
      /\ m.kernel \cup m.refused = Memberships(m.s)
  BY DEF Whole, KernelOK, Sound
<1>4. /\ found # NULL => found \in Busy(m.s) /\ m.s.grp[found].socket = k /\ m.s.grp[found].addr = a
      /\ found = NULL => \A h \in Busy(m.s) : m.s.grp[h].socket # k \/ m.s.grp[h].addr # a
  BY <1>3, FindGroup
<1>5. a # "illegal" /\ new.g # NULL =>
        new.g \in RxGroups \ Busy(m.s) /\ NewGroup(m.s, new.s, new.g, k, a)
  BY <1>1, <1>3, NewGroupIs
<1> HIDE DEF found, new
<1>6. CASE a = "illegal" \/ found # NULL \/ new.g = NULL
  <2>1. \/ r = [g |-> NULL, m |-> m]
        \/ found # NULL /\ r = [g |-> found, m |-> m]
    BY <1>2, <1>6, <1>1, Zenon
  <2>2. EmptyBut(m.s, {found})
    BY DEF EmptyBut
  <2>3. CASE r = [g |-> NULL, m |-> m]
    <3>1. r.g = NULL /\ r.m = m
      BY <2>3
    <3> QED
      BY <3>1
  <2>4. CASE found # NULL /\ r = [g |-> found, m |-> m]
    <3>1. r.g = found /\ r.m = m
      BY <2>4
    <3> QED
      BY <3>1, <2>2, <2>4, <1>4
  <2> QED
    BY <2>1, <2>3, <2>4
<1>7. CASE a # "illegal" /\ found = NULL /\ new.g # NULL
  <2> DEFINE s == new.s
             g == new.g
  <2>1. \A h \in Busy(m.s) : m.s.grp[h].socket # k \/ m.s.grp[h].addr # a
    BY <1>4, <1>7
  <2>2. a \in Groups \cup {UNICAST} /\ g \in RxGroups /\ g \notin Busy(m.s)
        /\ NewGroup(m.s, s, g, k, a)
    BY <1>1, <1>5, <1>7
  <2> HIDE DEF s, g
  <2>3. /\ Sound(s) /\ SameHeld(m.s, s) /\ Busy(s) = Busy(m.s) \cup {g} /\ Members(s, g) = {}
        /\ Memberships(s) = Memberships(m.s) \cup (IF a \in Groups THEN {<<k, a>>} ELSE {})
    BY <2>1, <2>2, <1>3, NewGroupSound
  <2>4. s.nsk = m.s.nsk /\ s.grp[g].socket = k /\ s.grp[g].addr = a
    BY <2>2 DEF NewGroup
  <2>5. EmptyBut(s, {g}) /\ g \in Busy(s) /\ g # NULL /\ Held(s) = Held(m.s) /\ Used(s) = Used(m.s)
    <3>1. \A h \in Busy(m.s) : Members(s, h) # {}
      BY <2>3 DEF EmptyBut, SameHeld, Busy
    <3> QED
      BY <3>1, <2>2, <2>3, NullIs DEF EmptyBut, SameHeld
  <2>6. <<k, a>> \notin Memberships(m.s)
    BY <2>1 DEF Memberships
  <2>7. n = [s |-> s, kernel |-> m.kernel, refused |-> m.refused]
    BY <1>3, TripleWith DEF s
  <2>8. Triple(n) /\ n.s = s /\ n.kernel = m.kernel /\ n.refused = m.refused
    BY <2>7 DEF Triple
  <2>9. new.g = g /\ g # NULL
    BY <1>7 DEF g
  <2> HIDE DEF n
  <2>10. CASE a = UNICAST
    <3>1. r = [g |-> g, m |-> n]
      BY <1>2, <1>1, <1>7, <2>9, <2>10, Zenon
    <3>2. Memberships(s) = Memberships(m.s)
      BY <2>3, <2>10, <1>1
    <3>3. Whole(n)
      BY <2>3, <2>8, <3>2, <1>3 DEF Whole, KernelOK
    <3> QED
      BY <3>1, <3>3, <2>4, <2>5, <2>8
  <2>11. CASE a \in Groups /\ ok
    <3> DEFINE j == JoinGroup(n, k, a)
    <3>1. r = [g |-> g, m |-> j]
      <4>1. a # UNICAST
        BY <2>11, <1>1
      <4> QED
        BY <1>2, <4>1, <1>7, <2>9, <2>11, Zenon
    <3>2. Triple(j) /\ j.s = s /\ j.kernel \cap j.refused = {}
          /\ j.kernel \cup j.refused = m.kernel \cup m.refused \cup {<<k, a>>}
      BY <2>6, <2>8, <1>3, JoinIs
    <3> HIDE DEF j
    <3>3. Memberships(s) = Memberships(m.s) \cup {<<k, a>>}
      BY <2>3, <2>11
    <3>4. Whole(j)
      BY <2>3, <3>2, <3>3, <1>3 DEF Whole, KernelOK
    <3> QED
      BY <3>1, <3>2, <3>4, <2>4, <2>5
  <2>12. CASE a \in Groups /\ ~ok
    <3> DEFINE t == rlpm_free_rxgroup(s, g)
               f == [n EXCEPT !.s = t]
    <3>1. r = [g |-> NULL, m |-> f]
      <4>1. a # UNICAST
        BY <2>12, <1>1
      <4>2. r = [g |-> NULL, m |-> [n EXCEPT !.s = rlpm_free_rxgroup(n.s, new.g)]]
        BY <1>2, <4>1, <1>7, <2>12, Zenon
      <4> QED
        BY <4>2, <2>8, <2>9
    <3>2. DropGroup(s, t, g)
      BY <2>3, <2>5, DropGroupIs
    <3> HIDE DEF t
    <3>3. f = [s |-> t, kernel |-> m.kernel, refused |-> m.refused]
      <4>1. f = [s |-> t, kernel |-> n.kernel, refused |-> n.refused]
        BY <2>8, TripleWith
      <4> HIDE DEF f
      <4> QED
        BY <4>1, <2>8
    <3> HIDE DEF f
    <3>4. /\ Sound(t) /\ SameHeld(s, t) /\ Busy(t) = Busy(s) \ {g}
          /\ Memberships(t) = Memberships(s) \ {<<k, a>>}
      BY <3>2, <2>3, <2>4, <2>5, DropGroupSound
    <3>5. Memberships(t) = Memberships(m.s)
      BY <3>4, <2>3, <2>6, <2>12
    <3>6. Triple(f) /\ f.s = t /\ f.kernel = m.kernel /\ f.refused = m.refused
      BY <3>3 DEF Triple
    <3>7. Whole(f)
      BY <3>4, <3>5, <3>6, <1>3 DEF Whole, KernelOK
    <3>8. t.nsk = m.s.nsk
      BY <3>2, <2>4 DEF DropGroup
    <3>9. EmptyBut(t, {})
      BY <3>4, <2>5 DEF EmptyBut, SameHeld, Busy
    <3> QED
      BY <3>1, <3>4, <3>6, <3>7, <3>8, <3>9, <2>5 DEF SameHeld
  <2> QED
    BY <2>2, <2>10, <2>11, <2>12
<1> QED
  BY <1>6, <1>7

\* What rlp_close_rxgroup returns for a group in use that may have no listeners: a
\* group without any goes, with its membership, and one with some stays.
Closed(m, r, g) ==
  /\ Whole(r) /\ EmptyBut(r.s, {}) /\ Held(r.s) = Held(m.s) /\ Used(r.s) = Used(m.s)
  /\ r.s.nsk = m.s.nsk /\ r.s.lsn = m.s.lsn
  /\ r.s.grp[g].addr = m.s.grp[g].addr
  /\ \/ g \in Busy(r.s) /\ r.s.grp[g].listeners # NULL
     \/ /\ g \notin Busy(r.s) /\ r.s.grp[g].listeners = NULL
        /\ <<m.s.grp[g].socket, m.s.grp[g].addr>> \notin r.kernel \cup r.refused

\* rlp_close_rxgroup does that.
LEMMA CloseGroup ==
  ASSUME NEW m, Whole(m), NEW g \in Busy(m.s), EmptyBut(m.s, {g})
  PROVE  Closed(m, rlp_close_rxgroup(m, m.s.grp[g].socket, g), g)
<1> DEFINE k == m.s.grp[g].socket
           a == m.s.grp[g].addr
           r == rlp_close_rxgroup(m, k, g)
           n == IF a = UNICAST THEN m ELSE LeaveGroup(m, k, a)
           t == rlpm_free_rxgroup(n.s, g)
<1>1. /\ Triple(m) /\ Sound(m.s) /\ m.s \in TableRecords /\ m.kernel \cap m.refused = {}
      /\ m.kernel \cup m.refused = Memberships(m.s) /\ g \in RxGroups
  BY DEF Whole, KernelOK, Sound, Busy
<1>2. /\ ListOf(ListenerLinks(m.s), m.s.grp[g].listeners, Members(m.s, g))
      /\ Pool(Listeners, ListenerLinks(m.s))
  BY <1>1, LinksAre DEF Sound, ListsOK
<1>3. m.s.grp[g].listeners = 0 <=> Members(m.s, g) = {}
  BY <1>2, ListOfIs
<1>4. a \in Groups \cup {UNICAST} /\ UNICAST \notin Groups
  BY <1>1, FieldTypes, NamesAssumption
<1>5. CASE m.s.grp[g].listeners # NULL
  <2>1. r = m
    BY <1>5 DEF rlp_close_rxgroup
  <2>2. EmptyBut(m.s, {})
    BY <1>3, <1>5, NullIs DEF EmptyBut
  <2> QED
    BY <2>1, <2>2, <1>5 DEF Closed
<1>6. CASE m.s.grp[g].listeners = NULL
  <2>1. r = [n EXCEPT !.s = t]
    BY <1>6 DEF rlp_close_rxgroup
  <2>2. Triple(n) /\ n.s = m.s /\ n.kernel \cap n.refused = {}
        /\ n.kernel \cup n.refused = Memberships(m.s) \ {<<k, a>>}
    <3>1. CASE a = UNICAST
      <4>1. <<k, a>> \notin Memberships(m.s)
        BY <3>1, <1>4 DEF Memberships
      <4> QED
        BY <4>1, <3>1, <1>1
    <3>2. CASE a # UNICAST
      <4> HIDE DEF a, k
      <4>1. Triple(n) /\ n.s = m.s /\ n.kernel = m.kernel \ {<<k, a>>}
            /\ n.refused = m.refused \ {<<k, a>>}
        BY <3>2, <1>1, LeaveIs
      <4> HIDE DEF n
      <4> QED
        BY <4>1, <1>1
    <3> QED
      BY <3>1, <3>2
  <2> HIDE DEF n
  <2>3. DropGroup(m.s, t, g)
    BY <2>2, <1>1, DropGroupIs
  <2> HIDE DEF t
  <2>4. Members(m.s, g) = {}
    BY <1>3, <1>6, NullIs
  <2>5. /\ Sound(t) /\ SameHeld(m.s, t) /\ Busy(t) = Busy(m.s) \ {g} /\ t.grp[g].listeners = NULL
        /\ \A i \in RxGroups : t.grp[i].addr = m.s.grp[i].addr
        /\ Memberships(t) = Memberships(m.s) \ {<<k, a>>}
    BY <2>3, <2>4, <1>1, DropGroupSound
  <2>6. t.nsk = m.s.nsk /\ t.lsn = m.s.lsn
    BY <2>3 DEF DropGroup
  <2> HIDE DEF r
  <2>7. r = [s |-> t, kernel |-> n.kernel, refused |-> n.refused]
    BY <2>1, <2>2, TripleWith
  <2>8. Triple(r) /\ r.s = t /\ r.kernel = n.kernel /\ r.refused = n.refused
    BY <2>7 DEF Triple
  <2>9. Whole(r)
    BY <2>2, <2>5, <2>8 DEF Whole, KernelOK
  <2>10. EmptyBut(t, {})
    BY <2>5 DEF EmptyBut, SameHeld, Busy
  <2>11. Closed(m, r, g)
    BY <2>2, <2>5, <2>6, <2>8, <2>9, <2>10, <1>1 DEF Closed, SameHeld
  <2> QED
    BY <2>11 DEF r
<1> QED
  BY <1>5, <1>6

\* rlp_add_listener leaves all in accord and registers one listener, or none.
LEMMA AddL ==
  ASSUME NEW m, Whole(m), EmptyBut(m.s, {}), NEW k \in Sockets, m.s.nsk[k].open,
         NEW addr \in Addresses, NEW p \in Protocols, NEW ok \in BOOLEAN
  PROVE  LET r == rlp_add_listener(m, k, addr, p, ok)
         IN  /\ Whole(r.m) /\ EmptyBut(r.m.s, {})
             /\ r.l = NULL => Held(r.m.s) = Held(m.s)
             /\ r.l # NULL =>
                  Held(r.m.s) = With(Held(m.s), r.l, [socket |-> k, addr |-> GroupAddr(addr), protocol |-> p])
<1> DEFINE group == rlp_open_rxgroup(m, k, addr, ok)
           g == group.g
           s == group.m.s
           new == rlpm_new_listener(s, g, p)
           r == rlp_add_listener(m, k, addr, p, ok)
           Goal == /\ Whole(r.m) /\ EmptyBut(r.m.s, {})
                   /\ r.l = NULL => Held(r.m.s) = Held(m.s)
                   /\ r.l # NULL =>
                        Held(r.m.s) = With(Held(m.s), r.l,
                                           [socket |-> k, addr |-> GroupAddr(addr), protocol |-> p])
<1> SUFFICES Goal
  OBVIOUS
<1>1. /\ Whole(group.m) /\ Held(s) = Held(m.s) /\ Used(s) = Used(m.s)
      /\ s.nsk = m.s.nsk
      /\ g = NULL => EmptyBut(s, {})
      /\ g # NULL => /\ g \in Busy(s) /\ EmptyBut(s, {g})
                     /\ s.grp[g].socket = k /\ s.grp[g].addr = GroupAddr(addr)
  BY OpenGroup
<1>2. /\ g = NULL => r = [l |-> NULL, m |-> group.m]
      /\ g # NULL /\ new.l = NULL => r = [l |-> NULL, m |-> rlp_close_rxgroup(group.m, k, g)]
      /\ g # NULL /\ new.l # NULL => r = [l |-> new.l, m |-> [group.m EXCEPT !.s = new.s]]
  BY DEF rlp_add_listener
<1> HIDE DEF group, r
<1>3. CASE g = NULL
  BY <1>1, <1>2, <1>3
<1>4. CASE g # NULL /\ new.l = NULL
  <2> DEFINE c == rlp_close_rxgroup(group.m, k, g)
  <2>1. Closed(group.m, c, g)
    BY <1>1, <1>4, CloseGroup
  <2>2. r = [l |-> NULL, m |-> c]
    BY <1>2, <1>4
  <2> HIDE DEF c
  <2> QED
    BY <2>1, <2>2, <1>1 DEF Closed
<1>5. CASE g # NULL /\ new.l # NULL
  <2>1. Sound(s) /\ s \in TableRecords /\ g \in Busy(s) /\ g \in RxGroups /\ EmptyBut(s, {g})
        /\ Triple(group.m) /\ KernelOK(group.m)
    BY <1>1, <1>5 DEF Whole, Sound, Busy
  <2> HIDE DEF g, s
  <2> DEFINE l == new.l
             t == new.s
  <2>2. l \in Listeners /\ l \notin Used(s) /\ NewListener(s, t, l, g, p)
    BY <2>1, <1>5, NewListenerIs
  <2> HIDE DEF new, l, t
  <2> DEFINE e == [socket |-> s.grp[g].socket, addr |-> s.grp[g].addr, protocol |-> p]
  <2>3. /\ Sound(t) /\ Busy(t) = Busy(s) /\ Memberships(t) = Memberships(s)
        /\ Used(t) = Used(s) \cup {l} /\ l \in Members(t, g)
        /\ \A h \in RxGroups : h # g => Members(t, h) = Members(s, h)
        /\ Held(t) = With(Held(s), l, e)
    BY <2>1, <2>2, NewListenerSound
  <2>4. e = [socket |-> k, addr |-> GroupAddr(addr), protocol |-> p]
    BY <1>1, <1>5 DEF g, s
  <2> HIDE DEF e
  <2>5. EmptyBut(t, {})
    BY <2>1, <2>3 DEF EmptyBut, Busy
  <2>6. r = [l |-> l, m |-> [group.m EXCEPT !.s = t]]
    BY <1>2, <1>5 DEF l, t
  <2> DEFINE n == [group.m EXCEPT !.s = t]
  <2>7. n = [s |-> t, kernel |-> group.m.kernel, refused |-> group.m.refused]
    BY <2>1, TripleWith
  <2>8. r.l = l /\ r.m = n
    BY <2>6
  <2> HIDE DEF n
  <2>9. Triple(n) /\ n.s = t /\ n.kernel = group.m.kernel /\ n.refused = group.m.refused
    BY <2>7 DEF Triple
  <2>10. Whole(n)
    BY <2>1, <2>3, <2>9 DEF Whole, KernelOK, s
  <2>11. Held(t) = With(Held(m.s), l, [socket |-> k, addr |-> GroupAddr(addr), protocol |-> p])
    BY <1>1, <2>3, <2>4 DEF s
  <2>12. l # NULL
    BY <1>5 DEF l
  <2> QED
    BY <2>5, <2>8, <2>9, <2>10, <2>11, <2>12
<1> QED
  BY <1>3, <1>4, <1>5

\* rlp_del_listener takes one registration back, and doing it again changes nothing.
LEMMA DelL ==
  ASSUME NEW m, Whole(m), EmptyBut(m.s, {}), NEW l \in DOMAIN Held(m.s),
         NEW k, k = Held(m.s)[l].socket
  PROVE  LET r == rlp_del_listener(m, k, l)
         IN  /\ Whole(r) /\ EmptyBut(r.s, {})
             /\ Held(r.s) = Less(Held(m.s), l)
             /\ rlp_del_listener(r, k, l) = r
<1> DEFINE g == m.s.lsn[l].rxgroup
           t == rlpm_free_listener(m.s, l)
           f == [m EXCEPT !.s = t]
           r == rlp_del_listener(m, k, l)
<1>1. /\ Triple(m) /\ Sound(m.s) /\ m.s \in TableRecords /\ KernelOK(m)
      /\ DOMAIN Held(m.s) = Used(m.s) /\ l \in Used(m.s) /\ l \in Listeners
  BY DEF Whole, Sound, Held, Used
<1>2. k = m.s.grp[g].socket
  BY <1>1 DEF Held
<1>3. r = rlp_close_rxgroup(f, k, g)
  BY DEF rlp_del_listener
<1>4. DropListener(m.s, t, l)
  BY <1>1, DropListenerIs
<1> HIDE DEF t, r
<1>5. /\ Sound(t) /\ Busy(t) = Busy(m.s) /\ Memberships(t) = Memberships(m.s)
      /\ Used(t) = Used(m.s) \ {l} /\ t.lsn[l].rxgroup = g
      /\ g \in Busy(m.s)
      /\ \A h : Members(t, h) = Members(m.s, h) \ {l}
      /\ Held(t) = Less(Held(m.s), l)
      /\ \A i \in RxGroups : t.grp[i].socket = m.s.grp[i].socket /\ t.grp[i].addr = m.s.grp[i].addr
  BY <1>1, <1>4, DropListenerSound
<1>6. f = [s |-> t, kernel |-> m.kernel, refused |-> m.refused]
  BY <1>1, TripleWith
<1> HIDE DEF f
<1>7. Triple(f) /\ f.s = t /\ f.kernel = m.kernel /\ f.refused = m.refused
  BY <1>6 DEF Triple
<1>8. Whole(f)
  BY <1>1, <1>5, <1>7 DEF Whole, KernelOK
<1>9. EmptyBut(t, {g})
  <2> SUFFICES ASSUME NEW h \in Busy(t), h # g PROVE Members(t, h) # {}
    BY DEF EmptyBut
  <2>1. Members(m.s, h) # {}
    BY <1>5 DEF EmptyBut
  <2>2. l \notin Members(m.s, h)
    BY DEF Members
  <2> QED
    BY <2>1, <2>2, <1>5
<1>10. g \in Busy(t) /\ g \in RxGroups /\ k = t.grp[g].socket
  BY <1>2, <1>5 DEF Busy
<1>11. Closed(f, r, g)
  BY <1>3, <1>7, <1>8, <1>9, <1>10, CloseGroup
<1>12. /\ Whole(r) /\ EmptyBut(r.s, {}) /\ Held(r.s) = Held(t) /\ Used(r.s) = Used(t)
       /\ r.s.lsn = t.lsn /\ r.s.grp[g].addr = t.grp[g].addr
       /\ \/ g \in Busy(r.s) /\ r.s.grp[g].listeners # NULL
          \/ /\ g \notin Busy(r.s) /\ r.s.grp[g].listeners = NULL
             /\ <<k, t.grp[g].addr>> \notin r.kernel \cup r.refused
  BY <1>7, <1>10, <1>11 DEF Closed
<1>13. Sound(r.s) /\ r.s \in TableRecords /\ Triple(r)
  BY <1>12 DEF Whole, Sound
<1>14. rlpm_free_listener(r.s, l) = r.s
  <2>1. r.s.lsn[l].rxgroup = g /\ l \notin Used(r.s)
    BY <1>5, <1>12
  <2>2. CASE g \in Busy(r.s)
    <3>1. ListOf(ListenerLinks(r.s), r.s.grp[g].listeners, Members(r.s, g))
      BY <2>2, <1>13 DEF Sound, ListsOK
    <3>2. l \notin Members(r.s, g)
      BY <2>1 DEF Members
    <3> QED
      BY <3>1, <3>2, <2>1, <1>1, <1>10, <1>13, NotListed
  <2>3. CASE g \notin Busy(r.s)
    <3> DEFINE S == {}
    <3>1. ListOf(ListenerLinks(r.s), r.s.grp[g].listeners, S) /\ l \notin S
      BY <2>3, <1>12, <1>13, NullIs, LinksAre, ListOfNone
    <3> HIDE DEF S
    <3> QED
      BY <3>1, <2>1, <1>1, <1>10, <1>13, NotListed
  <2> QED
    BY <2>2, <2>3
<1>15. rlp_del_listener(r, k, l) = rlp_close_rxgroup(r, k, g)
  <2>1. r.s.lsn[l].rxgroup = g
    BY <1>5, <1>12
  <2> DEFINE c == [r EXCEPT !.s = rlpm_free_listener(@, l)]
             d == [r EXCEPT !.s = r.s]
  <2>2. c = d
    BY <1>14
  <2>3. d = r
    <3> DEFINE x == r.s
    <3> HIDE DEF x
    <3>1. [r EXCEPT !.s = x] = [s |-> x, kernel |-> r.kernel, refused |-> r.refused]
      BY <1>13, TripleWith
    <3> QED
      BY <3>1, <1>13 DEF x, Triple
  <2> QED
    BY <2>1, <2>2, <2>3 DEF rlp_del_listener
<1>16. rlp_close_rxgroup(r, k, g) = r
  <2>1. CASE g \in Busy(r.s) /\ r.s.grp[g].listeners # NULL
    BY <2>1 DEF rlp_close_rxgroup
  <2>2. CASE g \notin Busy(r.s) /\ r.s.grp[g].listeners = NULL
    <3> DEFINE a == r.s.grp[g].addr
               n == IF a = UNICAST THEN r ELSE LeaveGroup(r, k, a)
    <3>1. <<k, a>> \notin r.kernel \cup r.refused
      BY <1>12, <2>2
    <3>2. rlp_close_rxgroup(r, k, g) = [n EXCEPT !.s = rlpm_free_rxgroup(n.s, g)]
      BY <2>2 DEF rlp_close_rxgroup
    <3>3. Triple(n) /\ n.s = r.s /\ n.kernel = r.kernel /\ n.refused = r.refused
      <4> HIDE DEF a
      <4>1. CASE a = UNICAST
        BY <4>1, <1>13
      <4>2. CASE a # UNICAST
        <5>1. Triple(n) /\ n.s = r.s /\ n.kernel = r.kernel \ {<<k, a>>}
              /\ n.refused = r.refused \ {<<k, a>>}
          BY <4>2, <1>13, LeaveIs
        <5> HIDE DEF n
        <5> QED
          BY <5>1, <3>1
      <4> QED
        BY <4>1, <4>2
    <3> HIDE DEF n
    <3>4. rlpm_free_rxgroup(n.s, g) = r.s
      BY <3>3, <2>2, <1>10, <1>13, NotAGroup
    <3> DEFINE x == rlpm_free_rxgroup(n.s, g)
    <3> HIDE DEF x
    <3>5. [n EXCEPT !.s = x] = [s |-> x, kernel |-> n.kernel, refused |-> n.refused]
      BY <3>3, TripleWith
    <3> QED
      BY <3>2, <3>3, <3>4, <3>5, <1>13 DEF x, Triple
  <2> QED
    BY <2>1, <2>2, <1>12
<1> QED
  BY <1>1, <1>5, <1>12, <1>15, <1>16 DEF r

\* t has the groups and listeners of s in use: what s holds in free slots may differ.
SameInUse(s, t) ==
  /\ t \in TableRecords /\ t.nsk = s.nsk /\ t.head = s.head
  /\ Busy(t) = Busy(s) /\ Used(t) = Used(s)
  /\ \A g \in Busy(s) : t.grp[g] = s.grp[g]
  /\ \A l \in Used(s) : t.lsn[l] = s.lsn[l]

\* What free slots hold does not matter.
LEMMA InUse ==
  ASSUME NEW s, Sound(s), NEW t, SameInUse(s, t)
  PROVE  /\ Sound(t) /\ Held(t) = Held(s) /\ Memberships(t) = Memberships(s)
         /\ \A g : Members(t, g) = Members(s, g)
<1>1. /\ s \in TableRecords /\ t \in TableRecords /\ t.nsk = s.nsk /\ t.head = s.head
      /\ Busy(t) = Busy(s) /\ Used(t) = Used(s)
      /\ \A g \in Busy(s) : t.grp[g] = s.grp[g]
      /\ \A l \in Used(s) : t.lsn[l] = s.lsn[l]
      /\ Busy(s) \subseteq RxGroups /\ Used(s) \subseteq Listeners
  BY DEF Sound, SameInUse, Busy, Used
<1>2. \A g : Members(t, g) = Members(s, g)
  BY <1>1 DEF Members
<1>3. \A l \in Used(s) : s.lsn[l].rxgroup \in Busy(s)
  BY DEF Sound, ListsOK
<1>4. Held(t) = Held(s)
  BY <1>1, <1>3 DEF Held
<1>5. Memberships(t) = Memberships(s)
  BY <1>1 DEF Memberships
<1>6. SocketsOK(t)
  BY <1>1 DEF Sound, SocketsOK
<1>7. ListOf(GroupLinks(t), t.head, Busy(t))
  <2>1. Pool(RxGroups, GroupLinks(s)) /\ Pool(RxGroups, GroupLinks(t))
    BY <1>1, LinksAre
  <2>2. \A g \in Busy(s) : GroupLinks(t)[g] = GroupLinks(s)[g]
    BY <1>1, LinksAre
  <2>3. ListOf(GroupLinks(s), s.head, Busy(s))
    BY DEF Sound, ListsOK
  <2>4. ListOf(GroupLinks(t), s.head, Busy(s))
    BY <2>1, <2>2, <2>3, ListOfSame
  <2> QED
    BY <2>4, <1>1
<1>8. ASSUME NEW h \in Busy(t) PROVE ListOf(ListenerLinks(t), t.grp[h].listeners, Members(t, h))
  <2>1. Pool(Listeners, ListenerLinks(s)) /\ Pool(Listeners, ListenerLinks(t))
    BY <1>1, LinksAre
  <2>2. \A l \in Members(s, h) : ListenerLinks(t)[l] = ListenerLinks(s)[l]
    BY <1>1, LinksAre DEF Members
  <2>3. ListOf(ListenerLinks(s), s.grp[h].listeners, Members(s, h))
    BY <1>1 DEF Sound, ListsOK
  <2>4. ListOf(ListenerLinks(t), s.grp[h].listeners, Members(s, h))
    BY <2>1, <2>2, <2>3, ListOfSame
  <2> QED
    BY <2>4, <1>1, <1>2
<1>9. \A h \in Busy(t) : t.nsk[t.grp[h].socket].open
  BY <1>1 DEF Sound, ListsOK
<1>10. \A h, i \in Busy(t) : t.grp[h].socket = t.grp[i].socket /\ t.grp[h].addr = t.grp[i].addr => h = i
  BY <1>1 DEF Sound, ListsOK
<1>11. \A l \in Used(t) : t.lsn[l].rxgroup \in Busy(t)
  BY <1>1, <1>3
<1> QED
  BY <1>1, <1>2, <1>4, <1>5, <1>6, <1>7, <1>8, <1>9, <1>10, <1>11 DEF Sound, ListsOK

\* Forgotten only changes free slots.
LEMMA ForgottenIs ==
  ASSUME NEW s, Sound(s)
  PROVE  SameInUse(s, Forgotten(s))
<1> DEFINE G == [g \in RxGroups |-> IF s.grp[g].socket = NULL THEN FreeGroup ELSE s.grp[g]]
           L == [l \in Listeners |-> IF s.lsn[l].protocol = "none" THEN FreeListener ELSE s.lsn[l]]
           t == Forgotten(s)
<1>1. s \in TableRecords
  BY DEF Sound
<1>2. FreeGroup \in GroupRecords /\ FreeListener \in ListenerRecords
      /\ FreeGroup.socket = NULL /\ FreeListener.protocol = "none"
  BY DEF FreeGroup, FreeListener, GroupRecords, ListenerRecords
<1>3. G \in [RxGroups -> GroupRecords] /\ L \in [Listeners -> ListenerRecords]
  BY <1>1, <1>2, FieldTypes
<1>4. /\ \A g \in RxGroups : G[g] = IF s.grp[g].socket = NULL THEN FreeGroup ELSE s.grp[g]
      /\ \A l \in Listeners : L[l] = IF s.lsn[l].protocol = "none" THEN FreeListener ELSE s.lsn[l]
  OBVIOUS
<1>5. t = [s EXCEPT !.grp = G, !.lsn = L]
  BY DEF Forgotten
<1> HIDE DEF t, G, L
<1>6. t = [nsk |-> s.nsk, head |-> s.head, grp |-> G, lsn |-> L]
  BY <1>1, <1>5, TablesWith
<1>7. t \in TableRecords /\ t.nsk = s.nsk /\ t.head = s.head /\ t.grp = G /\ t.lsn = L
  BY <1>1, <1>3, <1>6, FieldTypes DEF TableRecords
<1>8. Busy(t) = Busy(s) /\ \A g \in Busy(s) : t.grp[g] = s.grp[g]
  BY <1>2, <1>4, <1>7 DEF Busy
<1>9. Used(t) = Used(s) /\ \A l \in Used(s) : t.lsn[l] = s.lsn[l]
  BY <1>2, <1>4, <1>7 DEF Used
<1> QED
  BY <1>7, <1>8, <1>9 DEF SameInUse, t

\* The tables become what an operation of a client made of them.
LEMMA BecomeIs ==
  ASSUME NEW m, Whole(m), EmptyBut(m.s, {}), DispatchOK, Become(m)
  PROVE  /\ Sound(rlp') /\ EmptyBut(rlp', {}) /\ Held(rlp') = Held(m.s)
         /\ kernel' \cap refused' = {} /\ kernel' \cup refused' = Memberships(rlp')
         /\ DispatchOK'
<1>1. Sound(m.s) /\ m.kernel \cap m.refused = {} /\ m.kernel \cup m.refused = Memberships(m.s)
  BY DEF Whole, KernelOK
<1>2. rlp' = m.s \/ rlp' = Forgotten(m.s)
  BY DEF Become
<1>3. kernel' = m.kernel /\ refused' = m.refused
  BY DEF Become
<1>4. SameInUse(m.s, m.s)
  BY <1>1 DEF SameInUse, Sound
<1>5. SameInUse(m.s, rlp')
  BY <1>1, <1>2, <1>4, ForgottenIs
<1>6. /\ Sound(rlp') /\ Held(rlp') = Held(m.s) /\ Memberships(rlp') = Memberships(m.s)
      /\ \A g : Members(rlp', g) = Members(m.s, g)
  BY <1>1, <1>5, InUse
<1>7. EmptyBut(rlp', {})
  BY <1>5, <1>6 DEF EmptyBut, SameInUse
<1>8. DispatchOK'
  <2>1. rx' = rx \/ ("phase" \in DOMAIN rx' /\ rx'.phase = rx.phase)
    BY DEF Become, DispatchOK
  <2> QED
    BY <2>1 DEF DispatchOK
<1> QED
  BY <1>1, <1>3, <1>6, <1>7, <1>8

\* Only sockets change, and none that a group is open on closes.
LEMMA OnlySockets ==
  ASSUME NEW s, Sound(s), NEW t, t \in TableRecords, SocketsOK(t),
         t.head = s.head, t.grp = s.grp, t.lsn = s.lsn,
         \A g \in Busy(s) : t.nsk[s.grp[g].socket].open
  PROVE  /\ Sound(t) /\ Held(t) = Held(s) /\ Memberships(t) = Memberships(s)
         /\ Busy(t) = Busy(s) /\ \A g : Members(t, g) = Members(s, g)
<1>1. Busy(t) = Busy(s) /\ Used(t) = Used(s)
  BY DEF Busy, Used
<1>2. \A g : Members(t, g) = Members(s, g)
  BY <1>1 DEF Members
<1>3. Held(t) = Held(s) /\ Memberships(t) = Memberships(s)
  BY <1>1 DEF Held, Memberships
<1>4. GroupLinks(t) = GroupLinks(s) /\ ListenerLinks(t) = ListenerLinks(s)
  BY DEF GroupLinks, ListenerLinks
<1>5. ListsOK(t)
  <2>1. ListsOK(s)
    BY DEF Sound
  <2>2. ListOf(GroupLinks(t), t.head, Busy(t))
    BY <2>1, <1>1, <1>4 DEF ListsOK
  <2>3. \A g \in Busy(t) : ListOf(ListenerLinks(t), t.grp[g].listeners, Members(t, g))
    BY <2>1, <1>1, <1>2, <1>4 DEF ListsOK
  <2>4. /\ \A l \in Used(t) : t.lsn[l].rxgroup \in Busy(t)
        /\ \A g, h \in Busy(t) :
             t.grp[g].socket = t.grp[h].socket /\ t.grp[g].addr = t.grp[h].addr => g = h
        /\ \A g \in Busy(t) : t.nsk[t.grp[g].socket].open
    BY <2>1, <1>1 DEF ListsOK
  <2> QED
    BY <2>2, <2>3, <2>4 DEF ListsOK
<1> QED
  BY <1>1, <1>2, <1>3, <1>5 DEF Sound

\* One socket gets another record.
SocketIs(s, t, k, r) ==
  /\ t.head = s.head /\ t.grp = s.grp /\ t.lsn = s.lsn
  /\ t = [nsk |-> t.nsk, head |-> t.head, grp |-> t.grp, lsn |-> t.lsn]
  /\ t.nsk = [s.nsk EXCEPT ![k] = r]

\* rlp_open_netsocket opens the first free slot for a port that has none, or leaves
\* everything as it was.
LEMMA OpenIs ==
  ASSUME NEW s \in TableRecords, NEW p \in Ports, NEW ok \in BOOLEAN
  PROVE  LET t == rlp_open_netsocket(s, p, ok)
         IN  \/ t = s
             \/ \E k \in Sockets :
                  /\ s.nsk[k].port = "none" /\ \A j \in Sockets : s.nsk[j].port # p
                  /\ SocketIs(s, t, k, [port |-> p, open |-> TRUE])
             \/ \E k \in Sockets :
                  /\ s.nsk[k].port = "none"
                  /\ SocketIs(s, t, k, [port |-> "none", open |-> FALSE])
<1> DEFINE found == nsk_find_netsock(s, p)
           k == FirstSlot({i \in Sockets : s.nsk[i].port = "none"})
           h == [s EXCEPT !.nsk[k].port = "hold"]
           t == rlp_open_netsocket(s, p, ok)
           w(r) == [h EXCEPT !.nsk[k] = r]
<1>1. \/ t = s
      \/ /\ found = NULL /\ k # NULL
         /\ t = w([port |-> p, open |-> TRUE]) \/ t = w([port |-> "none", open |-> FALSE])
  BY DEF rlp_open_netsocket, nsk_new_netsock, netx_udp_open, nsk_free_netsock
<1>2. k # NULL => k \in Sockets /\ s.nsk[k].port = "none"
  <2>1. {i \in Sockets : s.nsk[i].port = "none"} \in SUBSET Nat
    BY Sizes DEF Sockets
  <2> QED
    BY <2>1, FirstSlotIs, Zenon
<1>3. found = NULL => \A j \in Sockets : s.nsk[j].port # p
  <2> DEFINE S == {j \in Sockets : s.nsk[j].port = p}
  <2>1. S \in SUBSET Nat /\ NULL \notin S
    BY Sizes, NullIs DEF Sockets
  <2>2. found = FirstSlot(S)
    BY DEF nsk_find_netsock
  <2> HIDE DEF S, found
  <2>3. S # {} => found # NULL
    BY <2>1, <2>2, FirstSlotIs
  <2> QED
    BY <2>3 DEF S
<1> HIDE DEF k, found
<1>4. ASSUME NEW r, k # NULL PROVE SocketIs(s, w(r), k, r)
  <2>1. k \in Sockets /\ s.nsk \in [Sockets -> SocketRecords]
        /\ s = [nsk |-> s.nsk, head |-> s.head, grp |-> s.grp, lsn |-> s.lsn]
    BY <1>2, <1>4, FieldTypes
  <2> DEFINE N == [s.nsk EXCEPT ![k].port = "hold"]
  <2>2. h = [nsk |-> N, head |-> s.head, grp |-> s.grp, lsn |-> s.lsn]
    <3> DEFINE x == [s EXCEPT !.nsk = N]
    <3>1. h = x
      OBVIOUS
    <3> HIDE DEF N, h
    <3>2. x = [nsk |-> N, head |-> s.head, grp |-> s.grp, lsn |-> s.lsn]
      BY DEF TableRecords
    <3> QED
      BY <3>1, <3>2
  <2>3. [N EXCEPT ![k] = r] = [s.nsk EXCEPT ![k] = r]
    BY <2>1
  <2> HIDE DEF N, h
  <2> DEFINE M == [N EXCEPT ![k] = r]
             y == [h EXCEPT !.nsk = M]
  <2>4. w(r) = y
    BY <2>2
  <2> HIDE DEF M, w
  <2>5. y = [nsk |-> M, head |-> s.head, grp |-> s.grp, lsn |-> s.lsn]
    BY <2>2
  <2> HIDE DEF y
  <2>6. SocketIs(s, y, k, r)
    BY <2>3, <2>5 DEF SocketIs, M
  <2> QED
    BY <2>4, <2>6
<1> HIDE DEF w, t
<1>5. CASE t = s
  BY <1>5 DEF t
<1>6. CASE /\ found = NULL /\ k # NULL
           /\ t = w([port |-> p, open |-> TRUE])
  <2>1. SocketIs(s, t, k, [port |-> p, open |-> TRUE])
    BY <1>4, <1>6
  <2> QED
    BY <2>1, <1>2, <1>3, <1>6 DEF t
<1>7. CASE /\ k # NULL
           /\ t = w([port |-> "none", open |-> FALSE])
  <2>1. SocketIs(s, t, k, [port |-> "none", open |-> FALSE])
    BY <1>4, <1>7
  <2> QED
    BY <2>1, <1>2, <1>7 DEF t
<1> QED
  BY <1>1, <1>5, <1>6, <1>7

\* A socket's record changes to that of an open port nobody else has, or to a free one
\* where no group is.
LEMMA SocketChange ==
  ASSUME NEW s, Sound(s), NEW t, NEW k \in Sockets, NEW p, NEW o,
         SocketIs(s, t, k, [port |-> p, open |-> o]),
         \/ p \in Ports /\ o = TRUE /\ \A j \in Sockets : s.nsk[j].port # p
         \/ p = "none" /\ o = FALSE,
         \A g \in Busy(s) : s.grp[g].socket # k
  PROVE  /\ Sound(t) /\ Held(t) = Held(s) /\ Memberships(t) = Memberships(s)
         /\ Busy(t) = Busy(s) /\ \A g : Members(t, g) = Members(s, g)
<1> DEFINE r == [port |-> p, open |-> o]
<1>1. s \in TableRecords /\ SocketsOK(s) /\ \A g \in Busy(s) : s.nsk[s.grp[g].socket].open
  BY DEF Sound, ListsOK
<1>2. r \in SocketRecords /\ r.port = p /\ r.open = o /\ (o <=> p # "none")
  BY NamesAssumption DEF SocketRecords
<1>3. SocketIs(s, t, k, r)
  OBVIOUS
<1> HIDE DEF r
<1>4. /\ t.head = s.head /\ t.grp = s.grp /\ t.lsn = s.lsn
      /\ t = [nsk |-> t.nsk, head |-> t.head, grp |-> t.grp, lsn |-> t.lsn]
      /\ t.nsk \in [Sockets -> SocketRecords]
      /\ \A j \in Sockets : t.nsk[j] = IF j = k THEN r ELSE s.nsk[j]
  BY <1>1, <1>2, <1>3, FieldTypes DEF SocketIs
<1>5. t \in TableRecords
  BY <1>1, <1>4, FieldTypes DEF TableRecords
<1>6. SocketsOK(t)
  <2>1. \A j \in Sockets : t.nsk[j].open <=> t.nsk[j].port # "none"
    BY <1>1, <1>2, <1>4 DEF SocketsOK
  <2>2. ASSUME NEW i \in Sockets, NEW j \in Sockets, t.nsk[i].open, t.nsk[i].port = t.nsk[j].port
        PROVE  i = j
    <3>1. t.nsk[i].port # "none"
      BY <2>1, <2>2
    <3>2. CASE i # k /\ j # k
      BY <2>2, <3>2, <1>1, <1>4 DEF SocketsOK
    <3>3. CASE i = k /\ j # k
      BY <2>2, <3>1, <3>3, <1>2, <1>4
    <3>4. CASE i # k /\ j = k
      BY <2>2, <3>1, <3>4, <1>2, <1>4
    <3> QED
      BY <3>2, <3>3, <3>4
  <2> QED
    BY <2>1, <2>2 DEF SocketsOK
<1>7. \A g \in Busy(s) : t.nsk[s.grp[g].socket].open
  <2> SUFFICES ASSUME NEW g \in Busy(s) PROVE t.nsk[s.grp[g].socket].open
    OBVIOUS
  <2>1. s.grp[g].socket \in Sockets
    BY <1>1, FieldTypes DEF Busy
  <2> QED
    BY <2>1, <1>1, <1>4
<1> QED
  BY <1>4, <1>5, <1>6, <1>7, OnlySockets

\* rlp_close_netsocket frees a socket without groups.
LEMMA CloseIs ==
  ASSUME NEW s \in TableRecords, NEW k \in Sockets
  PROVE  LET t == rlp_close_netsocket(s, k)
         IN  /\ rlpm_netsock_has_rxgroups(s, k) => t = s
             /\ ~rlpm_netsock_has_rxgroups(s, k) =>
                  SocketIs(s, t, k, [port |-> "none", open |-> FALSE])
<1> DEFINE r == [port |-> "none", open |-> FALSE]
           h == [s EXCEPT !.nsk[k].open = FALSE]
           t == [h EXCEPT !.nsk[k] = r]
<1>1. rlp_close_netsocket(s, k) = IF rlpm_netsock_has_rxgroups(s, k) THEN s ELSE t
  BY DEF rlp_close_netsocket, nsk_free_netsock, netx_udp_close
<1>2. s.nsk \in [Sockets -> SocketRecords]
      /\ s = [nsk |-> s.nsk, head |-> s.head, grp |-> s.grp, lsn |-> s.lsn]
  BY FieldTypes
<1> HIDE DEF r
<1> DEFINE N == [s.nsk EXCEPT ![k].open = FALSE]
<1>3. h = [nsk |-> N, head |-> s.head, grp |-> s.grp, lsn |-> s.lsn]
  <2> DEFINE x == [s EXCEPT !.nsk = N]
  <2>1. h = x
    OBVIOUS
  <2> HIDE DEF N, h
  <2>2. x = [nsk |-> N, head |-> s.head, grp |-> s.grp, lsn |-> s.lsn]
    BY DEF TableRecords
  <2> QED
    BY <2>1, <2>2
<1>4. [N EXCEPT ![k] = r] = [s.nsk EXCEPT ![k] = r]
  BY <1>2
<1> HIDE DEF N, h
<1> DEFINE M == [N EXCEPT ![k] = r]
           y == [h EXCEPT !.nsk = M]
<1>5. t = y
  BY <1>3
<1> HIDE DEF M, t
<1>6. y = [nsk |-> M, head |-> s.head, grp |-> s.grp, lsn |-> s.lsn]
  BY <1>3
<1> HIDE DEF y
<1>7. SocketIs(s, y, k, r)
  BY <1>4, <1>6 DEF SocketIs, M
<1> QED
  BY <1>1, <1>5, <1>7 DEF r

\* The tables as they are.
LEMMA TablesAre ==
  ASSUME RlpIInv
  PROVE  /\ Whole(Tables) /\ Tables.s = rlp /\ Tables.kernel = kernel /\ Tables.refused = refused
         /\ Sound(rlp) /\ EmptyBut(rlp, {}) /\ DispatchOK /\ asked = Held(rlp)
         /\ rlp \in TableRecords
<1>1. Triple(Tables) /\ Tables.s = rlp /\ Tables.kernel = kernel /\ Tables.refused = refused
  BY DEF Triple, Tables
<1> QED
  BY <1>1 DEF RlpIInv, Whole, Sound

\* What a client changes keeps the invariant.
LEMMA ChangeKeeps ==
  ASSUME RlpIInv, NEW m, Whole(m), EmptyBut(m.s, {}), Become(m), asked' = Held(m.s)
  PROVE  RlpIInv'
<1>1. DispatchOK
  BY DEF RlpIInv
<1>2. /\ Sound(rlp') /\ EmptyBut(rlp', {}) /\ Held(rlp') = Held(m.s)
      /\ kernel' \cap refused' = {} /\ kernel' \cup refused' = Memberships(rlp')
      /\ DispatchOK'
  BY <1>1, BecomeIs
<1>3. KernelOK(Tables)'
  BY <1>2 DEF KernelOK, Tables
<1> QED
  BY <1>2, <1>3 DEF RlpIInv

\* A socket that opens keeps the invariant.
LEMMA OpenKeeps ==
  ASSUME RlpIInv, NEW p \in Ports, NEW ok \in BOOLEAN, OpenSocket(p, ok)
  PROVE  RlpIInv'
<1> DEFINE t == rlp_open_netsocket(rlp, p, ok)
           m == [Tables EXCEPT !.s = t]
<1>1. Become(m) /\ asked' = asked
  BY DEF OpenSocket
<1>2. \/ t = rlp
      \/ \E k \in Sockets :
           /\ rlp.nsk[k].port = "none" /\ \A j \in Sockets : rlp.nsk[j].port # p
           /\ SocketIs(rlp, t, k, [port |-> p, open |-> TRUE])
      \/ \E k \in Sockets :
           /\ rlp.nsk[k].port = "none"
           /\ SocketIs(rlp, t, k, [port |-> "none", open |-> FALSE])
  BY TablesAre, OpenIs
<1> HIDE DEF t
<1>3. m = [s |-> t, kernel |-> kernel, refused |-> refused]
  BY DEF Tables
<1> HIDE DEF m
<1>4. Triple(m) /\ m.s = t /\ m.kernel = kernel /\ m.refused = refused
  BY <1>3 DEF Triple
<1>5. ASSUME NEW k \in Sockets, rlp.nsk[k].port = "none"
      PROVE  \A g \in Busy(rlp) : rlp.grp[g].socket # k
  BY <1>5, TablesAre DEF Sound, SocketsOK, ListsOK
<1>6. /\ Sound(t) /\ Held(t) = Held(rlp) /\ Memberships(t) = Memberships(rlp)
      /\ Busy(t) = Busy(rlp) /\ \A g : Members(t, g) = Members(rlp, g)
  <2>1. CASE t = rlp
    BY <2>1, TablesAre
  <2>2. ASSUME NEW k \in Sockets, rlp.nsk[k].port = "none", \A j \in Sockets : rlp.nsk[j].port # p,
               SocketIs(rlp, t, k, [port |-> p, open |-> TRUE])
        PROVE  /\ Sound(t) /\ Held(t) = Held(rlp) /\ Memberships(t) = Memberships(rlp)
               /\ Busy(t) = Busy(rlp) /\ \A g : Members(t, g) = Members(rlp, g)
    <3> DEFINE o == TRUE
    <3>1. SocketIs(rlp, t, k, [port |-> p, open |-> o]) /\ o = TRUE
      BY <2>2
    <3> HIDE DEF o
    <3> QED
      BY <3>1, <2>2, <1>5, TablesAre, SocketChange
  <2>3. ASSUME NEW k \in Sockets, rlp.nsk[k].port = "none",
               SocketIs(rlp, t, k, [port |-> "none", open |-> FALSE])
        PROVE  /\ Sound(t) /\ Held(t) = Held(rlp) /\ Memberships(t) = Memberships(rlp)
               /\ Busy(t) = Busy(rlp) /\ \A g : Members(t, g) = Members(rlp, g)
    <3> DEFINE o == FALSE
               q == "none"
    <3>1. SocketIs(rlp, t, k, [port |-> q, open |-> o]) /\ o = FALSE /\ q = "none"
      BY <2>3
    <3> HIDE DEF o, q
    <3> QED
      BY <3>1, <2>3, <1>5, TablesAre, SocketChange
  <2> QED
    BY <1>2, <2>1, <2>2, <2>3
<1>7. Whole(m) /\ EmptyBut(m.s, {}) /\ asked' = Held(m.s)
  BY <1>1, <1>4, <1>6, TablesAre DEF Whole, KernelOK, EmptyBut
<1> QED
  BY <1>1, <1>7, ChangeKeeps

\* A socket that closes keeps the invariant: the kernel forgets its memberships, but
\* there are none.
LEMMA CloseKeeps ==
  ASSUME RlpIInv, NEW k \in Sockets, CloseSocket(k)
  PROVE  RlpIInv'
<1> DEFINE t == rlp_close_netsocket(rlp, k)
           has == rlpm_netsock_has_rxgroups(rlp, k)
           K == IF has THEN kernel ELSE {j \in kernel : j[1] # k}
           m == [Tables EXCEPT !.s = t, !.kernel = K]
           n == [Tables EXCEPT !.s = t]
<1>1. Become(m) /\ asked' = asked
  BY DEF CloseSocket, Tables
<1>2. /\ has => t = rlp
      /\ ~has => SocketIs(rlp, t, k, [port |-> "none", open |-> FALSE])
  BY TablesAre, CloseIs
<1>3. has <=> \E g \in Busy(rlp) : rlp.grp[g].socket = k
  BY TablesAre, HasGroups
<1> HIDE DEF t, has
<1>4. K = kernel
  <2> SUFFICES ASSUME ~has, NEW j \in kernel PROVE j[1] # k
    OBVIOUS
  <2>1. j \in Memberships(rlp)
    BY TablesAre DEF Whole, KernelOK
  <2> QED
    BY <2>1, <1>3 DEF Memberships
<1> HIDE DEF K
<1>5. n = [s |-> t, kernel |-> kernel, refused |-> refused]
  BY DEF Tables
<1>6. m = [n EXCEPT !.kernel = K]
  OBVIOUS
<1> HIDE DEF m, n
<1>7. Triple(m) /\ m.s = t /\ m.kernel = kernel /\ m.refused = refused
  BY <1>4, <1>5, <1>6 DEF Triple
<1>8. /\ Sound(t) /\ Held(t) = Held(rlp) /\ Memberships(t) = Memberships(rlp)
      /\ Busy(t) = Busy(rlp) /\ \A g : Members(t, g) = Members(rlp, g)
  <2>1. CASE has
    BY <2>1, <1>2, TablesAre
  <2>2. CASE ~has
    <3> DEFINE o == FALSE
               q == "none"
    <3>1. SocketIs(rlp, t, k, [port |-> q, open |-> o]) /\ o = FALSE /\ q = "none"
      BY <2>2, <1>2
    <3>2. \A g \in Busy(rlp) : rlp.grp[g].socket # k
      BY <2>2, <1>3
    <3> HIDE DEF o, q
    <3> QED
      BY <3>1, <3>2, TablesAre, SocketChange
  <2> QED
    BY <2>1, <2>2
<1>9. Whole(m) /\ EmptyBut(m.s, {}) /\ asked' = Held(m.s)
  BY <1>1, <1>7, <1>8, TablesAre DEF Whole, KernelOK, EmptyBut
<1> QED
  BY <1>1, <1>9, ChangeKeeps

\* A listener that is added keeps the invariant.
LEMMA AddKeeps ==
  ASSUME RlpIInv, NEW k \in Sockets, NEW addr \in Addresses, NEW p \in Protocols,
         NEW ok \in BOOLEAN, AddListener(k, addr, p, ok)
  PROVE  RlpIInv'
<1> DEFINE r == rlp_add_listener(Tables, k, addr, p, ok)
           e == [socket |-> k, addr |-> GroupAddr(addr), protocol |-> p]
<1>1. /\ rlp.nsk[k].open /\ Become(r.m)
      /\ asked' = IF r.l = NULL THEN asked ELSE With(asked, r.l, e)
  BY DEF AddListener, With
<1>2. Tables.s.nsk[k].open
  BY <1>1, TablesAre
<1>3. /\ Whole(r.m) /\ EmptyBut(r.m.s, {})
      /\ r.l = NULL => Held(r.m.s) = Held(rlp)
      /\ r.l # NULL => Held(r.m.s) = With(Held(rlp), r.l, e)
  BY <1>2, TablesAre, AddL
<1> HIDE DEF r, e
<1>4. asked' = Held(r.m.s)
  BY <1>1, <1>3, TablesAre
<1> QED
  BY <1>1, <1>3, <1>4, ChangeKeeps

\* A listener that is deleted, once or twice, keeps the invariant.
LEMMA DelKeeps ==
  ASSUME RlpIInv, NEW l \in DOMAIN asked, NEW twice \in BOOLEAN, DelListener(l, twice)
  PROVE  RlpIInv'
<1> DEFINE k == asked[l].socket
           once == rlp_del_listener(Tables, k, l)
<1>1. /\ Become(IF twice THEN rlp_del_listener(once, k, l) ELSE once)
      /\ asked' = Less(asked, l)
  BY DEF DelListener, Less
<1>2. l \in DOMAIN Held(Tables.s) /\ k = Held(Tables.s)[l].socket /\ EmptyBut(Tables.s, {})
  BY TablesAre
<1> HIDE DEF k
<1>3. /\ Whole(once) /\ EmptyBut(once.s, {}) /\ Held(once.s) = Less(Held(Tables.s), l)
      /\ rlp_del_listener(once, k, l) = once
  BY <1>2, TablesAre, DelL
<1> HIDE DEF once
<1>4. Become(once) /\ asked' = Held(once.s)
  BY <1>1, <1>3, TablesAre
<1> QED
  BY <1>3, <1>4, ChangeKeeps

\* The dispatch of a packet reads the tables and leaves them as they are; at its end
\* free slots are forgotten.
LEMMA DispatchKeeps ==
  ASSUME RlpIInv,
         \/ \E k \in Sockets, a \in Groups \cup {UNICAST}, p \in Packets : RxPacket(k, a, p)
         \/ NextPdu \/ Callback \/ NextListener \/ RxDone
  PROVE  RlpIInv'
<1>1. /\ kernel' = kernel /\ refused' = refused /\ asked' = asked
      /\ rlp' = rlp \/ rlp' = Forgotten(rlp)
  BY DEF RxPacket, NextPdu, Callback, NextListener, RxDone
<1>2. SameInUse(rlp, rlp')
  <2>1. Sound(rlp) /\ SameInUse(rlp, rlp)
    BY DEF RlpIInv, SameInUse, Sound
  <2> QED
    BY <2>1, <1>1, ForgottenIs
<1>3. /\ Sound(rlp') /\ Held(rlp') = Held(rlp) /\ Memberships(rlp') = Memberships(rlp)
      /\ \A g : Members(rlp', g) = Members(rlp, g)
  BY <1>2, InUse DEF RlpIInv
<1>4. EmptyBut(rlp', {})
  BY <1>2, <1>3 DEF RlpIInv, EmptyBut, SameInUse
<1>5. KernelOK(Tables)'
  <2>1. KernelOK(Tables)
    BY DEF RlpIInv
  <2> QED
    BY <2>1, <1>1, <1>3 DEF KernelOK, Tables
<1>6. DispatchOK'
  <2>1. "phase" \in DOMAIN rx
    BY DEF RlpIInv, DispatchOK
  <2>2. ASSUME NEW r, NEW l, "phase" \in DOMAIN r
        PROVE  "phase" \in DOMAIN Go(r, l) /\ Go(r, l).phase \in {"call", "pdu", "end"}
    <3>1. Over(r, r.i + 1) \in BOOLEAN
      BY DEF Over
    <3> QED
      BY <3>1, <2>2 DEF Go
  <2>3. CASE NextPdu
    <3> DEFINE r == [rx EXCEPT !.protocol = Inherit(rx.packet.pdus[rx.i].vec, @),
                               !.src = Inherit(rx.packet.pdus[rx.i].hdr, @),
                               !.data = Inherit(rx.packet.pdus[rx.i].data, @)]
    <3>1. "phase" \in DOMAIN r
      BY <2>1
    <3>2. rx' = Go(r, rlpm_first_listener(rlp, rx.group, r.protocol))
      BY <2>3 DEF NextPdu
    <3> HIDE DEF r
    <3> QED
      BY <3>1, <3>2, <2>2 DEF DispatchOK
  <2>4. CASE NextListener
    BY <2>1, <2>2, <2>4 DEF NextListener, DispatchOK
  <2>5. CASE Callback
    BY <2>1, <2>5 DEF Callback, DispatchOK
  <2>6. CASE RxDone
    BY <2>6 DEF RxDone, DispatchOK
  <2>7. CASE \E k \in Sockets, a \in Groups \cup {UNICAST}, p \in Packets : RxPacket(k, a, p)
    BY <2>7 DEF RxPacket, DispatchOK
  <2> QED
    BY <2>3, <2>4, <2>5, <2>6, <2>7
<1> QED
  BY <1>1, <1>3, <1>4, <1>5, <1>6 DEF RlpIInv

\* In the first state nothing is open.
LEMMA RlpInitIInv == RlpInit => RlpIInv
<1> SUFFICES ASSUME RlpInit PROVE RlpIInv
  OBVIOUS
<1>1. /\ rlp.nsk = [k \in Sockets |-> [port |-> "none", open |-> FALSE]] /\ rlp.head = NULL
      /\ rlp.grp = [g \in RxGroups |->
                      [socket |-> NULL, addr |-> UNICAST, listeners |-> NULL, next |-> NULL]]
      /\ rlp.lsn = [l \in Listeners |-> [protocol |-> "none", rxgroup |-> NULL, next |-> NULL]]
      /\ rlp = [nsk |-> rlp.nsk, head |-> rlp.head, grp |-> rlp.grp, lsn |-> rlp.lsn]
  BY DEF RlpInit
<1>2. rlp \in TableRecords
  <2>1. rlp.nsk \in [Sockets -> SocketRecords]
    BY <1>1 DEF SocketRecords
  <2>2. rlp.grp \in [RxGroups -> GroupRecords]
    BY <1>1 DEF GroupRecords
  <2>3. rlp.lsn \in [Listeners -> ListenerRecords]
    BY <1>1 DEF ListenerRecords
  <2> QED
    BY <1>1, <2>1, <2>2, <2>3 DEF TableRecords
<1>3. Busy(rlp) = {} /\ Used(rlp) = {}
  BY <1>1 DEF Busy, Used
<1>4. SocketsOK(rlp)
  BY <1>1 DEF SocketsOK
<1>5. ListOf(GroupLinks(rlp), rlp.head, Busy(rlp))
  BY <1>1, <1>2, <1>3, LinksAre, NullIs, ListOfNone
<1>6. ListsOK(rlp)
  BY <1>3, <1>5 DEF ListsOK
<1>7. asked = Held(rlp)
  <2>1. asked = [l \in {} |-> NULL]
    BY DEF RlpInit
  <2>2. Held(rlp) = [l \in {} |-> [socket |-> rlp.grp[rlp.lsn[l].rxgroup].socket,
                                   addr |-> rlp.grp[rlp.lsn[l].rxgroup].addr,
                                   protocol |-> rlp.lsn[l].protocol]]
    BY <1>3 DEF Held
  <2> QED
    BY <2>1, <2>2
<1>8. Memberships(rlp) = {} /\ EmptyBut(rlp, {})
  BY <1>3 DEF Memberships, EmptyBut
<1>9. KernelOK(Tables)
  BY <1>8 DEF KernelOK, Tables, RlpInit
<1>10. DispatchOK
  BY DEF DispatchOK, RlpInit
<1> QED
  BY <1>2, <1>4, <1>6, <1>7, <1>8, <1>9, <1>10 DEF RlpIInv, Sound

\* Every step keeps the invariant.
LEMMA RlpStepIInv == RlpIInv /\ [RlpNext]_rlpVars => RlpIInv'
<1> SUFFICES ASSUME RlpIInv, [RlpNext]_rlpVars PROVE RlpIInv'
  OBVIOUS
<1>1. ASSUME NEW p \in Ports, NEW ok \in BOOLEAN, OpenSocket(p, ok) PROVE RlpIInv'
  BY <1>1, OpenKeeps
<1>2. ASSUME NEW k \in Sockets, CloseSocket(k) PROVE RlpIInv'
  BY <1>2, CloseKeeps
<1>3. ASSUME NEW k \in Sockets, NEW a \in Addresses, NEW p \in Protocols, NEW ok \in BOOLEAN,
             AddListener(k, a, p, ok)
      PROVE  RlpIInv'
  BY <1>3, AddKeeps
<1>4. ASSUME NEW l \in DOMAIN asked, NEW twice \in BOOLEAN, DelListener(l, twice) PROVE RlpIInv'
  BY <1>4, DelKeeps
<1>5. CASE \/ \E k \in Sockets, a \in Groups \cup {UNICAST}, p \in Packets : RxPacket(k, a, p)
           \/ NextPdu \/ Callback \/ NextListener \/ RxDone
  BY <1>5, DispatchKeeps
<1>6. CASE UNCHANGED rlpVars
  BY <1>6 DEF rlpVars, RlpIInv, KernelOK, Tables, DispatchOK
<1> QED
  BY <1>1, <1>2, <1>3, <1>4, <1>5, <1>6 DEF RlpNext

\* The invariant says what the types are,
LEMMA TypesFromInvariant == RlpIInv => RlpTypeOK
<1> SUFFICES ASSUME RlpIInv PROVE RlpTypeOK
  OBVIOUS
<1>1. rlp \in TableRecords /\ SocketsOK(rlp) /\ ListsOK(rlp) /\ asked = Held(rlp) /\ DispatchOK
  BY DEF RlpIInv, Sound
<1>2. /\ rlp.nsk \in [Sockets -> SocketRecords] /\ rlp.head \in RxGroups \cup {NULL}
      /\ rlp.grp \in [RxGroups -> GroupRecords] /\ rlp.lsn \in [Listeners -> ListenerRecords]
  BY <1>1, FieldTypes
<1>3. \A g \in Busy(rlp) : rlp.grp[g].socket \in Sockets /\ rlp.grp[g].addr \in Groups \cup {UNICAST}
  BY <1>1, FieldTypes DEF Busy
<1>4. kernel \cup refused \subseteq Sockets \X Groups
  <2>1. kernel \cup refused = Memberships(rlp)
    BY DEF RlpIInv, KernelOK, Tables
  <2>2. Memberships(rlp) \subseteq Sockets \X Groups
    BY <1>3 DEF Memberships
  <2> QED
    BY <2>1, <2>2
<1>5. \A l \in DOMAIN asked :
        asked[l] \in [socket : Sockets, addr : Groups \cup {UNICAST}, protocol : Protocols]
  <2> SUFFICES ASSUME NEW l \in Used(rlp)
               PROVE  Held(rlp)[l] \in [socket : Sockets, addr : Groups \cup {UNICAST},
                                        protocol : Protocols]
    BY <1>1 DEF Held
  <2>1. rlp.lsn[l].rxgroup \in Busy(rlp)
    BY <1>1 DEF ListsOK
  <2>2. rlp.lsn[l].protocol \in Protocols
    BY <1>1, FieldTypes DEF Used
  <2> QED
    BY <2>1, <2>2, <1>3 DEF Held
<1>6. SocketsOK(rlp)
  BY <1>1
<1> QED
  BY <1>1, <1>2, <1>4, <1>5, <1>6
     DEF RlpTypeOK, SocketsOK, SocketRecords, GroupRecords, ListenerRecords, DispatchOK

\* that the lists and the registrations agree,
LEMMA ListsFromInvariant == RlpIInv => ListsSound
<1> SUFFICES ASSUME RlpIInv PROVE ListsSound
  OBVIOUS
<1>1. /\ Sound(rlp) /\ ListsOK(rlp) /\ asked = Held(rlp) /\ EmptyBut(rlp, {})
      /\ DOMAIN asked = Used(rlp)
  BY DEF RlpIInv, Sound, Held
<1> DEFINE groups == GroupList(rlp)
           members(g) == {l \in DOMAIN asked : rlp.lsn[l].rxgroup = g}
<1>2. {l \in Listeners : rlp.lsn[l].protocol # "none"} = DOMAIN asked
  BY <1>1 DEF Used
<1>3. \A l \in DOMAIN asked :
        asked[l] = [socket |-> rlp.grp[rlp.lsn[l].rxgroup].socket,
                    addr |-> rlp.grp[rlp.lsn[l].rxgroup].addr,
                    protocol |-> rlp.lsn[l].protocol]
  BY <1>1 DEF Held
<1>4. \A g : members(g) = Members(rlp, g)
  BY <1>1 DEF Members
<1>5. groups \in Seq(RxGroups) /\ Busy(rlp) = {groups[i] : i \in 1 .. Len(groups)}
      /\ Len(groups) = Cardinality(Busy(rlp)) /\ DOMAIN groups = 1 .. Len(groups)
  BY <1>1, GroupsListed
<1>6. {g \in RxGroups : members(g) # {}} = Busy(rlp)
  <2>1. \A g \in Busy(rlp) : g \in RxGroups /\ members(g) # {}
    BY <1>1, <1>4 DEF EmptyBut, Busy
  <2>2. \A g \in RxGroups : members(g) # {} => g \in Busy(rlp)
    BY <1>1 DEF ListsOK
  <2> QED
    BY <2>1, <2>2
<1>7. ASSUME NEW i \in DOMAIN groups
      PROVE  LET its == ListenersOf(rlp, groups[i])
             IN  /\ its # <<>>
                 /\ {its[j] : j \in DOMAIN its} = members(groups[i])
                 /\ Len(its) = Cardinality(members(groups[i]))
  <2> DEFINE g == groups[i]
             its == ListenersOf(rlp, g)
  <2>1. g \in Busy(rlp)
    BY <1>5
  <2> HIDE DEF g
  <2>2. its \in Seq(Listeners) /\ Members(rlp, g) = {its[j] : j \in 1 .. Len(its)}
        /\ Len(its) = Cardinality(Members(rlp, g)) /\ DOMAIN its = 1 .. Len(its)
    BY <1>1, <2>1, ListenersListed
  <2>3. Members(rlp, g) # {}
    BY <1>1, <2>1 DEF EmptyBut
  <2> HIDE DEF its
  <2>4. its # <<>>
    <3> SUFFICES ASSUME its = <<>> PROVE FALSE
      OBVIOUS
    <3>1. Len(its) = 0
      OBVIOUS
    <3> QED
      BY <3>1, <2>2, <2>3
  <2>5. members(g) = Members(rlp, g)
    BY <1>4
  <2>6. its # <<>> /\ {its[j] : j \in DOMAIN its} = members(g) /\ Len(its) = Cardinality(members(g))
    BY <2>2, <2>4, <2>5
  <2> QED
    BY <2>6 DEF its, g
<1>8. {groups[i] : i \in DOMAIN groups} = {g \in RxGroups : rlp.grp[g].socket # NULL}
  BY <1>5 DEF Busy
<1>9. Len(groups) = Cardinality({g \in RxGroups : members(g) # {}})
  BY <1>5, <1>6
<1> HIDE DEF groups, members
<1> QED
  BY <1>2, <1>3, <1>7, <1>8, <1>9 DEF ListsSound, groups, members

\* and that the memberships are those of the registrations.
LEMMA KernelFromInvariant == RlpIInv => KernelAgrees
<1> SUFFICES ASSUME RlpIInv PROVE KernelAgrees
  OBVIOUS
<1>1. /\ ListsOK(rlp) /\ asked = Held(rlp) /\ EmptyBut(rlp, {}) /\ DOMAIN asked = Used(rlp)
      /\ kernel \cap refused = {} /\ kernel \cup refused = Memberships(rlp)
  BY DEF RlpIInv, Sound, Held, KernelOK, Tables
<1> DEFINE A == {<<asked[l].socket, asked[l].addr>> : l \in {i \in DOMAIN asked : asked[i].addr \in Groups}}
<1>2. \A l \in DOMAIN asked : /\ rlp.lsn[l].rxgroup \in Busy(rlp)
                              /\ asked[l].socket = rlp.grp[rlp.lsn[l].rxgroup].socket
                              /\ asked[l].addr = rlp.grp[rlp.lsn[l].rxgroup].addr
  BY <1>1 DEF Held, ListsOK
<1>3. A \subseteq Memberships(rlp)
  BY <1>2 DEF Memberships
<1>4. Memberships(rlp) \subseteq A
  <2> SUFFICES ASSUME NEW g \in Busy(rlp), rlp.grp[g].addr \in Groups
               PROVE  <<rlp.grp[g].socket, rlp.grp[g].addr>> \in A
    BY DEF Memberships
  <2>1. PICK l \in Used(rlp) : rlp.lsn[l].rxgroup = g
    BY <1>1 DEF EmptyBut, Members
  <2> QED
    BY <2>1, <1>1, <1>2
<1>5. \A j \in Memberships(rlp) : rlp.nsk[j[1]].open
  BY <1>1 DEF Memberships, ListsOK
<1> QED
  BY <1>1, <1>3, <1>4, <1>5 DEF KernelAgrees

\* The inductive invariant of RLP: lists of fixed pools that hold what is in use, each
\* group for somebody and for no other's socket and address.
THEOREM RlpInvariant == RlpSpec => []RlpIInv
BY RlpInitIInv, RlpStepIInv, PTL DEF RlpSpec

\* Types; sockets that are not open are free, and no two have the same port
\* (rlp_open_netsocket, rlp_close_netsocket).
THEOREM RlpTypes == RlpSpec => []RlpTypeOK
BY RlpInvariant, TypesFromInvariant, PTL

\* The lists of groups and listeners hold just what clients registered, each once,
\* while a callback of the dispatch adds and deletes listeners, also when one is
\* deleted twice (rlpmem.c, rlp_add_listener, rlp_del_listener).
THEOREM ListsAreSound == RlpSpec => []ListsSound
BY RlpInvariant, ListsFromInvariant, PTL

\* The memberships the kernel holds, or has refused, are those of the groups with
\* listeners (rlp_open_rxgroup, rlp_close_rxgroup).
THEOREM KernelMatches == RlpSpec => []KernelAgrees
BY RlpInvariant, KernelFromInvariant, PTL
-----------------------------------------------------------------------------
(***************************************************************************)
(* What packets mean.                                                      *)
(***************************************************************************)
Meanings == [protocol : Vectors, src : Senders, data : Contents]

\* What the fields are before any PDU was read.
Nothing == [protocol |-> "none", src |-> "none", data |-> "none"]
Before(meant, i) == IF i = 1 THEN Nothing ELSE meant[i - 1]

\* The units of a packet are its PDUs up to the first that is broken, each with the
\* fields it gives and those of the one before.
WellMeant(p) ==
  LET n == Len(p.meant)
  IN  /\ p.pdus \in Seq(Pdus) /\ p.meant \in Seq(Meanings)
      /\ n \in 1 .. Len(p.pdus)
      /\ \A i \in 1 .. n : p.pdus[i].fits
      /\ n = Len(p.pdus) \/ ~p.pdus[n + 1].fits
      /\ \A i \in 1 .. n :
           /\ p.meant[i].protocol = Inherit(p.pdus[i].vec, Before(p.meant, i).protocol)
           /\ p.meant[i].src = Inherit(p.pdus[i].hdr, Before(p.meant, i).src)
           /\ p.meant[i].data = Inherit(p.pdus[i].data, Before(p.meant, i).data)

\* What the wire carries.
LEMMA WireIs ==
  /\ "same" \notin Vectors /\ "same" \notin Senders /\ "same" \notin Contents
  /\ \A b \in OwnBlocks : b.owner \in Senders /\ b.units \in Seq(Units)
  /\ \A q \in ForeignBlocks : q \in Seq(Pdus)
BY WireAssumption

\* The greatest of a set of numbers that has a bound.
LEMMA LatestIs ==
  ASSUME NEW n \in Nat, NEW S \in SUBSET (1 .. n), S # {}
  PROVE  Latest(S) \in S /\ \A j \in S : j <= Latest(S)
<1>1. S \in SUBSET (0 .. n)
  OBVIOUS
<1>2. \E i \in S : \A j \in S : j <= i
  BY <1>1, Largest
<1> QED
  BY <1>2 DEF Latest

\* The last that gives something, up to i.
Giver(f, i) == Latest({j \in 1 .. i : f[j] # "same"})

\* It is i, or that of those before.
LEMMA GiverIs ==
  ASSUME NEW n \in Nat \ {0}, NEW f, f[1] # "same", NEW i \in 1 .. n
  PROVE  /\ Giver(f, i) \in 1 .. i /\ f[Giver(f, i)] # "same"
         /\ f[Giver(f, i)] = IF f[i] # "same" THEN f[i] ELSE f[Giver(f, i - 1)]
         /\ i = 1 => f[i] # "same"
<1> DEFINE S(k) == {j \in 1 .. k : f[j] # "same"}
<1>1. i \in Nat /\ i >= 1 /\ S(i) \in SUBSET (1 .. i) /\ 1 \in S(i)
  OBVIOUS
<1>2. Latest(S(i)) \in S(i) /\ \A j \in S(i) : j <= Latest(S(i))
  <2> HIDE DEF S
  <2> QED
    BY <1>1, LatestIs
<1>3. Giver(f, i) = Latest(S(i)) /\ Giver(f, i - 1) = Latest(S(i - 1))
  BY DEF Giver
<1>4. CASE f[i] # "same"
  <2>1. i \in S(i) /\ \A j \in S(i) : j \in Nat /\ j <= i
    BY <1>1, <1>4
  <2>2. Latest(S(i)) = i
    <3> DEFINE L == Latest(S(i))
    <3>1. L \in S(i) /\ i <= L
      BY <1>2, <2>1
    <3>2. L \in Nat /\ L <= i
      BY <2>1, <3>1
    <3> HIDE DEF L, S
    <3>3. L = i
      BY <1>1, <3>1, <3>2
    <3> QED
      BY <3>3 DEF L
  <2> HIDE DEF S
  <2> QED
    BY <1>2, <1>3, <1>4, <2>1, <2>2
<1>5. CASE f[i] = "same"
  <2>1. i # 1
    BY <1>5
  <2>2. S(i) = S(i - 1)
    <3>1. \A j \in Nat : j \in 1 .. i /\ j # i <=> j \in 1 .. i - 1
      BY <1>1
    <3>2. \A j : j \in S(i) <=> j \in S(i - 1)
      <4> SUFFICES ASSUME NEW j PROVE j \in S(i) <=> j \in S(i - 1)
        OBVIOUS
      <4>1. j \in S(i) <=> j \in 1 .. i /\ f[j] # "same"
        OBVIOUS
      <4>2. j \in S(i - 1) <=> j \in 1 .. i - 1 /\ f[j] # "same"
        OBVIOUS
      <4>3. j \in 1 .. i => j \in Nat
        OBVIOUS
      <4>4. j \in 1 .. i - 1 => j \in Nat
        OBVIOUS
      <4> QED
        BY <1>5, <3>1, <4>1, <4>2, <4>3, <4>4
    <3> HIDE DEF S
    <3> QED
      BY <3>2
  <2>3. Latest(S(i)) \in 1 .. i /\ f[Latest(S(i))] # "same"
    BY <1>2
  <2> HIDE DEF S
  <2> QED
    BY <1>3, <1>5, <2>1, <2>2, <2>3
<1> QED
  BY <1>4, <1>5

\* A block of another sender, whose first PDU is whole and gives all fields.
LEMMA ForeignIs ==
  ASSUME NEW q \in Seq(Pdus), q # <<>>, q[1].fits,
         q[1].vec # "same", q[1].hdr # "same", q[1].data # "same"
  PROVE  WellMeant(Foreign(q))
<1> DEFINE l == Len(q)
           Whole0(n) == /\ \A i \in 1 .. n : q[i].fits
                        /\ n = l \/ ~q[n + 1].fits
           w == CHOOSE n \in 0 .. l : Whole0(n)
           v == [j \in 1 .. l |-> q[j].vec]
           h == [j \in 1 .. l |-> q[j].hdr]
           d == [j \in 1 .. l |-> q[j].data]
           m == [i \in 1 .. w |->
                  [protocol |-> q[Latest({j \in 1 .. i : q[j].vec # "same"})].vec,
                   src |-> q[Latest({j \in 1 .. i : q[j].hdr # "same"})].hdr,
                   data |-> q[Latest({j \in 1 .. i : q[j].data # "same"})].data]]
           p == Foreign(q)
<1>1. l \in Nat /\ l >= 1 /\ \A j \in 1 .. l : q[j] \in Pdus
  OBVIOUS
<1>2. p.pdus = q /\ p.meant = m
  BY DEF Foreign
<1> HIDE DEF m, p
<1>3. w \in 1 .. l /\ Whole0(w)
  <2> DEFINE W == {n \in 0 .. l : \A i \in 1 .. n : q[i].fits}
  <2>1. W \in SUBSET (0 .. l) /\ 0 \in W
    BY <1>1
  <2>2. PICK n \in W : \A k \in W : k <= n
    BY <1>1, <2>1, Largest, Zenon
  <2>3. n \in 0 .. l /\ \A i \in 1 .. n : q[i].fits
    BY <2>2
  <2>4. n = l \/ ~q[n + 1].fits
    <3> SUFFICES ASSUME n # l, q[n + 1].fits PROVE FALSE
      OBVIOUS
    <3>1. n + 1 \in 0 .. l /\ \A i \in 1 .. n + 1 : i \in 1 .. n \/ i = n + 1
      BY <1>1, <2>3
    <3>2. n + 1 \in W
      BY <2>3, <3>1
    <3>3. ~(n + 1 <= n)
      BY <2>3
    <3> QED
      BY <2>2, <3>2, <3>3
  <2>5. \E k \in 0 .. l : Whole0(k)
    BY <2>3, <2>4
  <2>6. w \in 0 .. l /\ Whole0(w)
    <3> HIDE DEF Whole0, l
    <3> QED
      BY <2>5
  <2>7. w # 0
    BY <1>1, <2>6
  <2> HIDE DEF w, Whole0
  <2> QED
    BY <1>1, <2>6, <2>7
<1> HIDE DEF w
<1>4. \A j \in 1 .. l : v[j] = q[j].vec /\ h[j] = q[j].hdr /\ d[j] = q[j].data
  OBVIOUS
<1>5. v[1] # "same" /\ h[1] # "same" /\ d[1] # "same"
  BY <1>1, <1>4
<1> HIDE DEF v, h, d
<1>6. ASSUME NEW i \in 1 .. w
      PROVE  /\ m[i] = [protocol |-> v[Giver(v, i)], src |-> h[Giver(h, i)], data |-> d[Giver(d, i)]]
             /\ Giver(v, i) \in 1 .. l /\ Giver(h, i) \in 1 .. l /\ Giver(d, i) \in 1 .. l
  <2>1. \A j \in 1 .. i : j \in 1 .. l
    BY <1>1, <1>3
  <2>2. /\ {j \in 1 .. i : q[j].vec # "same"} = {j \in 1 .. i : v[j] # "same"}
        /\ {j \in 1 .. i : q[j].hdr # "same"} = {j \in 1 .. i : h[j] # "same"}
        /\ {j \in 1 .. i : q[j].data # "same"} = {j \in 1 .. i : d[j] # "same"}
    BY <2>1, <1>4
  <2>3. m[i] = [protocol |-> q[Giver(v, i)].vec, src |-> q[Giver(h, i)].hdr,
                data |-> q[Giver(d, i)].data]
    BY <2>2 DEF m, Giver
  <2>4. i \in 1 .. l /\ l \in Nat \ {0}
    BY <1>1, <1>3
  <2>5. Giver(v, i) \in 1 .. i /\ Giver(h, i) \in 1 .. i /\ Giver(d, i) \in 1 .. i
    BY <1>5, <2>4, GiverIs
  <2> QED
    BY <1>4, <2>1, <2>3, <2>5
<1>7. \A i \in 1 .. w : /\ m[i].protocol = v[Giver(v, i)] /\ m[i].src = h[Giver(h, i)]
                        /\ m[i].data = d[Giver(d, i)]
                        /\ m[i] = [protocol |-> m[i].protocol, src |-> m[i].src, data |-> m[i].data]
  <2> SUFFICES ASSUME NEW i \in 1 .. w
               PROVE  /\ m[i].protocol = v[Giver(v, i)] /\ m[i].src = h[Giver(h, i)]
                      /\ m[i].data = d[Giver(d, i)]
                      /\ m[i] = [protocol |-> m[i].protocol, src |-> m[i].src, data |-> m[i].data]
    OBVIOUS
  <2> DEFINE x == v[Giver(v, i)]
             y == h[Giver(h, i)]
             z == d[Giver(d, i)]
  <2>1. m[i] = [protocol |-> x, src |-> y, data |-> z]
    BY <1>6
  <2> HIDE DEF x, y, z
  <2>2. m[i].protocol = x /\ m[i].src = y /\ m[i].data = z
    BY <2>1
  <2> QED
    BY <2>1, <2>2 DEF x, y, z
<1>8. w \in Nat /\ \A i \in 1 .. w : i \in 1 .. l /\ (i # 1 => i - 1 \in 1 .. w)
  BY <1>1, <1>3
<1>9. ASSUME NEW i \in 1 .. w
      PROVE  /\ m[i] \in Meanings
             /\ m[i].protocol = Inherit(q[i].vec, Before(m, i).protocol)
             /\ m[i].src = Inherit(q[i].hdr, Before(m, i).src)
             /\ m[i].data = Inherit(q[i].data, Before(m, i).data)
  <2>1. i \in 1 .. l /\ l \in Nat \ {0}
    BY <1>1, <1>8
  <2>2. /\ v[Giver(v, i)] # "same" /\ h[Giver(h, i)] # "same" /\ d[Giver(d, i)] # "same"
        /\ i = 1 => v[i] # "same" /\ h[i] # "same" /\ d[i] # "same"
        /\ v[Giver(v, i)] = IF v[i] # "same" THEN v[i] ELSE v[Giver(v, i - 1)]
        /\ h[Giver(h, i)] = IF h[i] # "same" THEN h[i] ELSE h[Giver(h, i - 1)]
        /\ d[Giver(d, i)] = IF d[i] # "same" THEN d[i] ELSE d[Giver(d, i - 1)]
    <3>4. \A f : f[1] # "same" =>
            /\ f[Giver(f, i)] # "same" /\ (i = 1 => f[i] # "same")
            /\ f[Giver(f, i)] = IF f[i] # "same" THEN f[i] ELSE f[Giver(f, i - 1)]
      BY <2>1, GiverIs
    <3>1. /\ v[Giver(v, i)] # "same" /\ (i = 1 => v[i] # "same")
          /\ v[Giver(v, i)] = IF v[i] # "same" THEN v[i] ELSE v[Giver(v, i - 1)]
      BY <1>5, <3>4
    <3>2. /\ h[Giver(h, i)] # "same" /\ (i = 1 => h[i] # "same")
          /\ h[Giver(h, i)] = IF h[i] # "same" THEN h[i] ELSE h[Giver(h, i - 1)]
      BY <1>5, <3>4
    <3>3. /\ d[Giver(d, i)] # "same" /\ (i = 1 => d[i] # "same")
          /\ d[Giver(d, i)] = IF d[i] # "same" THEN d[i] ELSE d[Giver(d, i - 1)]
      BY <1>5, <3>4
    <3> QED
      BY <3>1, <3>2, <3>3
  <2>3. /\ v[Giver(v, i)] \in Vectors /\ h[Giver(h, i)] \in Senders /\ d[Giver(d, i)] \in Contents
    <3>1. \A j \in 1 .. l : /\ v[j] \in Vectors \cup {"same"} /\ h[j] \in Senders \cup {"same"}
                            /\ d[j] \in Contents \cup {"same"}
      BY <1>1, <1>4 DEF Pdus
    <3> QED
      BY <3>1, <2>2, <1>6
  <2>4. m[i] \in Meanings
    <3> DEFINE x == m[i].protocol
               y == m[i].src
               z == m[i].data
    <3>1. x \in Vectors /\ y \in Senders /\ z \in Contents
      BY <2>3, <1>7
    <3>2. m[i] = [protocol |-> x, src |-> y, data |-> z]
      BY <1>7
    <3> HIDE DEF x, y, z
    <3> QED
      BY <3>1, <3>2 DEF Meanings
  <2>5. i # 1 => /\ m[i - 1].protocol = v[Giver(v, i - 1)] /\ m[i - 1].src = h[Giver(h, i - 1)]
                 /\ m[i - 1].data = d[Giver(d, i - 1)]
    BY <1>7, <1>8
  <2>6. i # 1 => Before(m, i) = m[i - 1]
    BY DEF Before
  <2>7. m[i].protocol = Inherit(q[i].vec, Before(m, i).protocol)
    <3>1. q[i].vec = v[i] /\ m[i].protocol = v[Giver(v, i)]
      BY <1>4, <1>7, <2>1
    <3>2. v[i] = "same" => Before(m, i).protocol = v[Giver(v, i)]
      BY <2>2, <2>5, <2>6
    <3> QED
      BY <2>2, <3>1, <3>2 DEF Inherit
  <2>8. m[i].src = Inherit(q[i].hdr, Before(m, i).src)
    <3>1. q[i].hdr = h[i] /\ m[i].src = h[Giver(h, i)]
      BY <1>4, <1>7, <2>1
    <3>2. h[i] = "same" => Before(m, i).src = h[Giver(h, i)]
      BY <2>2, <2>5, <2>6
    <3> QED
      BY <2>2, <3>1, <3>2 DEF Inherit
  <2>9. m[i].data = Inherit(q[i].data, Before(m, i).data)
    <3>1. q[i].data = d[i] /\ m[i].data = d[Giver(d, i)]
      BY <1>4, <1>7, <2>1
    <3>2. d[i] = "same" => Before(m, i).data = d[Giver(d, i)]
      BY <2>2, <2>5, <2>6
    <3> QED
      BY <2>2, <3>1, <3>2 DEF Inherit
  <2> QED
    BY <2>4, <2>7, <2>8, <2>9
<1>10. m \in Seq(Meanings) /\ Len(m) = w
  <2>1. m \in [1 .. w -> Meanings]
    <3>1. m = [i \in 1 .. w |-> m[i]]
      BY DEF m
    <3> QED
      BY <3>1, <1>9
  <2> QED
    BY <2>1, <1>8
<1>11. w = Len(q) \/ ~q[w + 1].fits
  BY <1>3
<1> QED
  <2> HIDE DEF l
  <2>1. p.pdus \in Seq(Pdus) /\ p.meant \in Seq(Meanings) /\ Len(p.meant) = w /\ Len(p.pdus) = l
    BY <1>2, <1>10 DEF l
  <2>2. \A i \in 1 .. w : p.pdus[i].fits
    BY <1>2, <1>3
  <2>3. w = Len(p.pdus) \/ ~p.pdus[w + 1].fits
    BY <1>2, <1>11
  <2>4. \A i \in 1 .. w :
           /\ p.meant[i].protocol = Inherit(p.pdus[i].vec, Before(p.meant, i).protocol)
           /\ p.meant[i].src = Inherit(p.pdus[i].hdr, Before(p.meant, i).src)
           /\ p.meant[i].data = Inherit(p.pdus[i].data, Before(p.meant, i).data)
    BY <1>2, <1>9
  <2>5. w \in 1 .. Len(p.pdus)
    BY <1>3, <2>1
  <2>6. WellMeant(p)
    BY <2>1, <2>2, <2>3, <2>4, <2>5 DEF WellMeant
  <2> QED
    BY <2>6 DEF p

\* What rlp_add_pdu makes of the block of a component that runs this code.
LEMMA SentIs ==
  ASSUME NEW owner \in Senders, NEW units \in Seq(Units), units # <<>>
  PROVE  WellMeant(Sent(owner, units))
<1> DEFINE l == Len(units)
           D == Seq(Pdus)
           pdu(i) == [vec |-> units[i].protocol, hdr |-> IF i = 1 THEN owner ELSE "same",
                      data |-> units[i].data, fits |-> TRUE]
           step == [k \in 1 .. l |-> [x \in D |-> rlp_add_pdu(x, owner, units[k])]]
           IsBlock(f) == f = [n \in 0 .. l |-> IF n = 0 THEN <<>> ELSE rlp_add_pdu(f[n - 1], owner, units[n])]
           block == CHOOSE f : IsBlock(f)
           m == [i \in DOMAIN units |->
                   [protocol |-> units[i].protocol, src |-> owner, data |-> units[i].data]]
           p == Sent(owner, units)
<1>1. /\ l \in Nat /\ l >= 1 /\ DOMAIN units = 1 .. l
      /\ \A i \in 1 .. l : units[i].protocol \in Vectors /\ units[i].data \in Contents
  <2>1. l \in Nat /\ l >= 1 /\ DOMAIN units = 1 .. l /\ \A i \in 1 .. l : units[i] \in Units
    OBVIOUS
  <2> QED
    BY <2>1 DEF Units
<1> HIDE DEF p
<1>2. p.pdus = block[l] /\ p.meant = m
  BY Zenon DEF Sent, p
<1>3. \A k \in 1 .. l : \A x \in D :
        rlp_add_pdu(x, owner, units[k]) = Append(x, [vec |-> units[k].protocol,
             hdr |-> IF x = <<>> THEN owner ELSE "same", data |-> units[k].data, fits |-> TRUE])
  BY DEF rlp_add_pdu
<1>4. \A k \in 1 .. l : \A x \in D : rlp_add_pdu(x, owner, units[k]) \in D
  <2> SUFFICES ASSUME NEW k \in 1 .. l, NEW x \in D PROVE rlp_add_pdu(x, owner, units[k]) \in D
    OBVIOUS
  <2> DEFINE e == [vec |-> units[k].protocol, hdr |-> IF x = <<>> THEN owner ELSE "same",
                   data |-> units[k].data, fits |-> TRUE]
  <2>1. e \in Pdus
    BY <1>1 DEF Pdus
  <2>2. rlp_add_pdu(x, owner, units[k]) = Append(x, e)
    BY <1>3
  <2> HIDE DEF e
  <2> QED
    BY <2>1, <2>2
<1>5. step \in [1 .. l -> [D -> D]] /\ <<>> \in D
  BY <1>4
<1>6. \A k \in 1 .. l : \A x \in D : step[k][x] = rlp_add_pdu(x, owner, units[k])
  OBVIOUS
<1> HIDE DEF l, D, step, m
<1>7. \A k \in 0 .. l : k # 0 => k \in 1 .. l /\ k - 1 \in 0 .. l
  BY <1>1
<1>8. \E f : IsBlock(f)
  <2>1. PICK f \in [0 .. l -> D] : IsLoop(step, <<>>, l, f)
    BY <1>1, <1>5, LoopExists
  <2>2. \A k \in 0 .. l : k # 0 => step[k][f[k - 1]] = rlp_add_pdu(f[k - 1], owner, units[k])
    BY <1>6, <1>7, <2>1
  <2>3. f = [k \in 0 .. l |-> IF k = 0 THEN <<>> ELSE step[k][f[k - 1]]]
    BY <2>1, Zenon DEF IsLoop
  <2>4. IsBlock(f)
    BY <2>2, <2>3
  <2> QED
    BY <2>4
<1>9. IsBlock(block)
  BY <1>8, Zenon
<1> HIDE DEF block
<1>10. block[0] = <<>> /\ \A k \in 1 .. l : block[k] = rlp_add_pdu(block[k - 1], owner, units[k])
  <2>1. 0 \in 0 .. l /\ \A k \in 1 .. l : k \in 0 .. l /\ k # 0
    BY <1>1
  <2> QED
    BY <1>9, <2>1
<1> HIDE DEF IsBlock, pdu
<1> DEFINE Good(k) == block[k] \in D /\ Len(block[k]) = k /\ \A i \in 1 .. k : block[k][i] = pdu(i)
           T == {k \in 0 .. l : Good(k)}
<1>11. 0 \in T
  BY <1>1, <1>5, <1>10
<1>12. ASSUME NEW k \in 1 .. l, k - 1 \in T PROVE k \in T
  <2> DEFINE x == block[k - 1]
             e == [vec |-> units[k].protocol, hdr |-> IF x = <<>> THEN owner ELSE "same",
                   data |-> units[k].data, fits |-> TRUE]
  <2>1. k \in 0 .. l /\ k \in Nat /\ k - 1 \in Nat
    BY <1>1
  <2>2. x \in D /\ Len(x) = k - 1 /\ \A i \in 1 .. k - 1 : x[i] = pdu(i)
    BY <1>12
  <2>3. block[k] = Append(x, e) /\ block[k] \in D
    BY <1>3, <1>4, <1>10, <2>2
  <2>4. x = <<>> <=> k = 1
    BY <2>1, <2>2 DEF D
  <2>5. e = pdu(k)
    BY <2>4 DEF pdu
  <2> HIDE DEF x, e
  <2>6. Len(block[k]) = k /\ block[k][k] = e /\ \A i \in 1 .. k - 1 : block[k][i] = x[i]
    BY <2>1, <2>2, <2>3 DEF D
  <2>7. \A i \in 1 .. k : i \in 1 .. k - 1 \/ i = k
    BY <2>1
  <2>8. Good(k)
    BY <2>2, <2>3, <2>5, <2>6, <2>7
  <2> QED
    BY <2>1, <2>8
<1> HIDE DEF T, Good
<1>13. Good(l)
  <2>1. \A k \in 0 .. l : k \in T
    BY <1>1, <1>11, <1>12, Throughout
  <2>2. l \in 0 .. l
    BY <1>1
  <2> QED
    BY <2>1, <2>2 DEF T
<1>14. p.pdus \in Seq(Pdus) /\ Len(p.pdus) = l /\ \A i \in 1 .. l : p.pdus[i] = pdu(i)
  BY <1>2, <1>13 DEF Good, D
<1>15. \A i \in 1 .. l : /\ p.pdus[i].fits = TRUE /\ p.pdus[i].vec = units[i].protocol
                         /\ p.pdus[i].data = units[i].data
                         /\ p.pdus[i].hdr = IF i = 1 THEN owner ELSE "same"
  <2> SUFFICES ASSUME NEW i \in 1 .. l
               PROVE  /\ p.pdus[i].fits = TRUE /\ p.pdus[i].vec = units[i].protocol
                      /\ p.pdus[i].data = units[i].data
                      /\ p.pdus[i].hdr = IF i = 1 THEN owner ELSE "same"
    OBVIOUS
  <2> DEFINE x == units[i].protocol
             y == IF i = 1 THEN owner ELSE "same"
             z == units[i].data
             e == p.pdus[i]
  <2>1. e = [vec |-> x, hdr |-> y, data |-> z, fits |-> TRUE]
    BY <1>14, Zenon DEF pdu
  <2> HIDE DEF x, y, z, e
  <2>2. e.fits = TRUE /\ e.vec = x /\ e.data = z /\ e.hdr = y
    BY <2>1
  <2> QED
    BY <2>2, Zenon DEF x, y, z, e
<1>16. \A i \in 1 .. l : p.meant[i] = [protocol |-> units[i].protocol, src |-> owner, data |-> units[i].data]
  BY <1>1, <1>2 DEF m
<1>17. p.meant \in Seq(Meanings) /\ Len(p.meant) = l
  <2>1. p.meant \in [1 .. l -> Meanings]
    BY <1>1, <1>2 DEF m, Meanings
  <2> QED
    BY <2>1, <1>1
<1>18. \A i \in 1 .. l : /\ p.meant[i].protocol = units[i].protocol /\ p.meant[i].src = owner
                         /\ p.meant[i].data = units[i].data
  <2> SUFFICES ASSUME NEW i \in 1 .. l
               PROVE  /\ p.meant[i].protocol = units[i].protocol /\ p.meant[i].src = owner
                      /\ p.meant[i].data = units[i].data
    OBVIOUS
  <2> DEFINE x == units[i].protocol
             z == units[i].data
             e == p.meant[i]
  <2>1. e = [protocol |-> x, src |-> owner, data |-> z]
    BY <1>16, Zenon
  <2> HIDE DEF x, z, e
  <2>2. e.protocol = x /\ e.src = owner /\ e.data = z
    BY <2>1
  <2> QED
    BY <2>2, Zenon DEF x, z, e
<1>19. \A i \in 1 .. l : i # 1 => Before(p.meant, i).src = owner
  <2> SUFFICES ASSUME NEW i \in 1 .. l, i # 1 PROVE Before(p.meant, i).src = owner
    OBVIOUS
  <2>1. i - 1 \in 1 .. l
    BY <1>1
  <2> QED
    BY <2>1, <1>18 DEF Before
<1>20. \A i \in 1 .. l :
           /\ p.meant[i].protocol = Inherit(p.pdus[i].vec, Before(p.meant, i).protocol)
           /\ p.meant[i].src = Inherit(p.pdus[i].hdr, Before(p.meant, i).src)
           /\ p.meant[i].data = Inherit(p.pdus[i].data, Before(p.meant, i).data)
  <2> SUFFICES ASSUME NEW i \in 1 .. l
               PROVE  /\ p.meant[i].protocol = Inherit(p.pdus[i].vec, Before(p.meant, i).protocol)
                      /\ p.meant[i].src = Inherit(p.pdus[i].hdr, Before(p.meant, i).src)
                      /\ p.meant[i].data = Inherit(p.pdus[i].data, Before(p.meant, i).data)
    OBVIOUS
  <2>1. units[i].protocol # "same" /\ units[i].data # "same" /\ owner # "same"
    BY <1>1, WireIs
  <2> QED
    BY <2>1, <1>15, <1>18, <1>19 DEF Inherit
<1>21. l \in 1 .. l
  BY <1>1
<1> HIDE DEF l, p
<1>22. WellMeant(p)
  BY <1>14, <1>15, <1>17, <1>20, <1>21 DEF WellMeant
<1> QED
  BY <1>22 DEF p

\* What is dispatched is well meant.
LEMMA PacketsAre ==
  ASSUME NEW p \in Packets, ~Over([packet |-> p], 1),
         "same" \notin {p.pdus[1].vec, p.pdus[1].hdr, p.pdus[1].data}
  PROVE  WellMeant(p)
<1>1. Len(p.pdus) # 0 /\ p.pdus[1].fits
  <2> DEFINE r == [packet |-> p]
  <2>1. r.packet = p
    OBVIOUS
  <2> HIDE DEF r
  <2>2. ~(1 > Len(p.pdus)) /\ p.pdus[1].fits
    BY <2>1 DEF Over
  <2> QED
    BY <2>2
<1>2. ASSUME NEW b \in OwnBlocks, p = Sent(b.owner, b.units) PROVE WellMeant(p)
  <2>1. b.owner \in Senders /\ b.units \in Seq(Units)
    BY WireIs
  <2>2. b.units # <<>>
    <3> SUFFICES ASSUME b.units = <<>> PROVE FALSE
      OBVIOUS
    <3> DEFINE empty == [n \in 0 .. Len(b.units) |-> <<>>]
               IsBlock(f) == f = [n \in 0 .. Len(b.units) |->
                                    IF n = 0 THEN <<>> ELSE rlp_add_pdu(f[n - 1], b.owner, b.units[n])]
               block == CHOOSE f : IsBlock(f)
    <3>1. p.pdus = block[Len(b.units)]
      <4> DEFINE P == Sent(b.owner, b.units)
      <4> HIDE DEF P
      <4>1. P.pdus = block[Len(b.units)]
        BY Zenon DEF Sent, P
      <4> QED
        BY <4>1, <1>2 DEF P
    <3>2. Len(b.units) = 0 /\ \A n \in 0 .. 0 : n = 0
      BY <3>1
    <3>3. IsBlock(empty)
      BY <3>2
    <3>4. IsBlock(block)
      BY <3>3, Zenon
    <3> HIDE DEF block
    <3>5. block[0] = <<>>
      BY <3>2, <3>4
    <3>6. p.pdus = <<>>
      BY <3>1, <3>2, <3>5
    <3> QED
      BY <3>6, <1>1
  <2> QED
    BY <1>2, <2>1, <2>2, SentIs
<1>3. ASSUME NEW q \in ForeignBlocks, p = Foreign(q) PROVE WellMeant(p)
  <2>1. q \in Seq(Pdus)
    BY WireIs
  <2>2. p.pdus = q
    <3> DEFINE P == Foreign(q)
    <3> HIDE DEF P
    <3>1. P.pdus = q
      BY DEF Foreign, P
    <3> QED
      BY <3>1, <1>3 DEF P
  <2>3. q # <<>> /\ q[1].fits /\ q[1].vec # "same" /\ q[1].hdr # "same" /\ q[1].data # "same"
    BY <1>1, <2>1, <2>2
  <2> QED
    BY <1>3, <2>1, <2>3, ForeignIs
<1> QED
  BY <1>2, <1>3 DEF Packets

\* What a listener for a protocol is to get of the first n units.
Upto(meant, protocol, n) ==
  LET its[k \in 0 .. Len(meant)] ==
        IF k = 0 THEN <<>>
        ELSE IF meant[k].protocol = protocol
             THEN Append(its[k - 1], [src |-> meant[k].src, data |-> meant[k].data])
             ELSE its[k - 1]
  IN  its[n]

\* It is what it was to get before, and the n-th unit if that is for it.
LEMMA UptoIs ==
  ASSUME NEW m \in Seq(Meanings), NEW p
  PROVE  /\ Upto(m, p, 0) = <<>>
         /\ \A n \in 1 .. Len(m) :
              Upto(m, p, n) = IF m[n].protocol = p
                              THEN Append(Upto(m, p, n - 1), [src |-> m[n].src, data |-> m[n].data])
                              ELSE Upto(m, p, n - 1)
         /\ UnitsFor(m, p) = Upto(m, p, Len(m))
<1> DEFINE l == Len(m)
           R == [src : Senders, data : Contents]
           D == Seq(R)
           round(x, k) == IF m[k].protocol = p
                          THEN Append(x, [src |-> m[k].src, data |-> m[k].data]) ELSE x
           step == [k \in 1 .. l |-> [x \in D |-> round(x, k)]]
           Its(f) == f = [k \in 0 .. l |-> IF k = 0 THEN <<>> ELSE round(f[k - 1], k)]
           its == CHOOSE f : Its(f)
<1>1. l \in Nat /\ \A k \in 1 .. l : [src |-> m[k].src, data |-> m[k].data] \in R
  <2>1. l \in Nat /\ \A k \in 1 .. l : m[k] \in Meanings
    OBVIOUS
  <2> QED
    BY <2>1 DEF Meanings
<1>2. \A n : Upto(m, p, n) = its[n]
  BY Zenon DEF Upto
<1>3. UnitsFor(m, p) = its[l]
  BY Zenon DEF UnitsFor
<1>4. \A k \in 1 .. l : \A x \in D : round(x, k) \in D
  <2> SUFFICES ASSUME NEW k \in 1 .. l, NEW x \in D PROVE round(x, k) \in D
    OBVIOUS
  <2> DEFINE e == [src |-> m[k].src, data |-> m[k].data]
  <2>1. e \in R
    BY <1>1
  <2> HIDE DEF e, R
  <2>2. Append(x, e) \in D
    BY <2>1
  <2> QED
    BY <2>2 DEF e
<1> HIDE DEF R
<1>5. step \in [1 .. l -> [D -> D]] /\ <<>> \in D
  BY <1>4
<1>6. \A k \in 1 .. l : \A x \in D : step[k][x] = round(x, k)
  OBVIOUS
<1> HIDE DEF l, D, step, round
<1>7. \A k \in 0 .. l : k # 0 => k \in 1 .. l /\ k - 1 \in 0 .. l
  BY <1>1
<1>8. \E f : Its(f)
  <2>1. PICK f \in [0 .. l -> D] : IsLoop(step, <<>>, l, f)
    BY <1>1, <1>5, LoopExists
  <2>2. \A k \in 0 .. l : k # 0 => step[k][f[k - 1]] = round(f[k - 1], k)
    BY <1>6, <1>7, <2>1
  <2>3. f = [k \in 0 .. l |-> IF k = 0 THEN <<>> ELSE step[k][f[k - 1]]]
    BY <2>1, Zenon DEF IsLoop
  <2>4. Its(f)
    BY <2>2, <2>3
  <2> QED
    BY <2>4
<1>9. Its(its)
  BY <1>8, Zenon
<1> HIDE DEF its
<1>10. its[0] = <<>> /\ \A k \in 1 .. l : its[k] = round(its[k - 1], k)
  <2>1. 0 \in 0 .. l /\ \A k \in 1 .. l : k \in 0 .. l /\ k # 0
    BY <1>1
  <2> QED
    BY <1>9, <2>1
<1> HIDE DEF Its
<1>11. \A n \in 1 .. l : Upto(m, p, n) = round(Upto(m, p, n - 1), n)
  BY <1>2, <1>10
<1> QED
  BY <1>2, <1>3, <1>10, <1>11 DEF l, round
-----------------------------------------------------------------------------
(***************************************************************************)
(* What a dispatch may come to.                                            *)
(***************************************************************************)
\* The slots of a group that the dispatch may come to: its listeners, and those that
\* were freed meanwhile and still lead on.
Trail(s, g, F) == {d \in Listeners : s.lsn[d].rxgroup = g /\ (d \in Used(s) \/ d \in F)}

\* The ranks r go down along the trail, and no successor leads past a listener that was
\* there all the time.
Ranked(s, g, T, F, r) ==
  /\ r \in [Listeners -> Nat]
  /\ T \subseteq Members(s, g)
  /\ \A d \in Trail(s, g, F) :
       s.lsn[d].next # NULL => s.lsn[d].next \in Trail(s, g, F) /\ r[s.lsn[d].next] < r[d]
  /\ \A d \in Trail(s, g, F) : \A t \in T :
       r[t] < r[d] => s.lsn[d].next # NULL /\ r[t] <= r[s.lsn[d].next]
  /\ \A d, e \in Trail(s, g, F) : r[d] = r[e] => d = e
  /\ s.grp[g].listeners # NULL => s.grp[g].listeners \in Trail(s, g, F)
  /\ \A t \in T : s.grp[g].listeners # NULL /\ r[t] <= r[s.grp[g].listeners]

\* The first slot of a set of slots is the least.
LEMMA FirstSlotLeast ==
  ASSUME NEW S \in SUBSET Nat, NEW j \in S
  PROVE  FirstSlot(S) \in S /\ FirstSlot(S) <= j
<1>1. \E i \in S : \A k \in S : i <= k
  BY Smallest
<1> QED
  BY <1>1 DEF FirstSlot

\* Listeners that were there all the time are on the trail.
LEMMA OnTrail ==
  ASSUME NEW s, NEW g, NEW T, NEW F, NEW r, Ranked(s, g, T, F, r)
  PROVE  /\ Trail(s, g, F) \subseteq Listeners /\ T \subseteq Trail(s, g, F)
         /\ Members(s, g) \subseteq Trail(s, g, F)
         /\ \A d \in Trail(s, g, F) : r[d] \in Nat
BY DEF Ranked, Trail, Members, Used

\* The trail ends.
LEMMA TrailEnds ==
  ASSUME NEW s \in TableRecords, NEW g, NEW T, NEW F, NEW r, Ranked(s, g, T, F, r),
         NEW d \in Trail(s, g, F)
  PROVE  \E q : WholeList(ListenerLinks(s), d, q)
<1> DEFINE next == ListenerLinks(s)
           K == Trail(s, g, F)
           Ends(x) == \E q : WholeList(next, x, q)
           Bad == {n \in Nat : \E x \in K : r[x] = n /\ ~Ends(x)}
<1> SUFFICES ASSUME Bad # {} PROVE FALSE
  <2>1. r[d] \in Nat
    BY OnTrail
  <2> QED
    BY <2>1
<1>1. Pool(Listeners, next) /\ \A l \in Listeners : next[l] = s.lsn[l].next
  BY LinksAre
<1> HIDE DEF next
<1>2. PICK n \in Bad : \A m \in Bad : n <= m
  BY Smallest
<1>3. PICK x \in K : r[x] = n /\ ~Ends(x)
  BY <1>2
<1>4. x \in Listeners /\ DOMAIN next = Listeners /\ next[x] = s.lsn[x].next
  BY <1>1, OnTrail DEF Pool
<1>5. CASE next[x] = NULL
  <2>1. WholeList(next, x, <<x>>)
    BY <1>4, <1>5, NullIs DEF WholeList, Chained
  <2> QED
    BY <1>3, <2>1
<1>6. CASE next[x] # NULL
  <2>1. next[x] \in K /\ r[next[x]] < r[x] /\ r[next[x]] \in Nat
    <3>1. s.lsn[x].next \in K /\ r[s.lsn[x].next] < r[x]
      BY <1>3, <1>4, <1>6 DEF Ranked
    <3>2. \A e \in K : r[e] \in Nat
      BY OnTrail
    <3> HIDE DEF K
    <3> QED
      BY <1>4, <3>1, <3>2
  <2>2. Ends(next[x])
    <3> SUFFICES ASSUME ~Ends(next[x]) PROVE FALSE
      OBVIOUS
    <3>1. r[next[x]] \in Bad
      BY <2>1
    <3>2. n <= r[next[x]] /\ n \in Nat
      BY <1>2, <3>1
    <3> QED
      BY <2>1, <3>2, <1>3
  <2>3. PICK q : WholeList(next, next[x], q)
    BY <2>2
  <2>4. WholeList(next, x, <<x>> \o q)
    BY <1>1, <1>4, <2>3, ListWithHead
  <2> QED
    BY <1>3, <2>4
<1> QED
  BY <1>5, <1>6

\* Whoever looks for one of W from a slot of the trail finds the one with the greatest
\* rank that is still ahead; one that was there all the time is not missed.
LEMMA FirstAhead ==
  ASSUME NEW s \in TableRecords, NEW g, NEW T, NEW F, NEW r, Ranked(s, g, T, F, r),
         NEW x \in Trail(s, g, F) \cup {NULL}, NEW W,
         NEW y, y = FirstOf(ListFrom(s, x), W)
  PROVE  /\ y # NULL => y \in Trail(s, g, F) /\ y \in W /\ x # NULL /\ r[y] <= r[x]
         /\ \A t \in T : t \in W /\ x # NULL /\ r[t] <= r[x] => y # NULL /\ r[t] <= r[y]
<1> DEFINE next == ListenerLinks(s)
           K == Trail(s, g, F)
           q == ListFrom(s, x)
           found == {i \in DOMAIN q : q[i] \in W}
<1>1. Pool(Listeners, next) /\ \A l \in Listeners : next[l] = s.lsn[l].next
  BY LinksAre
<1>2. q = Walk(next, x)
  BY DEF ListFrom, ListenerLinks
<1>3. y = IF found = {} THEN NULL ELSE q[FirstSlot(found)]
  BY DEF FirstOf
<1> HIDE DEF next, q
<1>4. CASE x = NULL
  <2>1. x \in Listeners \cup {0} /\ x = 0
    BY <1>4, NullIs
  <2>2. q = <<>>
    BY <1>1, <1>2, <2>1, WalkFollows DEF Follows
  <2>3. found = {}
    BY <2>2
  <2> QED
    BY <1>3, <1>4, <2>3
<1>5. CASE x # NULL
  <2> DEFINE l == Len(q)
  <2>1. x \in K /\ x \in Listeners /\ x # 0
    BY <1>5, OnTrail, NullIs
  <2>2. WholeList(next, x, q)
    <3>1. PICK p : WholeList(next, x, p)
      BY <2>1, TrailEnds DEF next
    <3>2. Walk(next, x) = p
      BY <1>1, <2>1, <3>1, ListIsWalk
    <3> QED
      BY <1>2, <3>1, <3>2
  <2>3. /\ q \in Seq(Listeners) /\ l \in Nat /\ DOMAIN q = 1 .. l
        /\ \A i \in 1 .. l : q[i] \in Listeners /\ q[i] # NULL
        /\ \A i \in 1 .. l - 1 : q[i + 1] = s.lsn[q[i]].next
    BY <1>1, <2>2, NullIs DEF WholeList, Chained, Pool
  <2>4. q # <<>>
    BY <2>1, <2>2 DEF WholeList
  <2>5. l >= 1 /\ q[1] = x /\ s.lsn[q[l]].next = NULL
    <3>1. l >= 1
      BY <2>3, <2>4
    <3> QED
      BY <1>1, <2>2, <2>3, <2>4, <3>1, NullIs DEF WholeList
  <2> HIDE DEF l
  <2>6. \A i \in 1 .. l : q[i] \in K
    <3> DEFINE S == {k \in Nat : k \in 1 .. l => q[k] \in K}
    <3>1. 0 \in S
      OBVIOUS
    <3>2. ASSUME NEW k \in 1 .. l, k - 1 \in S PROVE k \in S
      <4>1. CASE k = 1
        BY <4>1, <2>1, <2>5
      <4>2. CASE k # 1
        <5>1. k - 1 \in 1 .. l - 1 /\ k - 1 \in 1 .. l /\ (k - 1) + 1 = k /\ k \in Nat /\ k \in 1 .. l
          BY <2>3, <4>2
        <5>2. q[k - 1] \in K /\ q[k] = s.lsn[q[k - 1]].next /\ q[k] # NULL
          BY <2>3, <3>2, <5>1
        <5>3. q[k] \in K
          BY <5>2 DEF Ranked
        <5> QED
          BY <5>1, <5>3
      <4> QED
        BY <4>1, <4>2
    <3> HIDE DEF S
    <3>3. \A k \in 0 .. l : k \in S
      BY <2>3, <3>1, <3>2, Throughout
    <3> QED
      BY <2>3, <3>3 DEF S
  <2> DEFINE R == [i \in 1 .. l |-> r[q[i]]]
  <2>7. /\ \A i \in 1 .. l : R[i] = r[q[i]] /\ R[i] \in Nat
        /\ \A i \in 1 .. l - 1 : R[i + 1] < R[i]
    <3>1. \A i \in 1 .. l : R[i] = r[q[i]] /\ R[i] \in Nat
      BY <2>6, OnTrail
    <3>2. \A i \in 1 .. l - 1 : R[i + 1] < R[i]
      <4> SUFFICES ASSUME NEW i \in 1 .. l - 1 PROVE R[i + 1] < R[i]
        OBVIOUS
      <4>1. i \in 1 .. l /\ i + 1 \in 1 .. l
        BY <2>3
      <4>2. q[i] \in K /\ q[i + 1] = s.lsn[q[i]].next /\ q[i + 1] # NULL
        BY <2>3, <2>6, <4>1
      <4>3. r[q[i + 1]] < r[q[i]]
        BY <4>2 DEF Ranked
      <4> QED
        BY <3>1, <4>1, <4>3
    <3> QED
      BY <3>1, <3>2
  <2> HIDE DEF R
  <2>8. ASSUME NEW i \in 1 .. l, NEW j \in 1 .. l, i <= j PROVE R[j] <= R[i]
    <3> DEFINE S == {k \in Nat : i + k \in 1 .. l => R[i + k] <= R[i]}
    <3>1. 0 \in S
      BY <2>3, <2>7
    <3>2. ASSUME NEW k \in 1 .. l, k - 1 \in S PROVE k \in S
      <4> SUFFICES ASSUME i + k \in 1 .. l PROVE R[i + k] <= R[i]
        BY <2>3
      <4>1. i + (k - 1) \in 1 .. l - 1 /\ i + (k - 1) \in 1 .. l /\ (i + (k - 1)) + 1 = i + k
        BY <2>3
      <4>2. R[i + (k - 1)] <= R[i]
        BY <3>2, <4>1
      <4>3. R[i + k] < R[i + (k - 1)]
        BY <2>7, <4>1
      <4> QED
        BY <2>7, <4>1, <4>2, <4>3
    <3> HIDE DEF S
    <3>3. \A k \in 0 .. l : k \in S
      BY <2>3, <3>1, <3>2, Throughout
    <3>4. j - i \in 0 .. l /\ i + (j - i) = j /\ j - i \in Nat
      BY <2>3, <2>8
    <3>5. j - i \in S
      BY <3>3, <3>4
    <3> QED
      BY <3>4, <3>5 DEF S
  <2>9. found \in SUBSET Nat /\ found \subseteq 1 .. l /\ \A i \in found : q[i] \in W
    BY <2>3
  <2>10. ASSUME y # NULL PROVE y \in K /\ y \in W /\ r[y] <= r[x]
    <3>1. found # {}
      BY <1>3, <2>10
    <3> DEFINE i == FirstSlot(found)
    <3>2. i \in found /\ y = q[i]
      BY <1>3, <2>9, <3>1, FirstSlotLeast
    <3> HIDE DEF i, found
    <3>3. i \in 1 .. l /\ 1 \in 1 .. l /\ 1 <= i
      BY <2>3, <2>5, <2>9, <3>2
    <3>4. R[i] <= R[1]
      BY <2>8, <3>3
    <3> QED
      BY <2>5, <2>6, <2>7, <2>9, <3>2, <3>3, <3>4
  <2>11. ASSUME NEW t \in T, t \in W, r[t] <= r[x] PROVE y # NULL /\ r[t] <= r[y]
    <3>0. t \in K /\ r[t] \in Nat /\ t \in Listeners
      BY OnTrail
    <3>1. \E j \in 1 .. l : q[j] = t
      <4> SUFFICES ASSUME \A j \in 1 .. l : q[j] # t PROVE FALSE
        OBVIOUS
      <4> DEFINE S == {k \in Nat : k \in 1 .. l => r[t] < R[k]}
      <4>1. \A k \in 1 .. l : r[t] <= R[k] => r[t] < R[k]
        <5> SUFFICES ASSUME NEW k \in 1 .. l, r[t] <= R[k] PROVE r[t] < R[k]
          OBVIOUS
        <5>1. q[k] \in K /\ q[k] # t /\ R[k] = r[q[k]] /\ R[k] \in Nat
          BY <2>6, <2>7
        <5>2. r[t] # r[q[k]]
          BY <3>0, <5>1 DEF Ranked
        <5> QED
          BY <3>0, <5>1, <5>2
      <4>2. 0 \in S
        OBVIOUS
      <4>3. ASSUME NEW k \in 1 .. l, k - 1 \in S PROVE k \in S
        <5>1. CASE k = 1
          <6>1. r[t] <= R[k]
            BY <2>5, <2>7, <2>11, <5>1
          <6> QED
            BY <2>3, <4>1, <6>1
        <5>2. CASE k # 1
          <6>1. k - 1 \in 1 .. l - 1 /\ k - 1 \in 1 .. l /\ (k - 1) + 1 = k /\ k \in Nat
            BY <2>3, <5>2
          <6>2. r[t] < r[q[k - 1]] /\ q[k - 1] \in K
            BY <2>6, <2>7, <4>3, <6>1
          <6>3. r[t] <= r[s.lsn[q[k - 1]].next]
            BY <6>2 DEF Ranked
          <6>4. r[t] <= R[k]
            BY <2>3, <2>7, <6>1, <6>3
          <6> QED
            BY <4>1, <6>1, <6>4
        <5> QED
          BY <5>1, <5>2
      <4> HIDE DEF S
      <4>4. \A k \in 0 .. l : k \in S
        BY <2>3, <4>2, <4>3, Throughout
      <4>5. l \in 0 .. l /\ l \in 1 .. l
        BY <2>3, <2>5
      <4>6. r[t] < r[q[l]] /\ q[l] \in K
        BY <2>6, <2>7, <4>4, <4>5 DEF S
      <4>7. s.lsn[q[l]].next # NULL
        BY <4>6 DEF Ranked
      <4> QED
        BY <2>5, <4>7
    <3>2. PICK j \in 1 .. l : q[j] = t
      BY <3>1
    <3>3. j \in found
      BY <2>3, <2>11, <3>2
    <3> DEFINE i == FirstSlot(found)
    <3>4. i \in found /\ i <= j /\ y = q[i]
      BY <1>3, <2>9, <3>3, FirstSlotLeast
    <3> HIDE DEF i, found
    <3>5. i \in 1 .. l
      BY <2>9, <3>4
    <3>6. R[j] <= R[i]
      BY <2>8, <3>4, <3>5
    <3> QED
      BY <2>3, <2>7, <3>2, <3>4, <3>5, <3>6
  <2> QED
    BY <1>5, <2>10, <2>11
<1> QED
  BY <1>4, <1>5

\* A group keeps its socket, its address and where its list begins.
SameGroup(s, t, h) ==
  /\ t.grp[h].socket = s.grp[h].socket /\ t.grp[h].addr = s.grp[h].addr
  /\ t.grp[h].listeners = s.grp[h].listeners

\* No listener changes, and group h does not, unless it goes.
Quiet(s, t, h) ==
  /\ t.lsn = s.lsn
  /\ SameGroup(s, t, h) \/ (h \notin Busy(t) /\ t.grp[h].listeners = NULL)

\* First one change, then another.
LEMMA QuietTwice ==
  ASSUME NEW s, NEW t, NEW u, NEW h \in RxGroups, Quiet(s, t, h), Quiet(t, u, h)
  PROVE  Quiet(s, u, h)
BY DEF Quiet, SameGroup, Busy

\* Ranks have a bound.
LEMMA RanksBounded ==
  ASSUME NEW n \in Nat, NEW r \in [1 .. n -> Nat]
  PROVE  \E N \in Nat : \A i \in 1 .. n : r[i] <= N
<1> DEFINE Bound(k, N) == \A i \in 1 .. k : r[i] <= N
           S == {k \in Nat : k <= n => \E N \in Nat : Bound(k, N)}
<1>1. 0 \in S
  <2>1. Bound(0, 0)
    OBVIOUS
  <2> QED
    BY <2>1
<1>2. ASSUME NEW k \in 1 .. n, k - 1 \in S PROVE k \in S
  <2>1. k \in Nat /\ k - 1 \in Nat /\ r[k] \in Nat
    OBVIOUS
  <2>2. PICK N \in Nat : Bound(k - 1, N)
    BY <1>2, <2>1
  <2>3. PICK M \in Nat : N <= M /\ r[k] <= M
    <3>1. N + r[k] \in Nat /\ N <= N + r[k] /\ r[k] <= N + r[k]
      BY <2>1
    <3> QED
      BY <3>1
  <2>4. \A i \in 1 .. k : i = k \/ i \in 1 .. k - 1
    BY <2>1
  <2>5. \A i \in 1 .. k : r[i] \in Nat
    OBVIOUS
  <2>6. Bound(k, M)
    BY <2>2, <2>3, <2>4, <2>5
  <2> QED
    BY <2>1, <2>6
<1> HIDE DEF S
<1>3. n \in S
  <2>1. \A k \in 0 .. n : k \in S
    BY <1>1, <1>2, Throughout
  <2> QED
    BY <2>1
<1> QED
  BY <1>3 DEF S

\* Ranks stay right when nothing of the trail changes.
LEMMA RankedQuiet ==
  ASSUME NEW s, NEW g \in RxGroups, NEW T, NEW F, NEW r, Ranked(s, g, T, F, r),
         NEW t, Sound(t), Quiet(s, t, g),
         NEW F2, \A l \in Listeners : l \in F2 <=> l \in F
  PROVE  /\ Ranked(t, g, T, F2, r) /\ Trail(t, g, F2) = Trail(s, g, F)
         /\ g \notin Busy(t) => T = {}
<1>1. t.lsn = s.lsn /\ Used(t) = Used(s) /\ Members(t, g) = Members(s, g)
  BY DEF Quiet, Used, Members
<1>2. Trail(t, g, F2) = Trail(s, g, F)
  BY <1>1 DEF Trail
<1>3. g \notin Busy(t) => T = {}
  <2>1. \A l \in Used(t) : t.lsn[l].rxgroup \in Busy(t)
    BY DEF Sound, ListsOK
  <2>2. T \subseteq Members(t, g)
    BY <1>1 DEF Ranked
  <2> QED
    BY <2>1, <2>2 DEF Members
<1>4. /\ t.grp[g].listeners # NULL => t.grp[g].listeners \in Trail(s, g, F)
      /\ \A l \in T : t.grp[g].listeners # NULL /\ r[l] <= r[t.grp[g].listeners]
  BY <1>3 DEF Ranked, Quiet, SameGroup
<1> QED
  BY <1>1, <1>2, <1>3, <1>4 DEF Ranked

\* The trail in t is that in s, and maybe a listener more.
Longer(s, t, g, T, F, r) ==
  /\ \E r2 : /\ Ranked(t, g, T, F, r2)
             /\ \A d \in Trail(s, g, F) : r2[d] = r[d]
  /\ Trail(s, g, F) \subseteq Trail(t, g, F)
  /\ \A d \in Trail(s, g, F) : t.lsn[d] = s.lsn[d]

\* A new listener is before the others, so its rank is above theirs.
LEMMA RankedNew ==
  ASSUME NEW s \in TableRecords, NEW g \in RxGroups, NEW T, NEW F, NEW r, Ranked(s, g, T, F, r),
         NEW i \in RxGroups, NEW p, p # "none", NEW l \in Listeners, l \notin Used(s), l \notin F,
         NEW t, NewListener(s, t, l, i, p)
  PROVE  Longer(s, t, g, T, F, r)
<1> SUFFICES /\ \E r2 : /\ Ranked(t, g, T, F, r2)
                        /\ \A d \in Trail(s, g, F) : r2[d] = r[d]
             /\ Trail(s, g, F) \subseteq Trail(t, g, F)
             /\ \A d \in Trail(s, g, F) : t.lsn[d] = s.lsn[d]
  BY DEF Longer
<1> DEFINE K == Trail(s, g, F)
<1>1. /\ t.lsn[l].protocol = p /\ t.lsn[l].rxgroup = i /\ t.lsn[l].next = s.grp[i].listeners
      /\ \A d \in Listeners \ {l} : t.lsn[d] = s.lsn[d]
      /\ \A h \in RxGroups : t.grp[h].listeners = IF h = i THEN l ELSE s.grp[h].listeners
  BY DEF NewListener
<1>2. l \notin K /\ K \subseteq Listeners /\ \A d \in K : t.lsn[d] = s.lsn[d] /\ d # l
  <2>1. l \notin K /\ K \subseteq Listeners
    BY DEF Trail
  <2> QED
    BY <1>1, <2>1
<1>3. Used(t) = Used(s) \cup {l}
  BY <1>1 DEF Used
<1>4. /\ r \in [Listeners -> Nat] /\ T \subseteq K /\ \A d \in K : r[d] \in Nat
      /\ T \subseteq Members(s, g)
  BY OnTrail DEF Ranked
<1>5. T \subseteq Members(t, g)
  <2>1. \A d \in Members(s, g) : d \in Listeners /\ d # l /\ d \in Used(t)
    BY <1>3 DEF Members, Used
  <2> QED
    BY <1>1, <1>4, <2>1 DEF Members
<1>6. CASE i # g
  <2>1. Trail(t, g, F) = K
    <3>1. \A d \in Listeners : d \in Trail(t, g, F) <=> d \in K
      <4> SUFFICES ASSUME NEW d \in Listeners PROVE d \in Trail(t, g, F) <=> d \in K
        OBVIOUS
      <4>1. CASE d = l
        BY <1>1, <1>2, <1>6, <4>1 DEF Trail
      <4>2. CASE d # l
        BY <1>1, <1>3, <4>2 DEF Trail
      <4> QED
        BY <4>1, <4>2
    <3> QED
      BY <3>1 DEF Trail
  <2>2. t.grp[g].listeners = s.grp[g].listeners
    BY <1>1, <1>6
  <2>3. Ranked(t, g, T, F, r)
    BY <1>2, <1>5, <2>1, <2>2 DEF Ranked
  <2> QED
    BY <1>2, <2>1, <2>3
<1>7. CASE i = g
  <2>1. Trail(t, g, F) = K \cup {l}
    <3>1. \A d \in Listeners : d \in Trail(t, g, F) <=> d \in K \/ d = l
      <4> SUFFICES ASSUME NEW d \in Listeners PROVE d \in Trail(t, g, F) <=> d \in K \/ d = l
        OBVIOUS
      <4>1. CASE d = l
        BY <1>1, <1>3, <1>7, <4>1 DEF Trail
      <4>2. CASE d # l
        BY <1>1, <1>3, <4>2 DEF Trail
      <4> QED
        BY <4>1, <4>2
    <3>2. Trail(t, g, F) \subseteq Listeners
      BY DEF Trail
    <3> QED
      BY <1>2, <3>1, <3>2
  <2>2. PICK N \in Nat : \A d \in Listeners : r[d] <= N
    BY <1>4, Sizes, RanksBounded DEF Listeners
  <2> DEFINE r2 == [r EXCEPT ![l] = N + 1]
  <2>3. /\ r2 \in [Listeners -> Nat] /\ r2[l] = N + 1 /\ r2[l] \in Nat
        /\ \A d \in K : r2[d] = r[d] /\ r2[d] \in Nat /\ r2[d] < r2[l]
    <3>1. N + 1 \in Nat
      BY <2>2
    <3>2. r2 \in [Listeners -> Nat] /\ r2[l] = N + 1 /\ \A d \in K : r2[d] = r[d]
      BY <1>2, <1>4, <3>1
    <3> HIDE DEF r2
    <3>3. \A d \in K : r[d] <= N /\ r[d] \in Nat
      BY <1>2, <1>4, <2>2
    <3> QED
      BY <2>2, <3>1, <3>2, <3>3
  <2> HIDE DEF r2, K
  <2>4. t.grp[g].listeners = l /\ t.lsn[l].next = s.grp[g].listeners /\ l # NULL
    BY <1>1, <1>7, NullIs
  <2>5. /\ \A d \in K : s.lsn[d].next # NULL => s.lsn[d].next \in K /\ r[s.lsn[d].next] < r[d]
        /\ \A d \in K : \A e \in T : r[e] < r[d] => s.lsn[d].next # NULL /\ r[e] <= r[s.lsn[d].next]
        /\ \A d, e \in K : r[d] = r[e] => d = e
        /\ s.grp[g].listeners # NULL => s.grp[g].listeners \in K
        /\ \A e \in T : s.grp[g].listeners # NULL /\ r[e] <= r[s.grp[g].listeners]
    BY DEF Ranked, K
  <2>6. ASSUME NEW d \in K \cup {l}, t.lsn[d].next # NULL
        PROVE  t.lsn[d].next \in K \cup {l} /\ r2[t.lsn[d].next] < r2[d]
    <3>1. CASE d = l
      BY <2>3, <2>4, <2>5, <2>6, <3>1
    <3>2. CASE d # l
      BY <1>2, <2>3, <2>5, <2>6, <3>2
    <3> QED
      BY <3>1, <3>2
  <2>7. ASSUME NEW d \in K \cup {l}, NEW e \in T, r2[e] < r2[d]
        PROVE  t.lsn[d].next # NULL /\ r2[e] <= r2[t.lsn[d].next]
    <3>0. e \in K /\ r2[e] = r[e]
      BY <1>4, <2>3
    <3>1. CASE d = l
      BY <2>3, <2>4, <2>5, <3>0, <3>1
    <3>2. CASE d # l
      <4>1. d \in K /\ t.lsn[d] = s.lsn[d] /\ r2[d] = r[d]
        BY <1>2, <2>3, <3>2
      <4>2. s.lsn[d].next # NULL /\ r[e] <= r[s.lsn[d].next]
        BY <2>5, <2>7, <3>0, <4>1
      <4> QED
        BY <2>3, <2>5, <3>0, <4>1, <4>2
    <3> QED
      BY <3>1, <3>2
  <2>8. \A d, e \in K \cup {l} : r2[d] = r2[e] => d = e
    <3> SUFFICES ASSUME NEW d \in K \cup {l}, NEW e \in K \cup {l}, r2[d] = r2[e] PROVE d = e
      OBVIOUS
    <3>1. \A a \in K : r2[a] # r2[l]
      BY <2>3
    <3>2. CASE d \in K /\ e \in K
      BY <2>3, <2>5, <3>2
    <3>3. CASE d = l \/ e = l
      BY <3>1, <3>3
    <3> QED
      BY <3>2, <3>3
  <2>9. \A e \in T : r2[e] <= r2[l]
    BY <1>4, <2>3
  <2>10. Ranked(t, g, T, F, r2)
    BY <1>5, <2>1, <2>3, <2>4, <2>6, <2>7, <2>8, <2>9 DEF Ranked
  <2> QED
    BY <1>2, <2>1, <2>3, <2>10 DEF K
<1> QED
  BY <1>6, <1>7

\* A listener that goes stays on the trail, if whoever is looking for the next of it
\* still sees its group and its successor.
LEMMA RankedDrop ==
  ASSUME NEW s, Sound(s), NEW g \in RxGroups, NEW T, NEW F, NEW r, Ranked(s, g, T, F, r),
         NEW l \in Used(s), NEW t, DropListener(s, t, l)
  PROVE  /\ Ranked(t, g, T \ {l}, F \cup {l}, r)
         /\ Trail(t, g, F \cup {l}) = Trail(s, g, F)
<1> DEFINE K == Trail(s, g, F)
           h == s.lsn[l].rxgroup
<1>1. /\ l \in Listeners /\ s \in TableRecords
      /\ \A i \in Listeners : /\ t.lsn[i].protocol = IF i = l THEN "none" ELSE s.lsn[i].protocol
                              /\ t.lsn[i].rxgroup = s.lsn[i].rxgroup
  BY DEF DropListener, Used, Sound
<1>2. Used(t) = Used(s) \ {l}
  BY <1>1 DEF Used
<1>3. Trail(t, g, F \cup {l}) = K
  BY <1>1, <1>2 DEF Trail, Used
<1>4. Members(t, g) = Members(s, g) \ {l}
  BY <1>1, <1>2 DEF Members, Used
<1>5. /\ r \in [Listeners -> Nat] /\ T \subseteq Members(s, g)
      /\ \A d \in K : s.lsn[d].next # NULL => s.lsn[d].next \in K /\ r[s.lsn[d].next] < r[d]
      /\ \A d \in K : \A e \in T : r[e] < r[d] => s.lsn[d].next # NULL /\ r[e] <= r[s.lsn[d].next]
      /\ \A d, e \in K : r[d] = r[e] => d = e
      /\ s.grp[g].listeners # NULL => s.grp[g].listeners \in K
      /\ \A e \in T : s.grp[g].listeners # NULL /\ r[e] <= r[s.grp[g].listeners]
  BY DEF Ranked
<1>6. T \subseteq K /\ K \subseteq Listeners /\ \A d \in K : r[d] \in Nat
  BY OnTrail
<1>7. h = g => l \in K
  BY <1>1 DEF Trail
<1>8. T \ {l} \subseteq Members(t, g)
  BY <1>4, <1>5
<1>9. \A b \in Members(s, h) : h # g => b \notin K
  BY DEF Members, Trail
<1> HIDE DEF K, h
<1>10. h = g => \A e \in T \ {l} : r[e] # r[l]
  BY <1>5, <1>6, <1>7
<1>14. ASSUME \A d \in K : t.lsn[d].next # NULL => t.lsn[d].next \in K /\ r[t.lsn[d].next] < r[d],
              \A d \in K : \A e \in T \ {l} :
                r[e] < r[d] => t.lsn[d].next # NULL /\ r[e] <= r[t.lsn[d].next],
              t.grp[g].listeners # NULL => t.grp[g].listeners \in K,
              \A e \in T \ {l} : t.grp[g].listeners # NULL /\ r[e] <= r[t.grp[g].listeners]
       PROVE  Ranked(t, g, T \ {l}, F \cup {l}, r)
  <2> DEFINE T2 == T \ {l}
             F2 == F \cup {l}
  <2>1. /\ \A d \in K : \A e \in T2 :
                r[e] < r[d] => t.lsn[d].next # NULL /\ r[e] <= r[t.lsn[d].next]
        /\ \A e \in T2 : t.grp[g].listeners # NULL /\ r[e] <= r[t.grp[g].listeners]
        /\ T2 \subseteq Members(t, g) /\ Trail(t, g, F2) = K
    BY <1>3, <1>8, <1>14
  <2> HIDE DEF T2, F2
  <2>2. Ranked(t, g, T2, F2, r)
    BY <1>5, <1>14, <2>1 DEF Ranked
  <2> QED
    BY <2>2 DEF T2, F2
<1>11. ASSUME s.grp[h].listeners = l,
              \A i \in RxGroups : t.grp[i].listeners = IF i = h THEN s.lsn[l].next ELSE s.grp[i].listeners,
              \A i \in Listeners : t.lsn[i].next = s.lsn[i].next
       PROVE  Ranked(t, g, T \ {l}, F \cup {l}, r)
  <2>1. /\ \A d \in K : t.lsn[d].next # NULL => t.lsn[d].next \in K /\ r[t.lsn[d].next] < r[d]
        /\ \A d \in K : \A e \in T \ {l} :
             r[e] < r[d] => t.lsn[d].next # NULL /\ r[e] <= r[t.lsn[d].next]
    BY <1>5, <1>6, <1>11
  <2>2. CASE h = g
    <3>1. t.grp[g].listeners = s.lsn[l].next /\ s.grp[g].listeners = l /\ l \in K
      BY <1>7, <1>11, <2>2
    <3>2. \A e \in T \ {l} : r[e] < r[l]
      BY <1>5, <1>6, <1>10, <2>2, <3>1
    <3>3. /\ t.grp[g].listeners # NULL => t.grp[g].listeners \in K
          /\ \A e \in T \ {l} : t.grp[g].listeners # NULL /\ r[e] <= r[t.grp[g].listeners]
      BY <1>5, <3>1, <3>2
    <3> QED
      BY <1>14, <2>1, <3>3
  <2>3. CASE h # g
    <3>1. t.grp[g].listeners = s.grp[g].listeners
      BY <1>11, <2>3
    <3>2. /\ t.grp[g].listeners # NULL => t.grp[g].listeners \in K
          /\ \A e \in T \ {l} : t.grp[g].listeners # NULL /\ r[e] <= r[t.grp[g].listeners]
      BY <1>5, <3>1
    <3> QED
      BY <1>14, <2>1, <3>2
  <2> QED
    BY <2>2, <2>3
<1>12. ASSUME NEW b \in Members(s, h), s.lsn[b].next = l,
              \A i \in RxGroups : t.grp[i].listeners = s.grp[i].listeners,
              \A i \in Listeners : t.lsn[i].next = IF i = b THEN s.lsn[l].next ELSE s.lsn[i].next
       PROVE  Ranked(t, g, T \ {l}, F \cup {l}, r)
  <2>1. t.grp[g].listeners = s.grp[g].listeners
    BY <1>12
  <2>2. CASE h # g
    <3>1. \A d \in K : t.lsn[d].next = s.lsn[d].next
      BY <1>6, <1>9, <1>12, <2>2
    <3> QED
      BY <1>3, <1>5, <1>8, <2>1, <3>1 DEF Ranked
  <2>3. CASE h = g
    <3>1. b \in K /\ l \in K /\ r[l] < r[b] /\ l # NULL
      <4>1. b \in K
        BY <2>3 DEF K, Members, Trail, Used
      <4> QED
        BY <1>1, <1>5, <1>7, <1>12, <2>3, <4>1, NullIs
    <3>2. ASSUME NEW d \in K, t.lsn[d].next # NULL PROVE t.lsn[d].next \in K /\ r[t.lsn[d].next] < r[d]
      <4>1. CASE d = b
        <5>1. t.lsn[d].next = s.lsn[l].next
          BY <1>6, <1>12, <4>1
        <5>2. s.lsn[l].next \in K /\ r[s.lsn[l].next] < r[l]
          BY <1>5, <3>1, <3>2, <5>1
        <5> QED
          BY <1>6, <3>1, <4>1, <5>1, <5>2
      <4>2. CASE d # b
        BY <1>5, <1>6, <1>12, <3>2, <4>2
      <4> QED
        BY <4>1, <4>2
    <3>3. ASSUME NEW d \in K, NEW e \in T \ {l}, r[e] < r[d]
          PROVE  t.lsn[d].next # NULL /\ r[e] <= r[t.lsn[d].next]
      <4>1. CASE d = b
        <5>1. t.lsn[d].next = s.lsn[l].next
          BY <1>6, <1>12, <4>1
        <5>2. r[e] <= r[l]
          BY <1>5, <1>12, <3>3, <4>1
        <5>3. r[e] < r[l]
          BY <1>6, <1>10, <2>3, <3>1, <5>2
        <5> QED
          BY <1>5, <3>1, <5>1, <5>3
      <4>2. CASE d # b
        BY <1>5, <1>6, <1>12, <3>3, <4>2
      <4> QED
        BY <4>1, <4>2
    <3> QED
      BY <1>5, <1>14, <2>1, <3>2, <3>3
  <2> QED
    BY <2>2, <2>3
<1>13. Ranked(t, g, T \ {l}, F \cup {l}, r)
  BY <1>11, <1>12 DEF DropListener, h
<1> QED
  BY <1>3, <1>13 DEF K

\* Group h comes, for nobody yet.
Opened(s, t, h) ==
  t.lsn = s.lsn /\ h \in Busy(t) /\ h \notin Busy(s) /\ t.grp[h].listeners = NULL

\* What rlp_open_rxgroup does to each group.
LEMMA OpenTables ==
  ASSUME NEW m, Whole(m), EmptyBut(m.s, {}), NEW k \in Sockets, m.s.nsk[k].open,
         NEW addr \in Addresses, NEW ok \in BOOLEAN, NEW h \in RxGroups
  PROVE  LET r == rlp_open_rxgroup(m, k, addr, ok)
         IN  Quiet(m.s, r.m.s, h) \/ (h = r.g /\ Opened(m.s, r.m.s, h))
<1> DEFINE a == GroupAddr(addr)
           found == rlpm_find_rxgroup(m.s, k, a)
           new == rlpm_new_rxgroup(m.s, k, a)
           n == [m EXCEPT !.s = new.s]
           r == rlp_open_rxgroup(m, k, addr, ok)
<1> SUFFICES Quiet(m.s, r.m.s, h) \/ (h = r.g /\ Opened(m.s, r.m.s, h))
  OBVIOUS
<1>1. /\ a \in Groups \cup {UNICAST, "illegal"} /\ (a # "illegal" => a \in Groups \cup {UNICAST})
      /\ "illegal" \notin Groups /\ UNICAST # "illegal" /\ UNICAST \notin Groups
  BY AddrIs
<1>2. r = CASE a = "illegal" -> [g |-> NULL, m |-> m]
            [] a # "illegal" /\ found # NULL -> [g |-> found, m |-> m]
            [] a # "illegal" /\ found = NULL /\ new.g = NULL -> [g |-> NULL, m |-> m]
            [] a = UNICAST /\ found = NULL /\ new.g # NULL -> [g |-> new.g, m |-> n]
            [] a \in Groups /\ found = NULL /\ new.g # NULL /\ ok ->
                 [g |-> new.g, m |-> JoinGroup(n, k, a)]
            [] a \in Groups /\ found = NULL /\ new.g # NULL /\ ~ok ->
                 [g |-> NULL, m |-> [n EXCEPT !.s = rlpm_free_rxgroup(n.s, new.g)]]
  BY DEF rlp_open_rxgroup
<1> HIDE DEF a, r
<1>3. /\ Triple(m) /\ Sound(m.s) /\ m.s \in TableRecords /\ m.kernel \cap m.refused = {}
      /\ m.kernel \cup m.refused = Memberships(m.s)
  BY DEF Whole, KernelOK, Sound
<1>4. found = NULL => \A i \in Busy(m.s) : m.s.grp[i].socket # k \/ m.s.grp[i].addr # a
  BY <1>3, FindGroup
<1>5. a # "illegal" /\ new.g # NULL =>
        new.g \in RxGroups \ Busy(m.s) /\ NewGroup(m.s, new.s, new.g, k, a)
  BY <1>1, <1>3, NewGroupIs
<1> HIDE DEF found, new
<1>6. CASE a = "illegal" \/ found # NULL \/ new.g = NULL
  <2>1. \/ r = [g |-> NULL, m |-> m]
        \/ found # NULL /\ r = [g |-> found, m |-> m]
    BY <1>2, <1>6, <1>1, Zenon
  <2>2. r.m = m
    BY <2>1
  <2> QED
    BY <2>2 DEF Quiet, SameGroup
<1>7. CASE a # "illegal" /\ found = NULL /\ new.g # NULL
  <2> DEFINE s == new.s
             g == new.g
  <2>1. \A i \in Busy(m.s) : m.s.grp[i].socket # k \/ m.s.grp[i].addr # a
    BY <1>4, <1>7
  <2>2. a \in Groups \cup {UNICAST} /\ g \in RxGroups /\ g \notin Busy(m.s)
        /\ NewGroup(m.s, s, g, k, a)
    BY <1>1, <1>5, <1>7
  <2> HIDE DEF s, g
  <2>3. /\ Sound(s) /\ Busy(s) = Busy(m.s) \cup {g} /\ Members(s, g) = {}
        /\ Memberships(s) = Memberships(m.s) \cup (IF a \in Groups THEN {<<k, a>>} ELSE {})
    BY <2>1, <2>2, <1>3, NewGroupSound
  <2>4. /\ s.lsn = m.s.lsn /\ s.grp[g].listeners = NULL /\ \A i \in RxGroups \ {g} : s.grp[i] = m.s.grp[i]
        /\ s.grp[g].socket = k /\ s.grp[g].addr = a
    BY <2>2 DEF NewGroup
  <2>5. g \in Busy(s) /\ g # NULL
    BY <2>2, <2>3, NullIs
  <2>6. <<k, a>> \notin Memberships(m.s)
    BY <2>1 DEF Memberships
  <2>7. n = [s |-> s, kernel |-> m.kernel, refused |-> m.refused]
    BY <1>3, TripleWith DEF s
  <2>8. Triple(n) /\ n.s = s /\ n.kernel = m.kernel /\ n.refused = m.refused
    BY <2>7 DEF Triple
  <2>9. new.g = g /\ g # NULL
    BY <1>7 DEF g
  <2>10. Quiet(m.s, s, h) \/ (h = g /\ Opened(m.s, s, h))
    BY <2>2, <2>4, <2>5 DEF Quiet, SameGroup, Opened
  <2> HIDE DEF n
  <2>11. CASE a = UNICAST
    <3>1. r = [g |-> g, m |-> n]
      BY <1>2, <1>1, <1>7, <2>9, <2>11, Zenon
    <3>2. r.g = g /\ r.m = n
      BY <3>1
    <3> QED
      BY <3>2, <2>8, <2>10
  <2>12. CASE a \in Groups /\ ok
    <3> DEFINE j == JoinGroup(n, k, a)
    <3>1. r = [g |-> g, m |-> j]
      <4>1. a # UNICAST
        BY <2>12, <1>1
      <4> QED
        BY <1>2, <4>1, <1>7, <2>9, <2>12, Zenon
    <3>2. j.s = s
      BY <2>6, <2>8, <1>3, JoinIs
    <3> HIDE DEF j
    <3>3. r.g = g /\ r.m = j
      BY <3>1
    <3> QED
      BY <3>2, <3>3, <2>10
  <2>13. CASE a \in Groups /\ ~ok
    <3> DEFINE t == rlpm_free_rxgroup(s, g)
               f == [n EXCEPT !.s = t]
    <3>1. r = [g |-> NULL, m |-> f]
      <4>1. a # UNICAST
        BY <2>13, <1>1
      <4>2. r = [g |-> NULL, m |-> [n EXCEPT !.s = rlpm_free_rxgroup(n.s, new.g)]]
        BY <1>2, <4>1, <1>7, <2>13, Zenon
      <4> QED
        BY <4>2, <2>8, <2>9
    <3>2. DropGroup(s, t, g)
      BY <2>3, <2>5, DropGroupIs
    <3> HIDE DEF t
    <3>3. f = [s |-> t, kernel |-> n.kernel, refused |-> n.refused]
      BY <2>8, TripleWith
    <3> HIDE DEF f
    <3>4. r.m = f /\ f.s = t
      BY <3>1, <3>3
    <3>5. Busy(t) = Busy(s) \ {g} /\ t.grp[g].listeners = NULL
      BY <3>2, <2>3, <2>4, <2>5, DropGroupSound
    <3>6. t.lsn = s.lsn /\ \A i \in RxGroups \ {g} : SameGroup(s, t, i)
      BY <3>2 DEF DropGroup, SameGroup
    <3>7. Quiet(m.s, t, h)
      BY <3>5, <3>6, <2>4 DEF Quiet, SameGroup
    <3> QED
      BY <3>4, <3>7
  <2> QED
    BY <2>2, <2>11, <2>12, <2>13
<1> QED
  BY <1>6, <1>7

\* What rlp_close_rxgroup does to each group.
LEMMA CloseTables ==
  ASSUME NEW m, Whole(m), NEW g \in Busy(m.s), EmptyBut(m.s, {g}), NEW h \in RxGroups
  PROVE  Quiet(m.s, rlp_close_rxgroup(m, m.s.grp[g].socket, g).s, h)
<1> DEFINE k == m.s.grp[g].socket
           a == m.s.grp[g].addr
           r == rlp_close_rxgroup(m, k, g)
           n == IF a = UNICAST THEN m ELSE LeaveGroup(m, k, a)
           t == rlpm_free_rxgroup(n.s, g)
<1>1. Triple(m) /\ Sound(m.s) /\ m.s \in TableRecords
  BY DEF Whole, Sound
<1>2. CASE m.s.grp[g].listeners # NULL
  <2>1. r = m
    BY <1>2 DEF rlp_close_rxgroup
  <2> QED
    BY <2>1 DEF Quiet, SameGroup
<1>3. CASE m.s.grp[g].listeners = NULL
  <2>1. r = [n EXCEPT !.s = t]
    BY <1>3 DEF rlp_close_rxgroup
  <2>2. Triple(n) /\ n.s = m.s
    <3>1. CASE a = UNICAST
      BY <3>1, <1>1
    <3>2. CASE a # UNICAST
      <4> HIDE DEF a, k
      <4> QED
        BY <3>2, <1>1, LeaveIs
    <3> QED
      BY <3>1, <3>2
  <2> HIDE DEF n
  <2>3. DropGroup(m.s, t, g)
    BY <2>2, <1>1, DropGroupIs
  <2> HIDE DEF t
  <2> HIDE DEF r
  <2>4. r = [s |-> t, kernel |-> n.kernel, refused |-> n.refused]
    BY <2>1, <2>2, TripleWith
  <2>5. r.s = t
    BY <2>4
  <2>6. t.lsn = m.s.lsn /\ \A i \in RxGroups \ {g} : SameGroup(m.s, t, i)
    BY <2>3 DEF DropGroup, SameGroup
  <2>7. g \notin Busy(t) /\ t.grp[g].listeners = NULL
    BY <2>3, <1>3 DEF DropGroup, Busy
  <2>8. Quiet(m.s, t, h)
    BY <2>6, <2>7 DEF Quiet
  <2> QED
    BY <2>5, <2>8 DEF r
<1> QED
  BY <1>2, <1>3

\* A listener l of group i and of protocol p, where the group may be new.
Added(s, t, l, i, p) ==
  \E u : /\ Sound(u) /\ Used(u) = Used(s) /\ i \in Busy(u) /\ l \in Listeners /\ l \notin Used(u)
         /\ NewListener(u, t, l, i, p)
         /\ \A h \in RxGroups : Quiet(s, u, h) \/ (h = i /\ Opened(s, u, h))

\* What rlp_add_listener does to the tables.
LEMMA AddTables ==
  ASSUME NEW m, Whole(m), EmptyBut(m.s, {}), NEW k \in Sockets, m.s.nsk[k].open,
         NEW addr \in Addresses, NEW p \in Protocols, NEW ok \in BOOLEAN
  PROVE  LET r == rlp_add_listener(m, k, addr, p, ok)
         IN  /\ r.l = NULL => \A h \in RxGroups : Quiet(m.s, r.m.s, h)
             /\ r.l # NULL => \E i \in RxGroups : Added(m.s, r.m.s, r.l, i, p)
<1> DEFINE group == rlp_open_rxgroup(m, k, addr, ok)
           g == group.g
           s == group.m.s
           new == rlpm_new_listener(s, g, p)
           r == rlp_add_listener(m, k, addr, p, ok)
           Goal == /\ r.l = NULL => \A h \in RxGroups : Quiet(m.s, r.m.s, h)
                   /\ r.l # NULL => \E i \in RxGroups : Added(m.s, r.m.s, r.l, i, p)
<1> SUFFICES Goal
  OBVIOUS
<1>1. /\ Whole(group.m) /\ Used(s) = Used(m.s) /\ s.nsk = m.s.nsk
      /\ g # NULL => /\ g \in Busy(s) /\ EmptyBut(s, {g}) /\ s.grp[g].socket = k
  BY OpenGroup
<1>2. \A h \in RxGroups : Quiet(m.s, s, h) \/ (h = g /\ Opened(m.s, s, h))
  BY OpenTables
<1>3. /\ g = NULL => r = [l |-> NULL, m |-> group.m]
      /\ g # NULL /\ new.l = NULL => r = [l |-> NULL, m |-> rlp_close_rxgroup(group.m, k, g)]
      /\ g # NULL /\ new.l # NULL => r = [l |-> new.l, m |-> [group.m EXCEPT !.s = new.s]]
  BY DEF rlp_add_listener
<1> HIDE DEF group, r
<1>4. CASE g = NULL
  <2>1. r.l = NULL /\ r.m = group.m
    BY <1>3, <1>4
  <2>2. \A h \in RxGroups : h # g
    BY <1>4, NullIs
  <2> QED
    BY <2>1, <2>2, <1>2
<1>5. CASE g # NULL /\ new.l = NULL
  <2> DEFINE c == rlp_close_rxgroup(group.m, k, g)
  <2>1. Closed(group.m, c, g) /\ \A h \in RxGroups : Quiet(s, c.s, h)
    BY <1>1, <1>5, CloseGroup, CloseTables
  <2>2. r = [l |-> NULL, m |-> c]
    BY <1>3, <1>5
  <2> HIDE DEF c
  <2>3. r.l = NULL /\ r.m = c
    BY <2>2
  <2>4. ASSUME NEW h \in RxGroups PROVE Quiet(m.s, c.s, h)
    <3>1. CASE Quiet(m.s, s, h)
      BY <3>1, <2>1, QuietTwice
    <3>2. CASE h = g /\ Opened(m.s, s, h)
      <4>1. c.s.lsn = s.lsn /\ s.lsn = m.s.lsn /\ s.grp[h].listeners = NULL
        BY <2>1, <3>2 DEF Closed, Opened
      <4>2. c.s.grp[h].listeners = NULL
        BY <2>1, <4>1 DEF Quiet, SameGroup
      <4>3. h \notin Busy(c.s)
        BY <2>1, <3>2, <4>2 DEF Closed
      <4> QED
        BY <4>1, <4>2, <4>3 DEF Quiet
    <3> QED
      BY <3>1, <3>2, <1>2
  <2> QED
    BY <2>3, <2>4
<1>6. CASE g # NULL /\ new.l # NULL
  <2>1. Sound(s) /\ s \in TableRecords /\ g \in Busy(s) /\ g \in RxGroups /\ Triple(group.m)
    BY <1>1, <1>6 DEF Whole, Sound, Busy
  <2>2. new.l \in Listeners /\ new.l \notin Used(s) /\ NewListener(s, new.s, new.l, g, p)
    BY <2>1, <1>6, NewListenerIs
  <2> HIDE DEF new
  <2> DEFINE t == new.s
             n == [group.m EXCEPT !.s = t]
  <2>3. r = [l |-> new.l, m |-> n]
    BY <1>3, <1>6
  <2> HIDE DEF t
  <2>4. n = [s |-> t, kernel |-> group.m.kernel, refused |-> group.m.refused]
    BY <2>1, TripleWith
  <2> HIDE DEF n
  <2>5. r.l = new.l /\ r.m.s = new.s
    BY <2>3, <2>4 DEF t
  <2>6. Added(m.s, new.s, new.l, g, p)
    <3> HIDE DEF s, g
    <3> QED
      BY <1>1, <1>2, <2>1, <2>2 DEF Added
  <2> QED
    BY <2>1, <2>5, <2>6, <1>6
<1> QED
  BY <1>4, <1>5, <1>6

\* A listener goes, and perhaps its group.
Dropped(s, t, l) ==
  \E u : Sound(u) /\ DropListener(s, u, l) /\ \A h \in RxGroups : Quiet(u, t, h)

\* What rlp_del_listener does to the tables.
LEMMA DelTables ==
  ASSUME NEW m, Whole(m), EmptyBut(m.s, {}), NEW l \in DOMAIN Held(m.s),
         NEW k, k = Held(m.s)[l].socket
  PROVE  Dropped(m.s, rlp_del_listener(m, k, l).s, l)
<1> DEFINE g == m.s.lsn[l].rxgroup
           t == rlpm_free_listener(m.s, l)
           f == [m EXCEPT !.s = t]
           r == rlp_del_listener(m, k, l)
<1>1. /\ Triple(m) /\ Sound(m.s) /\ m.s \in TableRecords /\ KernelOK(m)
      /\ DOMAIN Held(m.s) = Used(m.s) /\ l \in Used(m.s) /\ l \in Listeners
  BY DEF Whole, Sound, Held, Used
<1>2. k = m.s.grp[g].socket
  BY <1>1 DEF Held
<1>3. r = rlp_close_rxgroup(f, k, g)
  BY DEF rlp_del_listener
<1>4. DropListener(m.s, t, l)
  BY <1>1, DropListenerIs
<1> HIDE DEF t, r
<1>5. /\ Sound(t) /\ Busy(t) = Busy(m.s) /\ Memberships(t) = Memberships(m.s)
      /\ g \in Busy(m.s)
      /\ \A h : Members(t, h) = Members(m.s, h) \ {l}
      /\ \A i \in RxGroups : t.grp[i].socket = m.s.grp[i].socket /\ t.grp[i].addr = m.s.grp[i].addr
  BY <1>1, <1>4, DropListenerSound
<1>6. f = [s |-> t, kernel |-> m.kernel, refused |-> m.refused]
  BY <1>1, TripleWith
<1> HIDE DEF f
<1>7. Triple(f) /\ f.s = t /\ f.kernel = m.kernel /\ f.refused = m.refused
  BY <1>6 DEF Triple
<1>8. Whole(f)
  BY <1>1, <1>5, <1>7 DEF Whole, KernelOK
<1>9. EmptyBut(t, {g})
  <2> SUFFICES ASSUME NEW h \in Busy(t), h # g PROVE Members(t, h) # {}
    BY DEF EmptyBut
  <2>1. Members(m.s, h) # {}
    BY <1>5 DEF EmptyBut
  <2>2. l \notin Members(m.s, h)
    BY DEF Members
  <2> QED
    BY <2>1, <2>2, <1>5
<1>10. g \in Busy(t) /\ k = t.grp[g].socket
  BY <1>2, <1>5 DEF Busy
<1> HIDE DEF g
<1>11. \A h \in RxGroups : Quiet(f.s, r.s, h)
  BY <1>3, <1>7, <1>8, <1>9, <1>10, CloseTables
<1>12. Dropped(m.s, r.s, l)
  BY <1>4, <1>5, <1>7, <1>11 DEF Dropped
<1> QED
  BY <1>12 DEF r
-----------------------------------------------------------------------------
(***************************************************************************)
(* The dispatch under way.                                                 *)
(***************************************************************************)
RxFields == {"phase", "socket", "addr", "group", "packet", "i", "protocol", "src", "data",
             "cursor", "steady", "got", "freed", "reused", "stray", "changes"}

\* The group is that of the socket and address of the packet, until it goes.
OwnGroup(s, x) ==
  /\ x.group \in RxGroups
  /\ x.group \in Busy(s) => s.grp[x.group].socket = x.socket /\ s.grp[x.group].addr = x.addr
  /\ x.group \notin Busy(s) => MAX_LISTENERS + x.group \in x.freed

\* Whether t, a listener for p, was called for the PDU that is dispatched.
Served(x, r, t, p) ==
  /\ x.phase # "pdu"
  /\ x.phase = "call" => p # x.protocol \/ r[x.cursor] < r[t]
  /\ x.phase = "back" => p # x.protocol \/ r[x.cursor] <= r[t]

\* The listener that is called is on the trail, and one for the protocol of the PDU.
AtListener(s, x) ==
  x.phase \in {"call", "back"} =>
    /\ x.cursor \in Trail(s, x.group, x.freed)
    /\ x.cursor \in Used(s) => s.lsn[x.cursor].protocol = x.protocol

\* The fields are those of the PDU that is dispatched, or of the one before that is to
\* be read.
Reads(x, e) == x.protocol = e.protocol /\ x.src = e.src /\ x.data = e.data
Reading(x) ==
  /\ x.phase \in {"pdu", "call", "back", "end"}
  /\ WellMeant(x.packet) /\ x.i \in 1 .. Len(x.packet.meant)
  /\ x.phase = "pdu" => Reads(x, Before(x.packet.meant, x.i))
  /\ x.phase # "pdu" => Reads(x, x.packet.meant[x.i])
  /\ x.phase = "end" => x.i = Len(x.packet.meant)

\* Each listener that was there all the time has got what it was to get so far.
GotSoFar(s, x, r) ==
  \A t \in x.steady :
    x.got[t] = Upto(x.packet.meant, s.lsn[t].protocol,
                    IF Served(x, r, t, s.lsn[t].protocol) THEN x.i ELSE x.i - 1)

\* ... for the ranks r.
Dispatches(s, x, r) ==
  /\ DOMAIN x = RxFields /\ DOMAIN x.got = Listeners /\ ~x.stray
  /\ Ranked(s, x.group, x.steady, x.freed, r)
  /\ OwnGroup(s, x) /\ AtListener(s, x) /\ Reading(x) /\ GotSoFar(s, x, r)

DispatchInv == rx.phase # "idle" /\ ~rx.reused => \E r : Dispatches(rlp, rx, r)

\* The slots in use, those of groups numbered after those of listeners.
Slots(s) == Used(s) \cup {MAX_LISTENERS + g : g \in Busy(s)}

\* A slot is that of a listener or that of a group.
LEMMA SlotsAre ==
  ASSUME NEW s
  PROVE  /\ \A l \in Listeners : l \in Slots(s) <=> l \in Used(s)
         /\ \A g \in RxGroups : MAX_LISTENERS + g \in Slots(s) <=> g \in Busy(s)
<1>1. /\ \A l \in Listeners : l \in Nat /\ l <= MAX_LISTENERS
      /\ \A g \in RxGroups : g \in Nat /\ g > 0
      /\ MAX_LISTENERS \in Nat
  BY Sizes DEF Listeners, RxGroups
<1>2. Used(s) \subseteq Listeners /\ Busy(s) \subseteq RxGroups
  BY DEF Used, Busy
<1>3. ASSUME NEW l \in Listeners, NEW g \in RxGroups PROVE l # MAX_LISTENERS + g
  BY <1>1
<1>4. \A l \in Listeners : l \in Slots(s) <=> l \in Used(s)
  BY <1>2, <1>3 DEF Slots
<1>5. ASSUME NEW g \in RxGroups PROVE MAX_LISTENERS + g \in Slots(s) <=> g \in Busy(s)
  <2>1. MAX_LISTENERS + g \notin Used(s)
    BY <1>2, <1>3
  <2>2. \A h \in Busy(s) : MAX_LISTENERS + h = MAX_LISTENERS + g => h = g
    BY <1>1, <1>2
  <2> QED
    BY <2>1, <2>2 DEF Slots
<1> QED
  BY <1>4, <1>5

\* What the dispatch y is when the tables s became t in x.
Noted(s, t, x, y) ==
  /\ DOMAIN y = RxFields /\ DOMAIN y.got = Listeners
  /\ y.phase = x.phase /\ y.socket = x.socket /\ y.addr = x.addr /\ y.group = x.group
  /\ y.packet = x.packet /\ y.i = x.i /\ y.protocol = x.protocol /\ y.src = x.src
  /\ y.data = x.data /\ y.cursor = x.cursor /\ y.stray = x.stray
  /\ y.steady = x.steady \ (Slots(s) \ Slots(t))
  /\ y.freed = x.freed \cup (Slots(s) \ Slots(t))
  /\ \A l \in y.steady : y.got[l] = x.got[l]
  /\ ~y.reused => (Slots(t) \ Slots(s)) \cap x.freed = {}

\* The group stays its own.
LEMMA OwnGroupKept ==
  ASSUME NEW s, NEW t, NEW x, NEW y, Noted(s, t, x, y), OwnGroup(s, x),
         x.group \in Busy(t) => x.group \in Busy(s) /\ t.grp[x.group].socket = s.grp[x.group].socket
                                /\ t.grp[x.group].addr = s.grp[x.group].addr
  PROVE  OwnGroup(t, y)
<1>1. y.group = x.group /\ y.socket = x.socket /\ y.addr = x.addr
      /\ y.freed = x.freed \cup (Slots(s) \ Slots(t))
  BY DEF Noted
<1>2. x.group \in RxGroups
  BY DEF OwnGroup
<1>3. x.group \notin Busy(t) => MAX_LISTENERS + x.group \in y.freed
  BY <1>1, <1>2, SlotsAre DEF OwnGroup
<1> QED
  BY <1>1, <1>3 DEF OwnGroup

\* A dispatch goes on when its trail and those on it stay.
LEMMA GoesOn ==
  ASSUME NEW s, NEW t, NEW x, NEW y, Noted(s, t, x, y), NEW r, Dispatches(s, x, r),
         NEW r2, Ranked(t, x.group, y.steady, y.freed, r2), OwnGroup(t, y),
         Trail(s, x.group, x.freed) \subseteq Trail(t, x.group, y.freed),
         \A d \in Trail(s, x.group, x.freed) : r2[d] = r[d],
         \A d \in Trail(s, x.group, x.freed) : d \in Used(t) =>
           d \in Used(s) /\ t.lsn[d].protocol = s.lsn[d].protocol
  PROVE  Dispatches(t, y, r2)
<1> DEFINE K == Trail(s, x.group, x.freed)
<1>1. /\ DOMAIN y = RxFields /\ DOMAIN y.got = Listeners /\ ~x.stray
      /\ y.phase = x.phase /\ y.socket = x.socket /\ y.addr = x.addr /\ y.group = x.group
      /\ y.packet = x.packet /\ y.i = x.i /\ y.protocol = x.protocol /\ y.src = x.src
      /\ y.data = x.data /\ y.cursor = x.cursor /\ y.stray = x.stray
      /\ y.steady \subseteq x.steady /\ \A l \in y.steady : y.got[l] = x.got[l]
  BY DEF Noted, Dispatches
<1>2. Ranked(s, x.group, x.steady, x.freed, r) /\ AtListener(s, x) /\ Reading(x) /\ GotSoFar(s, x, r)
  BY DEF Dispatches
<1>3. x.steady \subseteq K
  BY <1>2, OnTrail
<1>4. \A d \in y.steady : d \in Used(t)
  BY DEF Ranked, Members
<1>5. \A d \in y.steady : d \in K /\ r2[d] = r[d] /\ t.lsn[d].protocol = s.lsn[d].protocol
  BY <1>1, <1>3, <1>4
<1>6. AtListener(t, y)
  BY <1>1, <1>2 DEF AtListener
<1>7. Reading(y)
  BY <1>1, <1>2 DEF Reading, Reads
<1>8. GotSoFar(t, y, r2)
  <2> SUFFICES ASSUME NEW d \in y.steady
               PROVE  y.got[d] = Upto(y.packet.meant, t.lsn[d].protocol,
                                      IF Served(y, r2, d, t.lsn[d].protocol) THEN y.i ELSE y.i - 1)
    BY DEF GotSoFar
  <2> DEFINE p == s.lsn[d].protocol
  <2>1. t.lsn[d].protocol = p /\ d \in x.steady /\ y.got[d] = x.got[d]
    BY <1>1, <1>5
  <2>2. x.phase \in {"call", "back"} => r2[x.cursor] = r[x.cursor]
    BY <1>2 DEF AtListener
  <2>3. Served(y, r2, d, p) <=> Served(x, r, d, p)
    BY <1>1, <1>5, <2>2 DEF Served
  <2>4. x.got[d] = Upto(x.packet.meant, p, IF Served(x, r, d, p) THEN x.i ELSE x.i - 1)
    BY <1>2, <2>1 DEF GotSoFar
  <2> HIDE DEF p
  <2> QED
    BY <1>1, <2>1, <2>3, <2>4
<1> QED
  BY <1>1, <1>6, <1>7, <1>8 DEF Dispatches

\* ... when nothing changes for its group, or when that goes,
LEMMA GoesOnQuietly ==
  ASSUME NEW s, NEW t, Sound(t), NEW x, NEW y, Noted(s, t, x, y), NEW r, Dispatches(s, x, r),
         Quiet(s, t, x.group)
  PROVE  Dispatches(t, y, r)
<1> DEFINE g == x.group
<1>1. /\ Ranked(s, g, x.steady, x.freed, r) /\ OwnGroup(s, x) /\ g \in RxGroups
      /\ y.steady = x.steady \ (Slots(s) \ Slots(t)) /\ y.freed = x.freed \cup (Slots(s) \ Slots(t))
  BY DEF Dispatches, OwnGroup, Noted
<1>2. Used(t) = Used(s) /\ Used(s) \subseteq Listeners /\ t.lsn = s.lsn
  BY DEF Quiet, Used
<1>3. \A l \in Listeners : l \notin Slots(s) \ Slots(t)
  BY <1>2, SlotsAre
<1>4. y.steady = x.steady
  <2>1. x.steady \subseteq Listeners
    BY <1>1, OnTrail
  <2> QED
    BY <1>1, <1>3, <2>1
<1>5. \A l \in Listeners : l \in y.freed <=> l \in x.freed
  BY <1>1, <1>3
<1> HIDE DEF g
<1>6. Ranked(t, g, y.steady, y.freed, r) /\ Trail(t, g, y.freed) = Trail(s, g, x.freed)
  <2>1. Quiet(s, t, g)
    BY DEF g
  <2> QED
    BY <1>1, <1>4, <1>5, <2>1, RankedQuiet
<1>7. OwnGroup(t, y)
  <2>1. g \in Busy(t) => g \in Busy(s) /\ t.grp[g].socket = s.grp[g].socket /\ t.grp[g].addr = s.grp[g].addr
    BY <1>1 DEF Quiet, SameGroup, Busy, g
  <2> QED
    BY <1>1, <2>1, OwnGroupKept DEF g
<1> QED
  BY <1>2, <1>6, <1>7, GoesOn DEF g

\* when a listener comes,
LEMMA GoesOnWithNew ==
  ASSUME NEW s, NEW t, Sound(s), Sound(t), NEW x, NEW y, Noted(s, t, x, y), ~y.reused,
         NEW r, Dispatches(s, x, r),
         NEW l, NEW i \in RxGroups, NEW p \in Protocols, Added(s, t, l, i, p)
  PROVE  \E r2 : Dispatches(t, y, r2)
<1> DEFINE g == x.group
           out == Slots(s) \ Slots(t)
           in == Slots(t) \ Slots(s)
<1>1. /\ Ranked(s, g, x.steady, x.freed, r) /\ OwnGroup(s, x) /\ g \in RxGroups
      /\ y.steady = x.steady \ out /\ y.freed = x.freed \cup out
      /\ in \cap x.freed = {}
  BY DEF Dispatches, OwnGroup, Noted
<1>2. PICK u : /\ Sound(u) /\ Used(u) = Used(s) /\ i \in Busy(u) /\ l \in Listeners /\ l \notin Used(u)
               /\ NewListener(u, t, l, i, p)
               /\ \A h \in RxGroups : Quiet(s, u, h) \/ (h = i /\ Opened(s, u, h))
  BY DEF Added
<1>3. /\ Busy(t) = Busy(u) /\ Used(t) = Used(s) \cup {l} /\ p # "none" /\ Used(s) \subseteq Listeners
      /\ \A h \in RxGroups : t.grp[h].socket = u.grp[h].socket /\ t.grp[h].addr = u.grp[h].addr
  <2> HIDE DEF g, out, in
  <2>0. Sound(u) /\ i \in Busy(u) /\ l \in Listeners /\ l \notin Used(u) /\ NewListener(u, t, l, i, p)
    BY <1>2
  <2> DEFINE e == [socket |-> u.grp[i].socket, addr |-> u.grp[i].addr, protocol |-> p]
  <2>1. /\ Sound(t) /\ Busy(t) = Busy(u) /\ Memberships(t) = Memberships(u)
        /\ Used(t) = Used(u) \cup {l} /\ l \in Members(t, i)
        /\ \A h \in RxGroups : h # i => Members(t, h) = Members(u, h)
        /\ Held(t) = With(Held(u), l, e)
    BY <2>0, NewListenerSound
  <2>2. \A h \in RxGroups : t.grp[h].socket = u.grp[h].socket /\ t.grp[h].addr = u.grp[h].addr
    BY <1>2 DEF NewListener
  <2> QED
    BY <1>2, <2>1, <2>2, NamesAssumption DEF Used
<1>4. l \notin x.freed
  <2>1. l \in in
    BY <1>2, <1>3, SlotsAre
  <2> QED
    BY <1>1, <2>1
<1>5. \A d \in Listeners : d \notin out
  BY <1>3, SlotsAre
<1>6. y.steady = x.steady /\ \A d \in Listeners : d \in y.freed <=> d \in x.freed
  <2>1. x.steady \subseteq Listeners
    BY <1>1, OnTrail
  <2> QED
    BY <1>1, <1>5, <2>1
<1>7. Quiet(s, u, g)
  <2> SUFFICES ASSUME g = i, Opened(s, u, g) PROVE FALSE
    BY <1>1, <1>2
  <2>1. g \in Busy(t) /\ g \notin Busy(s)
    BY <1>3 DEF Opened
  <2>2. MAX_LISTENERS + g \in in
    BY <1>1, <2>1, SlotsAre
  <2>3. MAX_LISTENERS + g \in x.freed
    BY <1>1, <2>1 DEF OwnGroup
  <2> QED
    BY <1>1, <2>2, <2>3
<1> HIDE DEF g, out, in
<1>8. Ranked(u, g, x.steady, x.freed, r) /\ Trail(u, g, x.freed) = Trail(s, g, x.freed)
  BY <1>1, <1>2, <1>7, RankedQuiet
<1>9. /\ \E q : /\ Ranked(t, g, x.steady, x.freed, q)
                /\ \A d \in Trail(u, g, x.freed) : q[d] = r[d]
      /\ Trail(u, g, x.freed) \subseteq Trail(t, g, x.freed)
      /\ \A d \in Trail(u, g, x.freed) : t.lsn[d] = u.lsn[d]
  <2> DEFINE T == x.steady
             F == x.freed
  <2>1. u \in TableRecords
    BY <1>2 DEF Sound
  <2>2. /\ Ranked(u, g, T, F, r) /\ g \in RxGroups /\ p # "none" /\ l \in Listeners /\ l \notin Used(u)
        /\ l \notin F /\ NewListener(u, t, l, i, p)
    BY <1>1, <1>2, <1>3, <1>4, <1>8
  <2> HIDE DEF T, F
  <2>3. /\ \E q : /\ Ranked(t, g, T, F, q)
                  /\ \A d \in Trail(u, g, F) : q[d] = r[d]
        /\ Trail(u, g, F) \subseteq Trail(t, g, F)
        /\ \A d \in Trail(u, g, F) : t.lsn[d] = u.lsn[d]
    <3>1. Longer(u, t, g, T, F, r)
      BY <2>1, <2>2, RankedNew
    <3> QED
      BY <3>1 DEF Longer
  <2> QED
    BY <2>3 DEF T, F
<1>10. PICK q : /\ Ranked(t, g, x.steady, x.freed, q)
                /\ \A d \in Trail(u, g, x.freed) : q[d] = r[d]
  BY <1>9
<1>11. Ranked(t, g, y.steady, y.freed, q) /\ Trail(t, g, y.freed) = Trail(t, g, x.freed)
  <2> DEFINE T == x.steady
             F == x.freed
             E == y.freed
  <2>1. /\ Quiet(t, t, g) /\ Ranked(t, g, T, F, q) /\ g \in RxGroups
        /\ \A d \in Listeners : d \in E <=> d \in F
    BY <1>1, <1>6, <1>10 DEF Quiet, SameGroup
  <2>2. y.steady = T
    BY <1>6
  <2> HIDE DEF T, F, E
  <2>3. Ranked(t, g, T, E, q) /\ Trail(t, g, E) = Trail(t, g, F)
    BY ONLY Sound(t), <2>1, RankedQuiet
  <2> QED
    BY <2>2, <2>3 DEF F, E
<1>12. OwnGroup(t, y)
  <2>1. g \in Busy(t) => g \in Busy(s) /\ t.grp[g].socket = s.grp[g].socket /\ t.grp[g].addr = s.grp[g].addr
    BY <1>1, <1>3, <1>7 DEF Quiet, SameGroup, Busy
  <2> QED
    BY <1>1, <2>1, OwnGroupKept DEF g
<1>13. \A d \in Trail(s, g, x.freed) : d \in Used(t) =>
           d \in Used(s) /\ t.lsn[d].protocol = s.lsn[d].protocol
  <2>1. u.lsn = s.lsn
    BY <1>7 DEF Quiet
  <2>2. \A d \in Trail(s, g, x.freed) : t.lsn[d] = s.lsn[d]
    BY <1>8, <1>9, <2>1
  <2> QED
    BY <2>2 DEF Used
<1>14. Dispatches(t, y, q)
  BY <1>8, <1>9, <1>10, <1>11, <1>12, <1>13, GoesOn DEF g
<1> QED
  BY <1>14

\* and when one goes.
LEMMA GoesOnWithout ==
  ASSUME NEW s, NEW t, Sound(s), Sound(t), NEW x, NEW y, Noted(s, t, x, y),
         NEW r, Dispatches(s, x, r), NEW l \in Used(s), Dropped(s, t, l)
  PROVE  Dispatches(t, y, r)
<1> DEFINE g == x.group
           out == Slots(s) \ Slots(t)
<1>1. /\ Ranked(s, g, x.steady, x.freed, r) /\ OwnGroup(s, x) /\ g \in RxGroups
      /\ y.steady = x.steady \ out /\ y.freed = x.freed \cup out
  BY DEF Dispatches, OwnGroup, Noted
<1>2. PICK u : Sound(u) /\ DropListener(s, u, l) /\ \A h \in RxGroups : Quiet(u, t, h)
  BY DEF Dropped
<1>3. /\ Used(u) = Used(s) \ {l} /\ Busy(u) = Busy(s)
      /\ \A i \in RxGroups : u.grp[i].socket = s.grp[i].socket /\ u.grp[i].addr = s.grp[i].addr
  BY <1>2, DropListenerSound
<1>4. Quiet(u, t, g) /\ t.lsn = u.lsn /\ Used(t) = Used(u)
  BY <1>1, <1>2 DEF Quiet, Used
<1>5. \A d \in Listeners : d \in out <=> d = l
  <2>1. l \in Listeners
    BY DEF Used
  <2> QED
    BY <1>3, <1>4, <2>1, SlotsAre
<1>6. y.steady = x.steady \ {l} /\ \A d \in Listeners : d \in y.freed <=> d \in x.freed \cup {l}
  <2>1. x.steady \subseteq Listeners
    BY <1>1, OnTrail
  <2> QED
    BY <1>1, <1>5, <2>1
<1> HIDE DEF g, out
<1>7. /\ Ranked(u, g, x.steady \ {l}, x.freed \cup {l}, r)
      /\ Trail(u, g, x.freed \cup {l}) = Trail(s, g, x.freed)
  BY <1>1, <1>2, RankedDrop
<1>8. Ranked(t, g, y.steady, y.freed, r) /\ Trail(t, g, y.freed) = Trail(s, g, x.freed)
  <2> DEFINE T == x.steady \ {l}
             F == x.freed \cup {l}
  <2>1. Ranked(u, g, T, F, r) /\ \A d \in Listeners : d \in y.freed <=> d \in F
    BY <1>6, <1>7
  <2>2. y.steady = T /\ Trail(u, g, F) = Trail(s, g, x.freed)
    BY <1>6, <1>7
  <2> HIDE DEF T, F
  <2>3. Ranked(t, g, T, y.freed, r) /\ Trail(t, g, y.freed) = Trail(u, g, F)
    BY <1>1, <1>4, <2>1, RankedQuiet
  <2> QED
    BY <2>2, <2>3
<1>9. OwnGroup(t, y)
  <2>1. g \in Busy(t) => g \in Busy(s) /\ t.grp[g].socket = s.grp[g].socket /\ t.grp[g].addr = s.grp[g].addr
    BY <1>1, <1>3, <1>4 DEF Quiet, SameGroup, Busy
  <2> QED
    BY <1>1, <2>1, OwnGroupKept DEF g
<1>10. \A d \in Trail(s, g, x.freed) : d \in Used(t) =>
           d \in Used(s) /\ t.lsn[d].protocol = s.lsn[d].protocol
  <2>1. \A d \in Used(s) \ {l} : u.lsn[d].protocol = s.lsn[d].protocol
    BY <1>2 DEF DropListener, Used
  <2> QED
    BY <1>3, <1>4, <2>1
<1>11. Dispatches(t, y, r)
  BY <1>8, <1>9, <1>10, GoesOn DEF g
<1> QED
  BY <1>11

\* What the polling thread finds when the tables become others.
LEMMA BecomeRx ==
  ASSUME NEW m, Become(m), rx.phase # "idle", DOMAIN rx = RxFields, DOMAIN rx.got = Listeners,
         rx.steady \subseteq Listeners
  PROVE  Noted(rlp, m.s, rx, rx') /\ rlp' = m.s
<1> DEFINE used(s) == {l \in Listeners : s.lsn[l].protocol # "none"}
                      \cup {MAX_LISTENERS + g : g \in {i \in RxGroups : s.grp[i].socket # NULL}}
           freed == used(rlp) \ used(m.s)
           taken == used(m.s) \ used(rlp)
           a == rx.steady \ freed
           b == [l \in Listeners |-> IF l \in freed THEN <<>> ELSE rx.got[l]]
           c == rx.freed \cup freed
           d == rx.reused \/ taken \cap rx.freed # {}
           e == IF m = Tables THEN rx.changes ELSE rx.changes + 1
<1>1. /\ rlp' = IF rx.phase = "idle" THEN Forgotten(m.s) ELSE m.s
      /\ rx' = IF rx.phase = "idle" THEN rx
               ELSE [rx EXCEPT !.steady = a, !.got = b, !.freed = c, !.reused = d, !.changes = e]
  BY DEF Become
<1>2. Slots(rlp) = used(rlp) /\ Slots(m.s) = used(m.s)
  BY DEF Slots, Used, Busy
<1> HIDE DEF used, e
<1>3. /\ b = [l \in Listeners |-> IF l \in freed THEN <<>> ELSE rx.got[l]]
      /\ freed = Slots(rlp) \ Slots(m.s) /\ taken = Slots(m.s) \ Slots(rlp)
  BY <1>2
<1> HIDE DEF freed, taken
<1>4. /\ a = rx.steady \ freed /\ c = rx.freed \cup freed
      /\ ~d => taken \cap rx.freed = {}
  OBVIOUS
<1> HIDE DEF a, b, c, d
<1>5. rlp' = m.s /\ rx' = [rx EXCEPT !.steady = a, !.got = b, !.freed = c, !.reused = d, !.changes = e]
  BY <1>1
<1>6. /\ DOMAIN rx' = RxFields
      /\ rx'.phase = rx.phase /\ rx'.socket = rx.socket /\ rx'.addr = rx.addr /\ rx'.group = rx.group
      /\ rx'.packet = rx.packet /\ rx'.i = rx.i /\ rx'.protocol = rx.protocol /\ rx'.src = rx.src
      /\ rx'.data = rx.data /\ rx'.cursor = rx.cursor /\ rx'.stray = rx.stray
      /\ rx'.steady = a /\ rx'.got = b /\ rx'.freed = c /\ rx'.reused = d
  <2> DEFINE x == rx
             y == rx'
  <2>1. y = [x EXCEPT !.steady = a, !.got = b, !.freed = c, !.reused = d, !.changes = e]
        /\ DOMAIN x = RxFields
    BY <1>5
  <2> HIDE DEF x, y
  <2>2. /\ DOMAIN y = RxFields
        /\ y.phase = x.phase /\ y.socket = x.socket /\ y.addr = x.addr /\ y.group = x.group
        /\ y.packet = x.packet /\ y.i = x.i /\ y.protocol = x.protocol /\ y.src = x.src
        /\ y.data = x.data /\ y.cursor = x.cursor /\ y.stray = x.stray
        /\ y.steady = a /\ y.got = b /\ y.freed = c /\ y.reused = d
    BY ONLY <2>1 DEF RxFields
  <2> QED
    BY <2>2 DEF x, y
<1>7. DOMAIN b = Listeners /\ \A l \in a : b[l] = rx.got[l]
  BY <1>3, <1>4
<1> QED
  BY <1>3, <1>4, <1>5, <1>6, <1>7 DEF Noted

\* What one call does to the tables: nothing to any group, or a listener comes, or goes.
Moved(s, t) ==
  \/ \A h \in RxGroups : Quiet(s, t, h)
  \/ \E l \in Listeners, i \in RxGroups, p \in Protocols : Added(s, t, l, i, p)
  \/ \E l \in Used(s) : Dropped(s, t, l)

\* The dispatch under way goes on.
LEMMA DispatchKept ==
  ASSUME RlpIInv, RlpIInv', DispatchInv, rx.phase # "idle" => ~rx.reused, NEW m, Become(m),
         Moved(rlp, m.s)
  PROVE  DispatchInv'
<1> SUFFICES ASSUME rx'.phase # "idle", ~rx'.reused PROVE \E r : Dispatches(rlp', rx', r)
  BY DEF DispatchInv
<1>1. rx.phase # "idle"
  BY DEF Become
<1>2. PICK r : Dispatches(rlp, rx, r)
  BY <1>1 DEF DispatchInv
<1>3. /\ DOMAIN rx = RxFields /\ DOMAIN rx.got = Listeners /\ rx.steady \subseteq Listeners
      /\ rx.group \in RxGroups
  <2>1. Ranked(rlp, rx.group, rx.steady, rx.freed, r)
    BY <1>2 DEF Dispatches
  <2>2. rx.steady \subseteq Listeners
    BY <2>1, OnTrail
  <2> QED
    BY <1>2, <2>2 DEF Dispatches, OwnGroup
<1>4. Noted(rlp, m.s, rx, rx') /\ rlp' = m.s
  BY <1>1, <1>3, BecomeRx
<1> DEFINE s == rlp
           t == m.s
           x == rx
           y == rx'
<1>5. /\ Sound(s) /\ Sound(t) /\ Noted(s, t, x, y) /\ ~y.reused /\ Dispatches(s, x, r)
      /\ x.group \in RxGroups /\ rlp' = t /\ Moved(s, t)
  <2>1. Sound(rlp) /\ Sound(rlp')
    BY DEF RlpIInv
  <2> QED
    BY <1>2, <1>3, <1>4, <2>1
<1> SUFFICES \E r2 : Dispatches(t, y, r2)
  BY <1>5
<1> HIDE DEF s, t, x, y
<1>6. CASE \A h \in RxGroups : Quiet(s, t, h)
  <2>1. Dispatches(t, y, r)
    BY <1>5, <1>6, GoesOnQuietly
  <2> QED
    BY <2>1
<1>7. CASE \E l \in Listeners, i \in RxGroups, p \in Protocols : Added(s, t, l, i, p)
  <2>1. PICK l \in Listeners, i \in RxGroups, p \in Protocols : Added(s, t, l, i, p)
    BY <1>7
  <2> QED
    BY <1>5, <2>1, GoesOnWithNew
<1>8. CASE \E l \in Used(s) : Dropped(s, t, l)
  <2>1. PICK l \in Used(s) : Dropped(s, t, l)
    BY <1>8
  <2>2. Dispatches(t, y, r)
    BY <1>5, <2>1, GoesOnWithout
  <2> QED
    BY <2>2
<1> QED
  BY <1>5, <1>6, <1>7, <1>8 DEF Moved

\* The dispatch under way goes on when a socket opens,
LEMMA OpenGoesOn ==
  ASSUME RlpIInv, RlpIInv', DispatchInv, rx.phase # "idle" => ~rx.reused,
         NEW p \in Ports, NEW ok \in BOOLEAN, OpenSocket(p, ok)
  PROVE  DispatchInv'
<1> DEFINE t == rlp_open_netsocket(rlp, p, ok)
           m == [Tables EXCEPT !.s = t]
<1>1. Become(m) /\ m.s = t
  BY DEF OpenSocket, Tables
<1>2. t.lsn = rlp.lsn /\ t.grp = rlp.grp
  <2>1. \/ t = rlp
        \/ \E k \in Sockets :
             /\ rlp.nsk[k].port = "none" /\ \A j \in Sockets : rlp.nsk[j].port # p
             /\ SocketIs(rlp, t, k, [port |-> p, open |-> TRUE])
        \/ \E k \in Sockets :
             /\ rlp.nsk[k].port = "none"
             /\ SocketIs(rlp, t, k, [port |-> "none", open |-> FALSE])
    BY TablesAre, OpenIs
  <2> HIDE DEF t
  <2> QED
    BY <2>1 DEF SocketIs
<1> HIDE DEF t, m
<1>3. Moved(rlp, m.s)
  BY <1>1, <1>2 DEF Moved, Quiet, SameGroup
<1> QED
  BY <1>1, <1>3, DispatchKept

\* or closes,
LEMMA CloseGoesOn ==
  ASSUME RlpIInv, RlpIInv', DispatchInv, rx.phase # "idle" => ~rx.reused,
         NEW k \in Sockets, CloseSocket(k)
  PROVE  DispatchInv'
<1> DEFINE t == rlp_close_netsocket(rlp, k)
           has == rlpm_netsock_has_rxgroups(rlp, k)
           m == [Tables EXCEPT !.s = t, !.kernel = IF has THEN @ ELSE {j \in @ : j[1] # k}]
<1>1. Become(m) /\ m.s = t
  BY DEF CloseSocket, Tables
<1>2. t.lsn = rlp.lsn /\ t.grp = rlp.grp
  <2>1. t = rlp \/ SocketIs(rlp, t, k, [port |-> "none", open |-> FALSE])
    BY TablesAre, CloseIs
  <2> HIDE DEF t
  <2> QED
    BY <2>1 DEF SocketIs
<1> HIDE DEF t, m
<1>3. Moved(rlp, m.s)
  BY <1>1, <1>2 DEF Moved, Quiet, SameGroup
<1> QED
  BY <1>1, <1>3, DispatchKept

\* when a listener comes,
LEMMA AddGoesOn ==
  ASSUME RlpIInv, RlpIInv', DispatchInv, rx.phase # "idle" => ~rx.reused,
         NEW k \in Sockets, NEW addr \in Addresses, NEW p \in Protocols,
         NEW ok \in BOOLEAN, AddListener(k, addr, p, ok)
  PROVE  DispatchInv'
<1> DEFINE r == rlp_add_listener(Tables, k, addr, p, ok)
<1>1. Become(r.m) /\ Tables.s.nsk[k].open
  BY TablesAre DEF AddListener
<1>2. /\ r.l = NULL => \A h \in RxGroups : Quiet(rlp, r.m.s, h)
      /\ r.l # NULL => \E i \in RxGroups : Added(rlp, r.m.s, r.l, i, p)
  BY <1>1, TablesAre, AddTables
<1> HIDE DEF r
<1>3. CASE r.l = NULL
  <2>1. Moved(rlp, r.m.s)
    BY <1>2, <1>3 DEF Moved
  <2> QED
    BY <1>1, <2>1, DispatchKept
<1>4. CASE r.l # NULL
  <2>1. PICK i \in RxGroups : Added(rlp, r.m.s, r.l, i, p)
    BY <1>2, <1>4
  <2>2. r.l \in Listeners
    BY <2>1 DEF Added
  <2>3. Moved(rlp, r.m.s)
    BY <2>1, <2>2 DEF Moved
  <2> QED
    BY <1>1, <2>3, DispatchKept
<1> QED
  BY <1>3, <1>4

\* and when one goes.
LEMMA DelGoesOn ==
  ASSUME RlpIInv, RlpIInv', DispatchInv, rx.phase # "idle" => ~rx.reused,
         NEW l \in DOMAIN asked, NEW twice \in BOOLEAN, DelListener(l, twice)
  PROVE  DispatchInv'
<1> DEFINE k == asked[l].socket
           once == rlp_del_listener(Tables, k, l)
<1>1. Become(IF twice THEN rlp_del_listener(once, k, l) ELSE once)
  BY DEF DelListener
<1>2. l \in DOMAIN Held(Tables.s) /\ k = Held(Tables.s)[l].socket /\ EmptyBut(Tables.s, {})
  BY TablesAre
<1> HIDE DEF k
<1>3. rlp_del_listener(once, k, l) = once /\ Dropped(Tables.s, once.s, l)
  BY <1>2, TablesAre, DelL, DelTables
<1>4. l \in Used(rlp)
  BY TablesAre DEF Held
<1> HIDE DEF once
<1>5. Become(once) /\ Moved(rlp, once.s)
  BY <1>1, <1>3, <1>4, TablesAre DEF Moved
<1> QED
  BY <1>5, DispatchKept

\* A PDU was read, or a listener has had it, and l is the listener that is next.
Ready(s, z, l, r) ==
  /\ DOMAIN z = RxFields /\ DOMAIN z.got = Listeners /\ ~z.stray
  /\ Ranked(s, z.group, z.steady, z.freed, r) /\ OwnGroup(s, z)
  /\ WellMeant(z.packet) /\ z.i \in 1 .. Len(z.packet.meant) /\ Reads(z, z.packet.meant[z.i])
  /\ l # NULL => l \in Trail(s, z.group, z.freed) /\ s.lsn[l].protocol = z.protocol
  /\ \A t \in z.steady :
       z.got[t] = Upto(z.packet.meant, s.lsn[t].protocol,
                       IF s.lsn[t].protocol # z.protocol \/ l = NULL \/ r[l] < r[t]
                       THEN z.i ELSE z.i - 1)

\* The units of a packet end where its block is over.
LEMMA OverIs ==
  ASSUME NEW z, WellMeant(z.packet), z.i \in 1 .. Len(z.packet.meant)
  PROVE  /\ Over(z, z.i + 1) => z.i = Len(z.packet.meant)
         /\ ~Over(z, z.i + 1) => /\ z.i + 1 \in 1 .. Len(z.packet.meant)
                                 /\ Before(z.packet.meant, z.i + 1) = z.packet.meant[z.i]
<1> DEFINE n == Len(z.packet.meant)
           l == Len(z.packet.pdus)
<1>1. /\ n \in 1 .. l /\ l \in Nat /\ z.i \in 1 .. n
      /\ \A i \in 1 .. n : z.packet.pdus[i].fits
      /\ n = l \/ ~z.packet.pdus[n + 1].fits
  BY DEF WellMeant
<1>2. Over(z, z.i + 1) <=> (z.i + 1 > l \/ ~z.packet.pdus[z.i + 1].fits)
  BY DEF Over
<1> HIDE DEF n, l
<1>3. Over(z, z.i + 1) => z.i = n
  <2> SUFFICES ASSUME z.i # n PROVE z.i + 1 \in 1 .. n /\ ~(z.i + 1 > l)
    BY <1>1, <1>2
  <2> QED
    BY <1>1
<1>4. ~Over(z, z.i + 1) => z.i + 1 \in 1 .. n
  <2>1. z.i = n => Over(z, z.i + 1)
    <3> SUFFICES ASSUME z.i = n PROVE Over(z, z.i + 1)
      OBVIOUS
    <3>1. n = l => z.i + 1 > l
      BY <1>1
    <3> QED
      BY <1>1, <1>2, <3>1
  <2> QED
    BY <1>1, <2>1
<1>5. Before(z.packet.meant, z.i + 1) = z.packet.meant[z.i]
  <2>1. z.i + 1 # 1 /\ z.i + 1 - 1 = z.i
    BY <1>1
  <2> QED
    BY <2>1 DEF Before
<1> QED
  BY <1>3, <1>4, <1>5 DEF n

\* Then the listener is called, or the next PDU is read, or the dispatch ends.
LEMMA GoKeeps ==
  ASSUME NEW s, NEW z, NEW l, NEW r, Ready(s, z, l, r), NEW y, y = Go(z, l)
  PROVE  Dispatches(s, y, r)
<1>1. /\ DOMAIN z = RxFields /\ DOMAIN z.got = Listeners /\ ~z.stray
      /\ Ranked(s, z.group, z.steady, z.freed, r) /\ OwnGroup(s, z)
      /\ WellMeant(z.packet) /\ z.i \in 1 .. Len(z.packet.meant)
      /\ Reads(z, z.packet.meant[z.i])
      /\ l # NULL => l \in Trail(s, z.group, z.freed) /\ s.lsn[l].protocol = z.protocol
      /\ \A t \in z.steady :
           z.got[t] = Upto(z.packet.meant, s.lsn[t].protocol,
                           IF s.lsn[t].protocol # z.protocol \/ l = NULL \/ r[l] < r[t]
                           THEN z.i ELSE z.i - 1)
  BY DEF Ready
<1> DEFINE Same == /\ DOMAIN y = RxFields /\ y.group = z.group /\ y.socket = z.socket
                   /\ y.addr = z.addr /\ y.packet = z.packet /\ y.protocol = z.protocol
                   /\ y.src = z.src /\ y.data = z.data /\ y.steady = z.steady
                   /\ y.freed = z.freed /\ y.got = z.got /\ y.stray = z.stray /\ y.cursor = l
<1>2. Over(z, z.i + 1) \in BOOLEAN
  BY DEF Over
<1>3. ASSUME Same PROVE /\ DOMAIN y = RxFields /\ DOMAIN y.got = Listeners /\ ~y.stray
                        /\ Ranked(s, y.group, y.steady, y.freed, r) /\ OwnGroup(s, y)
                        /\ WellMeant(y.packet)
  BY <1>1, <1>3 DEF OwnGroup
<1>4. CASE l # NULL
  <2>1. y = [z EXCEPT !.cursor = l, !.phase = "call"]
    BY <1>4, <1>2 DEF Go
  <2>2. Same /\ y.phase = "call" /\ y.i = z.i
    BY <1>1, <2>1 DEF RxFields
  <2>3. AtListener(s, y)
    BY <1>1, <1>4, <2>2 DEF AtListener
  <2>4. Reading(y)
    BY <1>1, <2>2 DEF Reading, Reads
  <2>5. GotSoFar(s, y, r)
    BY <1>1, <1>4, <2>2 DEF GotSoFar, Served
  <2> QED
    BY <1>3, <2>2, <2>3, <2>4, <2>5 DEF Dispatches
<1>5. CASE l = NULL /\ ~Over(z, z.i + 1)
  <2>1. y = [z EXCEPT !.cursor = l, !.phase = "pdu", !.i = z.i + 1]
    BY <1>5, <1>2 DEF Go
  <2>2. Same /\ y.phase = "pdu" /\ y.i = z.i + 1
    BY <1>1, <2>1 DEF RxFields
  <2>3. AtListener(s, y)
    BY <2>2 DEF AtListener
  <2>4. Reading(y)
    <3>1. /\ z.i + 1 \in 1 .. Len(z.packet.meant)
          /\ Before(z.packet.meant, z.i + 1) = z.packet.meant[z.i]
      BY <1>1, <1>5, OverIs
    <3> QED
      BY <1>1, <2>2, <3>1 DEF Reading, Reads
  <2>5. GotSoFar(s, y, r)
    <3>1. y.i - 1 = z.i
      BY <1>1, <2>2
    <3> QED
      BY <1>1, <1>5, <2>2, <3>1 DEF GotSoFar, Served
  <2> QED
    BY <1>3, <2>2, <2>3, <2>4, <2>5 DEF Dispatches
<1>6. CASE l = NULL /\ Over(z, z.i + 1)
  <2>1. y = [z EXCEPT !.cursor = l, !.phase = "end"]
    BY <1>6, <1>2 DEF Go
  <2>2. Same /\ y.phase = "end" /\ y.i = z.i
    BY <1>1, <2>1 DEF RxFields
  <2>3. AtListener(s, y)
    BY <2>2 DEF AtListener
  <2>4. Reading(y)
    <3>1. z.i = Len(z.packet.meant)
      BY <1>1, <1>6, OverIs
    <3> QED
      BY <1>1, <2>2, <3>1 DEF Reading, Reads
  <2>5. GotSoFar(s, y, r)
    BY <1>1, <1>6, <2>2 DEF GotSoFar, Served
  <2> QED
    BY <1>3, <2>2, <2>3, <2>4, <2>5 DEF Dispatches
<1> QED
  BY <1>2, <1>4, <1>5, <1>6

\* What holds of a dispatch, in so many words.
LEMMA DispatchesIs ==
  ASSUME NEW s, NEW x, NEW r, Dispatches(s, x, r)
  PROVE  /\ DOMAIN x = RxFields /\ DOMAIN x.got = Listeners /\ ~x.stray
         /\ Ranked(s, x.group, x.steady, x.freed, r) /\ OwnGroup(s, x)
         /\ AtListener(s, x) /\ Reading(x) /\ GotSoFar(s, x, r)
         /\ WellMeant(x.packet) /\ x.i \in 1 .. Len(x.packet.meant) /\ x.packet.meant \in Seq(Meanings)
         /\ x.steady \subseteq Used(s) /\ x.steady \subseteq Trail(s, x.group, x.freed)
         /\ \A t \in x.steady : r[t] \in Nat
<1>1. /\ Ranked(s, x.group, x.steady, x.freed, r) /\ Reading(x)
  BY DEF Dispatches
<1>2. WellMeant(x.packet) /\ x.i \in 1 .. Len(x.packet.meant) /\ x.packet.meant \in Seq(Meanings)
  BY <1>1 DEF Reading, WellMeant
<1>3. x.steady \subseteq Used(s)
  BY <1>1 DEF Ranked, Members
<1>4. x.steady \subseteq Trail(s, x.group, x.freed) /\ \A t \in x.steady : r[t] \in Nat
  BY <1>1, OnTrail
<1> QED
  BY <1>2, <1>3, <1>4 DEF Dispatches

\* The fields of the PDU are read, those it does not give kept.
LEMMA PduRead ==
  ASSUME NEW x, WellMeant(x.packet), x.i \in 1 .. Len(x.packet.meant), DOMAIN x = RxFields,
         Reads(x, Before(x.packet.meant, x.i)), NEW z,
         z = [x EXCEPT !.protocol = Inherit(x.packet.pdus[x.i].vec, @),
                       !.src = Inherit(x.packet.pdus[x.i].hdr, @),
                       !.data = Inherit(x.packet.pdus[x.i].data, @)]
  PROVE  /\ DOMAIN z = RxFields /\ z.got = x.got /\ z.stray = x.stray /\ z.group = x.group
         /\ z.socket = x.socket /\ z.addr = x.addr /\ z.packet = x.packet /\ z.i = x.i
         /\ z.steady = x.steady /\ z.freed = x.freed
         /\ Reads(z, z.packet.meant[z.i])
<1> DEFINE e == Before(x.packet.meant, x.i)
           a == Inherit(x.packet.pdus[x.i].vec, x.protocol)
           b == Inherit(x.packet.pdus[x.i].hdr, x.src)
           c == Inherit(x.packet.pdus[x.i].data, x.data)
           w == x.packet.meant[x.i]
<1>1. x.protocol = e.protocol /\ x.src = e.src /\ x.data = e.data
  BY DEF Reads
<1>2. z = [x EXCEPT !.protocol = a, !.src = b, !.data = c]
  OBVIOUS
<1>3. w.protocol = a /\ w.src = b /\ w.data = c
  BY <1>1 DEF WellMeant
<1>4. w = x.packet.meant[x.i]
  OBVIOUS
<1> HIDE DEF a, b, c, e, w
<1>5. /\ DOMAIN z = RxFields /\ z.got = x.got /\ z.stray = x.stray /\ z.group = x.group
      /\ z.socket = x.socket /\ z.addr = x.addr /\ z.packet = x.packet /\ z.i = x.i
      /\ z.steady = x.steady /\ z.freed = x.freed
      /\ z.protocol = a /\ z.src = b /\ z.data = c
  BY <1>2 DEF RxFields
<1> QED
  BY <1>3, <1>4, <1>5 DEF Reads

\* The next PDU is read.
LEMMA NextPduGoesOn ==
  ASSUME RlpIInv, DispatchInv, rx.phase # "idle" => ~rx.reused, NextPdu
  PROVE  DispatchInv'
<1>1. PICK r : Dispatches(rlp, rx, r)
  BY DEF DispatchInv, NextPdu
<1> DEFINE s == rlp
           x == rx
           z == [x EXCEPT !.protocol = Inherit(x.packet.pdus[x.i].vec, @),
                          !.src = Inherit(x.packet.pdus[x.i].hdr, @),
                          !.data = Inherit(x.packet.pdus[x.i].data, @)]
           l == rlpm_first_listener(s, x.group, z.protocol)
           y == rx'
<1>2. /\ x.phase = "pdu" /\ y = Go(z, l) /\ rlp' = s
      /\ Dispatches(s, x, r) /\ s \in TableRecords
  BY <1>1, TablesAre DEF NextPdu
<1>3. z = [x EXCEPT !.protocol = Inherit(x.packet.pdus[x.i].vec, @),
                    !.src = Inherit(x.packet.pdus[x.i].hdr, @),
                    !.data = Inherit(x.packet.pdus[x.i].data, @)]
      /\ l = rlpm_first_listener(s, x.group, z.protocol)
  OBVIOUS
<1> SUFFICES Dispatches(s, y, r)
  BY <1>2 DEF DispatchInv
<1> HIDE DEF s, x, y, z, l
<1>4. /\ DOMAIN x = RxFields /\ DOMAIN x.got = Listeners /\ ~x.stray
      /\ Ranked(s, x.group, x.steady, x.freed, r) /\ OwnGroup(s, x)
      /\ Reading(x) /\ GotSoFar(s, x, r)
      /\ WellMeant(x.packet) /\ x.i \in 1 .. Len(x.packet.meant) /\ x.packet.meant \in Seq(Meanings)
      /\ x.steady \subseteq Used(s) /\ x.steady \subseteq Trail(s, x.group, x.freed)
      /\ \A t \in x.steady : r[t] \in Nat
  BY <1>2, DispatchesIs
<1>5. Reads(x, Before(x.packet.meant, x.i))
  BY <1>2, <1>4 DEF Reading
<1>6. /\ DOMAIN z = RxFields /\ z.got = x.got /\ z.stray = x.stray /\ z.group = x.group
      /\ z.socket = x.socket /\ z.addr = x.addr /\ z.packet = x.packet /\ z.i = x.i
      /\ z.steady = x.steady /\ z.freed = x.freed
      /\ Reads(z, z.packet.meant[z.i])
  BY <1>3, <1>4, <1>5, PduRead
<1> DEFINE W == {i \in Listeners : s.lsn[i].protocol = z.protocol}
           h == s.grp[x.group].listeners
           K == Trail(s, x.group, x.freed)
<1>7. l = FirstOf(ListFrom(s, h), W) /\ h \in K \cup {NULL}
  BY <1>3, <1>4 DEF rlpm_first_listener, ListenersOf, Ranked
<1>8. \A t \in x.steady : h # NULL /\ r[t] <= r[h]
  BY <1>4 DEF Ranked
<1>9. /\ l # NULL => l \in K /\ l \in W
      /\ \A t \in x.steady : t \in W /\ h # NULL /\ r[t] <= r[h] => l # NULL /\ r[t] <= r[l]
  <2> DEFINE T == x.steady
             F == x.freed
             g == x.group
  <2>1. Ranked(s, g, T, F, r) /\ h \in Trail(s, g, F) \cup {NULL} /\ s \in TableRecords
    BY <1>2, <1>4, <1>7
  <2>2. l = FirstOf(ListFrom(s, h), W)
    BY <1>7
  <2> HIDE DEF T, F, g, h, W
  <2>3. /\ l # NULL => l \in Trail(s, g, F) /\ l \in W /\ h # NULL /\ r[l] <= r[h]
        /\ \A t \in T : t \in W /\ h # NULL /\ r[t] <= r[h] => l # NULL /\ r[t] <= r[l]
    BY <2>1, <2>2, FirstAhead
  <2> QED
    BY <2>3 DEF T, F, g
<1>10. l # NULL => r[l] \in Nat
  BY <1>4, <1>9, OnTrail
<1> HIDE DEF h
<1>11. ASSUME NEW t \in x.steady
       PROVE  z.got[t] = Upto(z.packet.meant, s.lsn[t].protocol,
                              IF s.lsn[t].protocol # z.protocol \/ l = NULL \/ r[l] < r[t]
                              THEN z.i ELSE z.i - 1)
  <2> DEFINE p == s.lsn[t].protocol
             m == x.packet.meant
  <2>1. x.got[t] = Upto(m, p, x.i - 1)
    BY <1>2, <1>4 DEF GotSoFar, Served
  <2>2. CASE p = z.protocol
    <3>1. t \in W
      BY <1>4, <2>2 DEF Used
    <3>2. l # NULL /\ r[t] <= r[l]
      BY <1>8, <1>9, <3>1
    <3>3. ~(p # z.protocol \/ l = NULL \/ r[l] < r[t])
      BY <1>4, <1>10, <2>2, <3>2
    <3> HIDE DEF p, m
    <3>4. z.got[t] = Upto(m, p, z.i - 1)
      BY <1>6, <2>1
    <3> QED
      BY <1>6, <3>3, <3>4 DEF p, m
  <2>3. CASE p # z.protocol
    <3>1. m[x.i].protocol = z.protocol
      BY <1>6 DEF Reads
    <3>2. Upto(m, p, x.i) = Upto(m, p, x.i - 1)
      BY <1>4, <2>3, <3>1, UptoIs
    <3> QED
      BY <1>6, <2>1, <2>3, <3>2
  <2> QED
    BY <2>2, <2>3
<1>12. Ready(s, z, l, r)
  <2>1. OwnGroup(s, z)
    BY <1>4, <1>6 DEF OwnGroup
  <2> QED
    BY <1>4, <1>6, <1>9, <1>11, <2>1 DEF Ready
<1> QED
  BY <1>2, <1>12, GoKeeps

\* The listener that follows the one called is called, or the next PDU is read.
LEMMA NextListenerGoesOn ==
  ASSUME RlpIInv, DispatchInv, rx.phase # "idle" => ~rx.reused, NextListener
  PROVE  DispatchInv'
<1>1. PICK r : Dispatches(rlp, rx, r)
  BY DEF DispatchInv, NextListener
<1> DEFINE s == rlp
           x == rx
           c == rx.cursor
           l == rlpm_next_listener(s, c, x.protocol)
           y == rx'
<1>2. /\ x.phase = "back" /\ y = Go(x, l) /\ rlp' = s
      /\ Dispatches(s, x, r) /\ s \in TableRecords
  BY <1>1, TablesAre DEF NextListener
<1>3. l = rlpm_next_listener(s, c, x.protocol) /\ c = x.cursor
  OBVIOUS
<1> SUFFICES Dispatches(s, y, r)
  BY <1>2 DEF DispatchInv
<1> HIDE DEF s, x, y, l, c
<1>4. /\ DOMAIN x = RxFields /\ DOMAIN x.got = Listeners /\ ~x.stray
      /\ Ranked(s, x.group, x.steady, x.freed, r) /\ OwnGroup(s, x)
      /\ AtListener(s, x) /\ Reading(x) /\ GotSoFar(s, x, r)
      /\ WellMeant(x.packet) /\ x.i \in 1 .. Len(x.packet.meant) /\ x.packet.meant \in Seq(Meanings)
      /\ x.steady \subseteq Used(s) /\ x.steady \subseteq Trail(s, x.group, x.freed)
      /\ \A t \in x.steady : r[t] \in Nat
  BY <1>2, DispatchesIs
<1> DEFINE W == {i \in Listeners : s.lsn[i].protocol = x.protocol}
           h == s.lsn[c].next
           K == Trail(s, x.group, x.freed)
<1>5. c \in K /\ Reads(x, x.packet.meant[x.i])
  BY <1>2, <1>3, <1>4 DEF AtListener, Reading
<1>6. l = FirstOf(ListFrom(s, h), W) /\ h \in K \cup {NULL}
  BY <1>3, <1>4, <1>5 DEF rlpm_next_listener, Ranked
<1>7. /\ \A t \in x.steady : r[t] < r[c] => h # NULL /\ r[t] <= r[h]
      /\ h # NULL => r[h] < r[c]
  BY <1>4, <1>5 DEF Ranked
<1>8. /\ l # NULL => l \in K /\ l \in W /\ h # NULL /\ r[l] <= r[h]
      /\ \A t \in x.steady : t \in W /\ h # NULL /\ r[t] <= r[h] => l # NULL /\ r[t] <= r[l]
  <2> DEFINE T == x.steady
             F == x.freed
             g == x.group
  <2>1. Ranked(s, g, T, F, r) /\ h \in Trail(s, g, F) \cup {NULL} /\ s \in TableRecords
    BY <1>2, <1>4, <1>6
  <2>2. l = FirstOf(ListFrom(s, h), W)
    BY <1>6
  <2> HIDE DEF T, F, g, h, W
  <2>3. /\ l # NULL => l \in Trail(s, g, F) /\ l \in W /\ h # NULL /\ r[l] <= r[h]
        /\ \A t \in T : t \in W /\ h # NULL /\ r[t] <= r[h] => l # NULL /\ r[t] <= r[l]
    BY <2>1, <2>2, FirstAhead
  <2> QED
    BY <2>3 DEF T, F, g
<1>9. r[c] \in Nat /\ (l # NULL => r[l] \in Nat) /\ (h # NULL => r[h] \in Nat)
  <2>1. \A d \in K : r[d] \in Nat
    BY <1>4, OnTrail
  <2> QED
    BY <1>5, <1>6, <1>8, <2>1
<1> HIDE DEF h
<1>10. ASSUME NEW t \in x.steady
       PROVE  x.got[t] = Upto(x.packet.meant, s.lsn[t].protocol,
                              IF s.lsn[t].protocol # x.protocol \/ l = NULL \/ r[l] < r[t]
                              THEN x.i ELSE x.i - 1)
  <2> DEFINE p == s.lsn[t].protocol
  <2>1. x.got[t] = Upto(x.packet.meant, p, IF p # x.protocol \/ r[c] <= r[t] THEN x.i ELSE x.i - 1)
    BY <1>2, <1>3, <1>4 DEF GotSoFar, Served
  <2>2. p = x.protocol => t \in W
    BY <1>4 DEF Used
  <2>3. r[t] \in Nat
    BY <1>4
  <2>4. (p # x.protocol \/ r[c] <= r[t]) <=> (p # x.protocol \/ l = NULL \/ r[l] < r[t])
    <3>1. ASSUME p = x.protocol, r[c] <= r[t] PROVE l = NULL \/ r[l] < r[t]
      BY <1>7, <1>8, <1>9, <2>3, <3>1
    <3>2. ASSUME p = x.protocol, ~(r[c] <= r[t]) PROVE l # NULL /\ r[t] <= r[l]
      <4>1. r[t] < r[c]
        BY <1>9, <2>3, <3>2
      <4> QED
        BY <1>7, <1>8, <2>2, <3>2, <4>1
    <3>3. ASSUME p = x.protocol, ~(r[c] <= r[t]) PROVE ~(l = NULL \/ r[l] < r[t])
      BY <1>9, <2>3, <3>2, <3>3
    <3> HIDE DEF p
    <3> QED
      BY <3>1, <3>3
  <2> QED
    BY <2>1, <2>4
<1>11. Ready(s, x, l, r)
  BY <1>4, <1>5, <1>8, <1>10 DEF Ready
<1> QED
  BY <1>2, <1>11, GoKeeps

\* A listener gets the PDU.
LEMMA CallbackGoesOn ==
  ASSUME RlpIInv, DispatchInv, rx.phase # "idle" => ~rx.reused, Callback
  PROVE  DispatchInv'
<1>1. PICK r : Dispatches(rlp, rx, r)
  BY DEF DispatchInv, Callback
<1> DEFINE s == rlp
           x == rx
           y == rx'
           c == x.cursor
           unit == [src |-> x.src, data |-> x.data]
           G == [x.got EXCEPT ![c] = IF c \in x.steady THEN Append(@, unit) ELSE @]
           its == [socket |-> x.socket, addr |-> x.addr, protocol |-> x.protocol]
           B == x.stray \/ (c \in DOMAIN asked /\ ~(c \in DOMAIN asked /\ its = asked[c]))
<1>2. /\ x.phase = "call" /\ rlp' = s /\ s \in TableRecords /\ Sound(s) /\ asked = Held(s)
      /\ y = [x EXCEPT !.phase = "back", !.got = G, !.stray = B]
      /\ Dispatches(s, x, r)
  BY <1>1, TablesAre DEF Callback
<1>3. /\ G = [x.got EXCEPT ![c] = IF c \in x.steady THEN Append(@, unit) ELSE @]
      /\ B <=> (x.stray \/ (c \in DOMAIN asked /\ its # asked[c]))
      /\ c = x.cursor
      /\ unit = [src |-> x.src, data |-> x.data]
      /\ its = [socket |-> x.socket, addr |-> x.addr, protocol |-> x.protocol]
  OBVIOUS
<1> SUFFICES Dispatches(s, y, r)
  BY <1>2 DEF DispatchInv
<1> HIDE DEF s, x, y, c, G, B, unit, its
<1>4. /\ DOMAIN x = RxFields /\ DOMAIN x.got = Listeners /\ ~x.stray
      /\ Ranked(s, x.group, x.steady, x.freed, r) /\ OwnGroup(s, x)
      /\ AtListener(s, x) /\ Reading(x) /\ GotSoFar(s, x, r)
      /\ WellMeant(x.packet) /\ x.i \in 1 .. Len(x.packet.meant) /\ x.packet.meant \in Seq(Meanings)
      /\ x.steady \subseteq Used(s) /\ x.steady \subseteq Trail(s, x.group, x.freed)
      /\ \A t \in x.steady : r[t] \in Nat
  BY <1>2, DispatchesIs
<1>5. /\ c \in Trail(s, x.group, x.freed) /\ (c \in Used(s) => s.lsn[c].protocol = x.protocol)
      /\ Reads(x, x.packet.meant[x.i])
  BY <1>2, <1>3, <1>4 DEF AtListener, Reading
<1>6. /\ DOMAIN y = RxFields /\ y.group = x.group /\ y.socket = x.socket
      /\ y.addr = x.addr /\ y.packet = x.packet /\ y.protocol = x.protocol
      /\ y.src = x.src /\ y.data = x.data /\ y.steady = x.steady /\ y.i = x.i
      /\ y.freed = x.freed /\ y.cursor = c
      /\ y.phase = "back" /\ y.got = G /\ y.stray = B
  BY <1>2, <1>3, <1>4 DEF RxFields
<1>7. ~B
  <2> SUFFICES ASSUME c \in DOMAIN asked PROVE its = asked[c]
    BY <1>3, <1>4
  <2>1. c \in Used(s) /\ asked[c] = [socket |-> s.grp[s.lsn[c].rxgroup].socket,
                                     addr |-> s.grp[s.lsn[c].rxgroup].addr,
                                     protocol |-> s.lsn[c].protocol]
    BY <1>2 DEF Held
  <2>2. s.lsn[c].rxgroup = x.group
    BY <1>5 DEF Trail
  <2>3. x.group \in Busy(s)
    BY <1>2, <2>1, <2>2 DEF Sound, ListsOK
  <2>4. s.grp[x.group].socket = x.socket /\ s.grp[x.group].addr = x.addr
    BY <1>4, <2>3 DEF OwnGroup
  <2> QED
    BY <1>3, <1>5, <2>1, <2>2, <2>4
<1>8. /\ DOMAIN G = Listeners
      /\ \A t \in x.steady : G[t] = IF t = c THEN Append(x.got[c], unit) ELSE x.got[t]
  <2>1. x.steady \subseteq Listeners
    BY <1>4 DEF Used
  <2> QED
    BY <1>3, <1>4, <2>1
<1>9. GotSoFar(s, y, r)
  <2> SUFFICES ASSUME NEW t \in x.steady
               PROVE  G[t] = Upto(x.packet.meant, s.lsn[t].protocol,
                                  IF Served(y, r, t, s.lsn[t].protocol) THEN x.i ELSE x.i - 1)
    BY <1>6 DEF GotSoFar
  <2> DEFINE p == s.lsn[t].protocol
             m == x.packet.meant
  <2>1. x.got[t] = Upto(m, p, IF p # x.protocol \/ r[c] < r[t] THEN x.i ELSE x.i - 1)
    BY <1>2, <1>3, <1>4 DEF GotSoFar, Served
  <2>2. Served(y, r, t, p) <=> (p # x.protocol \/ r[c] <= r[t])
    BY <1>6 DEF Served
  <2>3. r[t] \in Nat /\ r[c] \in Nat
    BY <1>4, <1>5, OnTrail
  <2>4. CASE t = c
    <3>1. p = x.protocol /\ m[x.i].protocol = p /\ m[x.i].src = x.src /\ m[x.i].data = x.data
      BY <1>4, <1>5, <2>4 DEF Reads
    <3>2. ~(p # x.protocol \/ r[c] < r[t]) /\ (p # x.protocol \/ r[c] <= r[t])
      BY <2>3, <2>4, <3>1
    <3>3. x.got[t] = Upto(m, p, x.i - 1) /\ Served(y, r, t, p)
      BY <2>1, <2>2, <3>2
    <3>4. m \in Seq(Meanings) /\ x.i \in 1 .. Len(m)
      BY <1>4
    <3> HIDE DEF p, m
    <3>5. Upto(m, p, x.i) = IF m[x.i].protocol = p
                            THEN Append(Upto(m, p, x.i - 1), [src |-> m[x.i].src, data |-> m[x.i].data])
                            ELSE Upto(m, p, x.i - 1)
      BY <3>4, UptoIs
    <3>6. unit = [src |-> m[x.i].src, data |-> m[x.i].data]
      BY <1>3, <3>1
    <3>7. Upto(m, p, x.i) = Append(x.got[t], unit)
      BY <3>1, <3>3, <3>5, <3>6
    <3>8. G[t] = Upto(m, p, x.i)
      BY <1>8, <2>4, <3>7
    <3> QED
      BY <3>3, <3>8 DEF p, m
  <2>5. CASE t # c
    <3>1. r[t] # r[c]
      BY <1>4, <1>5, <2>5 DEF Ranked
    <3>2. r[c] < r[t] <=> r[c] <= r[t]
      BY <2>3, <3>1
    <3>3. G[t] = x.got[t]
      BY <1>8, <2>5
    <3> QED
      BY <2>1, <2>2, <3>2, <3>3
  <2> QED
    BY <2>4, <2>5
<1>10. AtListener(s, y)
  BY <1>5, <1>6 DEF AtListener
<1>11. Reading(y)
  BY <1>4, <1>5, <1>6 DEF Reading, Reads
<1>12. OwnGroup(s, y)
  BY <1>4, <1>6 DEF OwnGroup
<1> QED
  BY <1>4, <1>6, <1>7, <1>8, <1>9, <1>10, <1>11, <1>12 DEF Dispatches

\* The listeners of a group rank by how many follow them.
LEMMA FirstRanks ==
  ASSUME NEW s, Sound(s), NEW g \in Busy(s), NEW T, T \subseteq Members(s, g)
  PROVE  \E r : Ranked(s, g, T, {}, r)
<1> DEFINE next == ListenerLinks(s)
           head == s.grp[g].listeners
           M == Members(s, g)
<1>1. s \in TableRecords /\ ListOf(next, head, M)
  BY DEF Sound, ListsOK
<1>2. Pool(Listeners, next) /\ \A l \in Listeners : next[l] = s.lsn[l].next
  BY <1>1, LinksAre
<1>3. PICK q : WholeList(next, head, q) /\ M = {q[i] : i \in 1 .. Len(q)}
  BY <1>1 DEF ListOf
<1> HIDE DEF next
<1>4. /\ \A i, j \in 1 .. Len(q) : q[i] = q[j] => i = j
      /\ Len(q) \in Nat
  BY <1>2, <1>3, NoSlotTwice
<1>5. Trail(s, g, {}) = M
  BY DEF Trail, Members, Used
<1> HIDE DEF M, head
<1>6. /\ \A i \in 1 .. Len(q) : q[i] \in Listeners
      /\ \A i \in 1 .. Len(q) - 1 : next[q[i]] = q[i + 1]
      /\ q = <<>> => head = NULL
      /\ q # <<>> => q[1] = head /\ next[q[Len(q)]] = NULL
      /\ NULL \notin Listeners
  BY <1>2, <1>3, NullIs DEF WholeList, Chained, Pool
<1> DEFINE At(l) == CHOOSE i \in 1 .. Len(q) : q[i] = l
           r == [l \in Listeners |-> IF l \in M THEN Len(q) - At(l) ELSE 0]
<1>7. ASSUME NEW d \in M
      PROVE  /\ At(d) \in 1 .. Len(q) /\ q[At(d)] = d /\ d \in Listeners
             /\ At(d) = Len(q) => s.lsn[d].next = NULL
             /\ At(d) # Len(q) => /\ s.lsn[d].next \in M /\ s.lsn[d].next # NULL
                                  /\ At(s.lsn[d].next) = At(d) + 1
  <2>1. \E i \in 1 .. Len(q) : q[i] = d
    BY <1>3 DEF M
  <2>2. At(d) \in 1 .. Len(q) /\ q[At(d)] = d
    BY <2>1
  <2> DEFINE i == At(d)
  <2>3. i \in 1 .. Len(q) /\ q[i] = d
    BY <2>2
  <2> HIDE DEF i
  <2>4. d \in Listeners /\ next[d] = s.lsn[d].next
    BY <1>2, <1>6, <2>3
  <2>5. i = Len(q) => s.lsn[d].next = NULL
    <3>1. q # <<>>
      BY <2>3
    <3> QED
      BY <1>6, <2>3, <2>4, <3>1
  <2>6. ASSUME i # Len(q)
        PROVE  s.lsn[d].next \in M /\ s.lsn[d].next # NULL /\ At(s.lsn[d].next) = i + 1
    <3>1. i \in 1 .. Len(q) - 1 /\ i + 1 \in 1 .. Len(q)
      BY <1>4, <2>3, <2>6
    <3>2. s.lsn[d].next = q[i + 1]
      BY <1>6, <2>3, <2>4, <3>1
    <3> DEFINE e == s.lsn[d].next
    <3>3. e = q[i + 1]
      BY <3>2
    <3> HIDE DEF e
    <3>4. e \in M /\ e # NULL
      BY <1>3, <1>6, <3>1, <3>3 DEF M
    <3>5. At(e) \in 1 .. Len(q) /\ q[At(e)] = e
      BY <3>1, <3>3
    <3>6. At(e) = i + 1
      BY <1>4, <3>1, <3>3, <3>5
    <3> QED
      BY <3>4, <3>6 DEF e
  <2> QED
    BY <2>2, <2>4, <2>5, <2>6 DEF i
<1> HIDE DEF At
<1>8. r \in [Listeners -> Nat] /\ \A d \in M : r[d] = Len(q) - At(d)
  BY <1>4, <1>7
<1> HIDE DEF r
<1>9. ASSUME NEW d \in M, s.lsn[d].next # NULL
      PROVE  s.lsn[d].next \in M /\ r[s.lsn[d].next] < r[d]
  BY <1>4, <1>7, <1>8, <1>9
<1>10. ASSUME NEW d \in M, NEW t \in T, r[t] < r[d]
       PROVE  s.lsn[d].next # NULL /\ r[t] <= r[s.lsn[d].next]
  <2>1. t \in M
    BY DEF M
  <2>2. At(d) < At(t) /\ At(t) <= Len(q)
    BY <1>4, <1>7, <1>8, <1>10, <2>1
  <2>3. At(d) # Len(q)
    BY <1>4, <1>7, <2>1, <2>2
  <2>4. s.lsn[d].next \in M /\ s.lsn[d].next # NULL /\ At(s.lsn[d].next) = At(d) + 1
    BY <1>7, <2>3
  <2> QED
    BY <1>4, <1>7, <1>8, <2>1, <2>2, <2>4
<1>11. ASSUME NEW d \in M, NEW e \in M, r[d] = r[e] PROVE d = e
  <2>1. At(d) = At(e)
    BY <1>4, <1>7, <1>8, <1>11
  <2> QED
    BY <1>7, <2>1
<1>12. head # NULL => head \in M
  <2>1. head # NULL => 1 \in 1 .. Len(q) /\ q[1] = head
    BY <1>3, <1>6 DEF WholeList, Chained
  <2> QED
    BY <1>3, <2>1 DEF M
<1>13. ASSUME NEW t \in T PROVE head # NULL /\ r[t] <= r[head]
  <2>1. t \in M
    BY DEF M
  <2>2. At(t) \in 1 .. Len(q) /\ 1 \in 1 .. Len(q) /\ q # <<>>
    BY <1>4, <1>7, <2>1
  <2>3. head = q[1] /\ head # NULL
    BY <1>6, <2>2
  <2>4. head \in M /\ q[At(head)] = q[1]
    BY <1>7, <1>12, <2>3
  <2>5. At(head) = 1
    BY <1>4, <1>7, <2>2, <2>4
  <2> QED
    BY <1>4, <1>8, <2>1, <2>2, <2>3, <2>4, <2>5
<1>14. Ranked(s, g, T, {}, r)
  <2>1. T \subseteq Members(s, g)
    OBVIOUS
  <2>2. /\ \A d \in M : s.lsn[d].next # NULL => s.lsn[d].next \in M /\ r[s.lsn[d].next] < r[d]
        /\ \A d \in M : \A t \in T : r[t] < r[d] => s.lsn[d].next # NULL /\ r[t] <= r[s.lsn[d].next]
    BY <1>9, <1>10
  <2>3. /\ \A d, e \in M : r[d] = r[e] => d = e
        /\ head # NULL => head \in M
        /\ \A t \in T : head # NULL /\ r[t] <= r[head]
    BY <1>11, <1>12, <1>13
  <2> QED
    BY <1>5, <1>8, <2>1, <2>2, <2>3 DEF Ranked, head
<1> QED
  BY <1>14

\* A packet comes.
LEMMA PacketGoesOn ==
  ASSUME RlpIInv, NEW k \in Sockets, NEW a \in Groups \cup {UNICAST}, NEW p \in Packets,
         RxPacket(k, a, p)
  PROVE  DispatchInv'
<1> DEFINE s == rlp
           g == rlpm_find_rxgroup(s, k, a)
           T == {l \in DOMAIN asked : asked[l].socket = k /\ asked[l].addr = a}
           y == rx'
<1>1. /\ ~Over([packet |-> p], 1) /\ g # NULL
      /\ "same" \notin {p.pdus[1].vec, p.pdus[1].hdr, p.pdus[1].data}
      /\ y = [phase |-> "pdu", socket |-> k, addr |-> a, group |-> g, packet |-> p, i |-> 1,
              protocol |-> "none", src |-> "none", data |-> "none", cursor |-> NULL,
              steady |-> T, got |-> [l \in Listeners |-> <<>>], freed |-> {}, reused |-> FALSE,
              stray |-> FALSE, changes |-> 0]
      /\ rlp' = s /\ Sound(s) /\ asked = Held(s)
  BY TablesAre DEF RxPacket
<1>2. g \in Busy(s) /\ s.grp[g].socket = k /\ s.grp[g].addr = a
  BY <1>1, FindGroup
<1>3. T = {l \in DOMAIN asked : asked[l].socket = k /\ asked[l].addr = a}
  OBVIOUS
<1> SUFFICES \E r : Dispatches(s, y, r)
  BY <1>1 DEF DispatchInv
<1> HIDE DEF s, g, T, y
<1>4. T \subseteq Members(s, g)
  <2> SUFFICES ASSUME NEW l \in T PROVE l \in Used(s) /\ s.lsn[l].rxgroup = g
    BY DEF Members
  <2>1. /\ l \in Used(s) /\ s.grp[s.lsn[l].rxgroup].socket = k
        /\ s.grp[s.lsn[l].rxgroup].addr = a
    BY <1>1, <1>3 DEF Held
  <2>2. s.lsn[l].rxgroup \in Busy(s)
    BY <1>1, <2>1 DEF Sound, ListsOK
  <2> QED
    BY <1>1, <1>2, <2>1, <2>2 DEF Sound, ListsOK
<1>5. PICK r : Ranked(s, g, T, {}, r)
  BY <1>1, <1>2, <1>4, FirstRanks
<1>6. WellMeant(p)
  BY <1>1, PacketsAre
<1>7. /\ y.phase = "pdu" /\ y.socket = k /\ y.addr = a /\ y.group = g /\ y.packet = p /\ y.i = 1
      /\ y.protocol = "none" /\ y.src = "none" /\ y.data = "none"
      /\ y.steady = T /\ y.got = [l \in Listeners |-> <<>>] /\ y.freed = {} /\ y.stray = FALSE
      /\ DOMAIN y = RxFields
  BY <1>1 DEF RxFields
<1>8. OwnGroup(s, y) /\ AtListener(s, y)
  BY <1>2, <1>7 DEF OwnGroup, AtListener, Busy
<1>9. 1 \in 1 .. Len(p.meant) /\ p.meant \in Seq(Meanings)
  BY <1>6 DEF WellMeant
<1>10. Reading(y)
  BY <1>6, <1>7, <1>9 DEF Reading, Reads, Before, Nothing
<1>11. GotSoFar(s, y, r)
  <2> SUFFICES ASSUME NEW t \in T
               PROVE  y.got[t] = Upto(p.meant, s.lsn[t].protocol, 0)
    BY <1>7 DEF GotSoFar, Served
  <2>1. t \in Listeners
    BY <1>4 DEF Members, Used
  <2>2. Upto(p.meant, s.lsn[t].protocol, 0) = <<>>
    BY <1>9, UptoIs
  <2> QED
    BY <1>7, <2>1, <2>2
<1>12. Dispatches(s, y, r)
  BY <1>5, <1>7, <1>8, <1>10, <1>11 DEF Dispatches
<1> QED
  BY <1>12

\* In the first state nothing is dispatched.
LEMMA RlpInitDispatch == RlpInit => DispatchInv
BY DEF RlpInit, DispatchInv

\* Every step keeps what holds of the dispatch.
LEMMA RlpStepDispatch == RlpIInv /\ RlpIInv' /\ DispatchInv /\ [RlpNext]_rlpVars => DispatchInv'
<1> SUFFICES ASSUME RlpIInv, RlpIInv', DispatchInv, [RlpNext]_rlpVars PROVE DispatchInv'
  OBVIOUS
<1>1. CASE UNCHANGED rlpVars
  BY <1>1 DEF rlpVars, DispatchInv
<1>2. CASE RlpNext
  <2>1. rx.phase # "idle" => ~rx.reused
    BY <1>2 DEF RlpNext
  <2>2. ASSUME NEW p \in Ports, NEW ok \in BOOLEAN, OpenSocket(p, ok) PROVE DispatchInv'
    BY <2>1, <2>2, OpenGoesOn
  <2>3. ASSUME NEW k \in Sockets, CloseSocket(k) PROVE DispatchInv'
    BY <2>1, <2>3, CloseGoesOn
  <2>4. ASSUME NEW k \in Sockets, NEW a \in Addresses, NEW p \in Protocols, NEW ok \in BOOLEAN,
               AddListener(k, a, p, ok)
        PROVE  DispatchInv'
    BY <2>1, <2>4, AddGoesOn
  <2>5. ASSUME NEW l \in DOMAIN asked, NEW twice \in BOOLEAN, DelListener(l, twice)
        PROVE  DispatchInv'
    BY <2>1, <2>5, DelGoesOn
  <2>6. ASSUME NEW k \in Sockets, NEW a \in Groups \cup {UNICAST}, NEW p \in Packets, RxPacket(k, a, p)
        PROVE  DispatchInv'
    BY <2>6, PacketGoesOn
  <2>7. CASE NextPdu
    BY <2>1, <2>7, NextPduGoesOn
  <2>8. CASE Callback
    BY <2>1, <2>8, CallbackGoesOn
  <2>9. CASE NextListener
    BY <2>1, <2>9, NextListenerGoesOn
  <2>10. CASE RxDone
    BY <2>10 DEF RxDone, DispatchInv
  <2> QED
    BY <1>2, <2>2, <2>3, <2>4, <2>5, <2>6, <2>7, <2>8, <2>9, <2>10 DEF RlpNext
<1> QED
  BY <1>1, <1>2

\* When the dispatch ends, each listener that was there all the time was served.
LEMMA UnitsFromInvariant == RlpIInv /\ DispatchInv => ExactlyItsUnits
<1> SUFFICES ASSUME RlpIInv, DispatchInv, rx.phase = "end", ~rx.reused
             PROVE  /\ ~rx.stray
                    /\ \A l \in rx.steady : rx.got[l] = UnitsFor(rx.packet.meant, asked[l].protocol)
  BY DEF ExactlyItsUnits
<1>1. PICK r : Dispatches(rlp, rx, r)
  BY DEF DispatchInv
<1>2. /\ ~rx.stray /\ Reading(rx) /\ GotSoFar(rlp, rx, r)
      /\ rx.packet.meant \in Seq(Meanings) /\ rx.steady \subseteq Used(rlp)
  BY <1>1, DispatchesIs
<1>3. rx.i = Len(rx.packet.meant)
  BY <1>2 DEF Reading
<1>4. ASSUME NEW l \in rx.steady
      PROVE  rx.got[l] = UnitsFor(rx.packet.meant, asked[l].protocol)
  <2>1. rx.got[l] = Upto(rx.packet.meant, rlp.lsn[l].protocol, rx.i)
    BY <1>2 DEF GotSoFar, Served
  <2>2. asked[l].protocol = rlp.lsn[l].protocol
    BY <1>2 DEF RlpIInv, Held
  <2>3. UnitsFor(rx.packet.meant, rlp.lsn[l].protocol)
          = Upto(rx.packet.meant, rlp.lsn[l].protocol, Len(rx.packet.meant))
    BY <1>2, UptoIs
  <2> QED
    BY <1>3, <2>1, <2>2, <2>3
<1> QED
  BY <1>2, <1>4

\* A listener that is registered throughout the dispatch of a packet gets exactly the
\* units of its protocol, in order, and no callback is called for another's, while
\* listeners come and go between two callbacks (rlp_process_packet), until a slot freed
\* meanwhile is handed out again.
THEOREM UnitsExact == RlpSpec => []ExactlyItsUnits
<1>1. RlpInit => RlpIInv /\ DispatchInv
  BY RlpInitIInv, RlpInitDispatch
<1>2. RlpIInv /\ DispatchInv /\ [RlpNext]_rlpVars => (RlpIInv /\ DispatchInv)'
  BY RlpStepIInv, RlpStepDispatch
<1>3. RlpIInv /\ DispatchInv => ExactlyItsUnits
  BY UnitsFromInvariant
<1> QED
  BY <1>1, <1>2, <1>3, PTL DEF RlpSpec
=============================================================================
