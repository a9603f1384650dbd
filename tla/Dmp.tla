-------------------------------- MODULE Dmp --------------------------------
(***************************************************************************)
(* DMP (dmp.c, dmpmem.c): the subscriptions to the properties of foreign   *)
(* components, and the address header of its messages.  What DMP sends is  *)
(* in TxBuffers; its receive handler parses and logs, and changes nothing. *)
(***************************************************************************)
EXTENDS Integers, LinkedLists

CONSTANTS
  Remotes,               \* the foreign components
  Properties,
  DMP_MAX_SUBSCRIPTIONS,  \* size of the pool of subscriptions
  Starts,                 \* start addresses and increments that senders use
  Incs,
  MaxCount,               \* bound: properties in a range, ranges in a block
  MaxRanges,
  MaxRefs                 \* bound: how far reference counts are followed

ASSUME DmpAssumption ==
  /\ DMP_MAX_SUBSCRIPTIONS \in Nat \ {0}
  /\ MaxCount \in Nat \ {0}
  /\ MaxRanges \in Nat \ {0}
  /\ Starts \subseteq Nat
  /\ Incs \subseteq Nat
  /\ MaxRefs \in Nat \ {0}

VARIABLES
  subs,     \* the pool of subscriptions
  heads,    \* component->subscriptions, per foreign component
  refs,     \* property->ref_count
  end,      \* "runs", "hung" in an endless list, or "crashed" on a null pointer
  wanted,   \* history: <<component, property>> subscribed and not given up
  several,  \* history: a subscription was added while there was another
  last,     \* lastActualAddress, lastVirtualAddress
  heard     \* history: the last address headers, as meant and as decoded

dmpVars == <<subs, heads, refs, end, wanted, several, last, heard>>

NoSub == 0
Subs == 1 .. DMP_MAX_SUBSCRIPTIONS

DmpInit ==
  /\ subs = [i \in Subs |-> [property |-> "none", state |-> "EMPTY", next |-> NoSub]]
  /\ heads = [c \in Remotes |-> NoSub]
  /\ refs = [p \in Properties |-> 0]
  /\ end = "runs"
  /\ wanted = {}
  /\ several = FALSE
  /\ last = [virtual |-> 0, actual |-> 0]
  /\ heard = [meant |-> <<>>, got |-> <<>>]

-----------------------------------------------------------------------------
(***************************************************************************)
(* Subscriptions.                                                          *)
(***************************************************************************)
SubLinks == [i \in Subs |-> subs[i].next]

\* The list of component c.
Chain(c) == Walk(SubLinks, heads[c])

EndlessChain(c) == Endless(SubLinks, heads[c])

dmp_find_subscription(c, p) == \E i \in DOMAIN Chain(c) : subs[Chain(c)[i]].property = p

\* A subscription is free while its state is DMP_SUB_EMPTY, and dmp.c gives it no
\* other: it is always the first that is handed out.
dmpm_new_subscription ==
  LET free == {i \in Subs : subs[i].state = "EMPTY"}
  IN  IF free = {} THEN NoSub ELSE CHOOSE i \in free : \A j \in free : i <= j

\* Mutant of dmp_add_subscription: the property is not counted.
AddUncounted(c, p) ==
  LET i == dmpm_new_subscription
  IN  /\ i # NoSub
      /\ subs' = [subs EXCEPT ![i] = [property |-> p, state |-> "EMPTY",
                                      next |-> IF heads[c] = i THEN i ELSE heads[c]]]
      /\ heads' = [heads EXCEPT ![c] = i]
      /\ UNCHANGED refs

\* The new subscription becomes the head of the component's list.
dmp_add_subscription(c, p) ==
  LET i == dmpm_new_subscription
  IN  /\ i # NoSub
      /\ subs' = [subs EXCEPT ![i] = [property |-> p, state |-> "EMPTY", next |-> heads[c]]]
      /\ heads' = [heads EXCEPT ![c] = i]
      /\ refs' = [refs EXCEPT ![p] = @ + 1]

\* dmp_establish_subscription; that it then joins a component that is no member
\* yet is SdtSession's.
Subscribe(c, p) ==
  /\ end = "runs"
  /\ wanted' = wanted \cup {<<c, p>>}
  /\ CASE dmp_find_subscription(c, p) -> UNCHANGED <<subs, heads, refs, end, several>>
       [] ~dmp_find_subscription(c, p) /\ EndlessChain(c) ->
            end' = "hung" /\ UNCHANGED <<subs, heads, refs, several>>
       [] ~dmp_find_subscription(c, p) /\ ~EndlessChain(c) ->
            /\ dmp_add_subscription(c, p)
            /\ several' = (several \/ wanted # {})
            /\ UNCHANGED end
  /\ UNCHANGED <<last, heard>>

\* dmp_del_subscription of something subscribed: the head, or one after another
\* element of the list; at the end of the list it follows a null pointer.
Unsubscribe(c, p) ==
  LET chain == Chain(c)
      after == {i \in 1 .. Len(chain) - 1 : subs[chain[i + 1]].property = p}
      n == CHOOSE i \in after : \A j \in after : i <= j
  IN  /\ end = "runs"
      /\ <<c, p>> \in wanted
      /\ wanted' = wanted \ {<<c, p>>}
      /\ CASE chain = <<>> -> end' = "crashed" /\ UNCHANGED <<subs, heads, refs>>
           [] chain # <<>> /\ subs[heads[c]].property = p ->
                /\ heads' = [heads EXCEPT ![c] = subs[@].next]
                /\ refs' = [refs EXCEPT ![p] = @ - 1]
                /\ UNCHANGED <<subs, end>>
           [] chain # <<>> /\ subs[heads[c]].property # p /\ after # {} ->
                /\ subs' = [subs EXCEPT ![chain[n]].next = subs[chain[n + 1]].next]
                /\ refs' = [refs EXCEPT ![p] = @ - 1]
                /\ UNCHANGED <<heads, end>>
           [] chain # <<>> /\ subs[heads[c]].property # p /\ after = {} ->
                /\ end' = IF EndlessChain(c) THEN "hung" ELSE "crashed"
                /\ UNCHANGED <<subs, heads, refs>>
      /\ UNCHANGED <<several, last, heard>>

-----------------------------------------------------------------------------
(***************************************************************************)
(* Address headers.  A range is [kind, start, inc, num], kind "virtual" or *)
(* "actual"; a header also has the octets of its fields and whether start  *)
(* is relative to the last address of that kind.  num is 1 in a header     *)
(* without a range.  Four octets are left out: no value is cut there.      *)
(***************************************************************************)
Sizes == {1, 2}
Cut(v, octets) == v % (256 ^ octets)

LastOf(r) == r.start + (r.num - 1) * r.inc

\* The start address is cast to uint8_t, whatever its size.
dmp_encode_address_header(r, octets) ==
  [kind |-> r.kind, octets |-> octets, relative |-> FALSE,
   start |-> Cut(r.start % 256, octets), inc |-> Cut(r.inc, octets), num |-> Cut(r.num, octets)]

\* Mutant of dmp_decode_address_header: a single address is not remembered.
decode_ranges_only(h, l) ==
  LET r == [kind |-> h.kind, start |-> h.start + (IF h.relative THEN l[h.kind] ELSE 0),
            inc |-> IF h.num = 1 THEN 0 ELSE h.inc, num |-> h.num]
  IN  [range |-> r, last |-> IF h.num = 1 THEN l ELSE [l EXCEPT ![h.kind] = LastOf(r)]]

\* Mutant of dmp_decode_address_header: the count of a single address is not set.
decode_counts_ranges(h, l) ==
  LET r == [kind |-> h.kind, start |-> h.start + (IF h.relative THEN l[h.kind] ELSE 0),
            inc |-> IF h.num = 1 THEN 0 ELSE h.inc, num |-> IF h.num = 1 THEN 0 ELSE h.num]
  IN  [range |-> r, last |-> [l EXCEPT ![h.kind] = LastOf(r)]]

\* The range, and the addresses the next relative header refers to.
dmp_decode_address_header(h, l) ==
  LET r == [kind |-> h.kind, start |-> h.start + (IF h.relative THEN l[h.kind] ELSE 0),
            inc |-> IF h.num = 1 THEN 0 ELSE h.inc, num |-> h.num]
  IN  [range |-> r, last |-> [l EXCEPT ![h.kind] = LastOf(r)]]

Decoded(headers) ==
  LET d[n \in 0 .. Len(headers)] ==
        IF n = 0 THEN [range |-> <<>>, last |-> last]
        ELSE dmp_decode_address_header(headers[n], d[n - 1].last)
  IN  [ranges |-> [i \in DOMAIN headers |-> d[i].range], last |-> d[Len(headers)].last]

Ranges == [kind : {"virtual", "actual"}, start : Starts, inc : Incs, num : 1 .. MaxCount]
Single(r) == [r EXCEPT !.inc = IF r.num = 1 THEN 0 ELSE @]

\* A message with one header that this code has written.
HearOurs(r, octets) ==
  LET d == Decoded(<<dmp_encode_address_header(r, octets)>>)
  IN  /\ {LastOf(r), r.inc, r.num} \subseteq 0 .. 256 ^ octets - 1   \* it fits
      /\ heard' = [meant |-> <<[Single(r) EXCEPT !.start = @ % 256]>>, got |-> d.ranges]
      /\ last' = d.last
      /\ UNCHANGED <<subs, heads, refs, end, wanted, several>>

\* A block of another sender: header i may be relative to the header before it of
\* the same kind, if there is one in the block.
HearOthers(ranges, rel) ==
  LET before(i) == {j \in 1 .. i - 1 : ranges[j].kind = ranges[i].kind}
      base(i) == LastOf(ranges[CHOOSE j \in before(i) : \A k \in before(i) : k <= j])
      header(i) == [kind |-> ranges[i].kind, octets |-> 2, relative |-> i \in rel,
                    start |-> ranges[i].start - (IF i \in rel THEN base(i) ELSE 0),
                    inc |-> ranges[i].inc, num |-> ranges[i].num]
      d == Decoded([i \in DOMAIN ranges |-> header(i)])
  IN  /\ \A i \in rel : before(i) # {} /\ base(i) <= ranges[i].start
      /\ heard' = [meant |-> [i \in DOMAIN ranges |-> Single(ranges[i])], got |-> d.ranges]
      /\ last' = d.last
      /\ UNCHANGED <<subs, heads, refs, end, wanted, several>>

SubscriptionNext ==
  /\ \A p \in Properties : refs[p] \in -MaxRefs .. MaxRefs
  /\ \E c \in Remotes, p \in Properties : Subscribe(c, p) \/ Unsubscribe(c, p)

AddressNext ==
  \/ \E r \in Ranges, octets \in Sizes : HearOurs(r, octets)
  \/ \E n \in 1 .. MaxRanges : \E ranges \in [1 .. n -> Ranges], rel \in SUBSET (1 .. n) :
       HearOthers(ranges, rel)

DmpNext == SubscriptionNext \/ AddressNext

DmpSpec == DmpInit /\ [][DmpNext]_dmpVars
-----------------------------------------------------------------------------
\* Types; a header that is read has at least one address.
DmpTypeOK ==
  /\ subs \in [Subs -> [property : Properties \cup {"none"}, state : {"EMPTY"},
                        next : Subs \cup {NoSub}]]
  /\ heads \in [Remotes -> Subs \cup {NoSub}]
  /\ refs \in [Properties -> Int]
  /\ end \in {"runs", "hung", "crashed"}
  /\ last \in [{"virtual", "actual"} -> Nat]
  /\ \A i \in DOMAIN heard.got : heard.got[i].num > 0

\* A property is counted once for each component that subscribed to it, each list
\* holds what was subscribed, and no call loops or crashes - until a subscription
\* is added while there is another (dmpm_new_subscription then hands out the slot
\* of the other, which is cleared and may come to follow itself).
SubscriptionsHeld ==
  ~several =>
    /\ end = "runs"
    /\ \A p \in Properties : refs[p] = Cardinality({c \in Remotes : <<c, p>> \in wanted})
    /\ \A c \in Remotes :
         {subs[Chain(c)[i]].property : i \in DOMAIN Chain(c)} =
           {p \in Properties : <<c, p>> \in wanted}

\* A header means to the receiver what it meant to the sender, relative or not and
\* whatever was heard before; of what this code sends, the start address modulo
\* 256 (dmp_encode_address_header, dmp_decode_address_header).
AddressesUnderstood == heard.got = heard.meant
=============================================================================
