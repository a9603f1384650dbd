----------------------------- MODULE SdtChannel -----------------------------
(***************************************************************************)
(* The wrapper layer of SDT (acnsrc/sdt/sdt.c): one leader, the channel it *)
(* transmits on, and the members that listen to that channel.  The leader  *)
(* numbers its wrappers and keeps the reliable ones for a while; a member  *)
(* classifies every wrapper by its numbers and hands on, discards, NAKs or *)
(* gives up.                                                               *)
(*                                                                         *)
(* The network is UDP multicast: a wrapper, a NAK or a LEAVING may be      *)
(* received never, late, out of order and more than once.  So nothing is   *)
(* ever removed from the network: `sent', `naks' and `leaving' hold all    *)
(* that was transmitted, and a receiver picks any of it at any time.       *)
(*                                                                         *)
(* Sequence numbers are naturals here.  The code compares 32 bits of them: *)
(* check_sequence_words is check_sequence on those, and SdtChannelProofs   *)
(* says when the two agree.                                                *)
(* Each handler runs to its end under ACN_PORT_PROTECT, so it is one step. *)
(***************************************************************************)
EXTENDS Integers, FiniteSets, Sequences

CONSTANTS
  Members,         \* components that may join the leader's channel
  SDT_MAX_RESENDS, \* wrappers the resend pool holds (include/opt.h:722)
  ResendTicks,     \* SDT_RESEND_TIMEOUT_ms in timer ticks
  DuplicateJoins,  \* TRUE: the network may deliver a JOIN again
  MaxTotal         \* bound: wrappers the leader transmits in a behaviour

ASSUME MembersFinite == IsFiniteSet(Members)
\* A pool of one would be linked to itself by sdt_save_buffer.
ASSUME PoolSize == SDT_MAX_RESENDS \in Nat /\ SDT_MAX_RESENDS >= 2
ASSUME TicksPositive == ResendTicks \in Nat \ {0}
ASSUME JoinsBoolean == DuplicateJoins \in BOOLEAN
ASSUME BoundNat == MaxTotal \in Nat

VARIABLES
  channel,       \* the leader's tx_channel: total_seq, reliable_seq, oldest_avail
  sent_reliable, \* the static flag of sdt_format_wrapper
  resends,       \* reliable_seq -> [ttl, blank], the wrappers still held
  foreign,       \* foreign[m]: the leader's record of m, "none", "member", "delete"
  hung,          \* the leader is inside a loop that does not end, lock held
  sent,          \* wrappers on the wire, by total_seq
  join,          \* join[m]: the JOIN sent to m
  naks,          \* NAKs on the wire
  leaving,       \* leaving[m]: reasons of the LEAVINGs m has sent
  status,        \* m's own record of itself: "out", "in", "delete", "gone"
  copy,          \* copy[m]: m's copy of the leader's channel
  delivered,     \* history: reliable wrappers handed to m, in order
  handled,       \* history: all wrappers handed to m, by total_seq
  again          \* history: wrappers handed to m more than once

leaderVars == <<channel, sent_reliable, resends, foreign, hung>>
wireVars   == <<sent, join, naks, leaving>>
memberVars == <<status, copy, delivered, handled, again>>
vars       == <<leaderVars, wireVars, memberVars>>

NoJoin == [isSent |-> FALSE, total |-> 0, rel |-> 0]

(***************************************************************************)
(* The leader's side.                                                      *)
(***************************************************************************)
\* Mutant of OldestAfter: the window slides one wrapper late.
OldestAfterLate(r) ==
  IF ~sent_reliable THEN r
  ELSE IF r - channel.oldest_avail > SDT_MAX_RESENDS THEN r - SDT_MAX_RESENDS + 1
  ELSE channel.oldest_avail

\* oldest_avail as sdt_format_wrapper leaves it when it numbers a reliable
\* wrapper r: the first one ever opens the window, later ones slide it.
OldestAfter(r) ==
  IF ~sent_reliable THEN r
  ELSE IF r - channel.oldest_avail = SDT_MAX_RESENDS THEN r - SDT_MAX_RESENDS + 1
  ELSE channel.oldest_avail

\* sdt_format_wrapper: the numbers on the channel after n unreliable wrappers.
FormatUnreliable(n) == [channel EXCEPT !.total_seq = @ + n]

\* sdt_format_wrapper: the numbers on the channel after a reliable wrapper.
FormatReliable ==
  LET r == channel.reliable_seq + 1
  IN  [total_seq    |-> channel.total_seq + 1,
       reliable_seq |-> r,
       oldest_avail |-> OldestAfter(r)]

\* n wrappers that carry w follow what is on the wire.
Transmit(n, w) ==
  [t \in 1..(channel.total_seq + n) |-> IF t <= channel.total_seq THEN sent[t] ELSE w]

Held == DOMAIN resends

\* The list is LIFO and numbers only grow: its tail is the smallest held.
Oldest == CHOOSE s \in Held : \A x \in Held : s <= x
Newest == CHOOSE s \in Held : \A x \in Held : s >= x

\* sdt_save_buffer: a record from the pool, or else the tail's, goes on top.
\* A fresh record is cleared; a recycled one keeps its blanktime.
SaveBuffer(r) ==
  LET full == Cardinality(Held) = SDT_MAX_RESENDS
      kept == IF full THEN Held \ {Oldest} ELSE Held
      top  == [ttl |-> ResendTicks, blank |-> full /\ resends[Oldest].blank]
  IN  [s \in kept \cup {r} |-> IF s = r THEN top ELSE resends[s]]

\* sdt_tx_reliable_data, sdt_tx_leave, sdt_tx_connect, sdt_tx_connect_accept,
\* sdt_tx_disconnect, sdt_tx_disconnecting: number, save and transmit.
TxReliable ==
  /\ ~hung
  /\ channel.total_seq < MaxTotal
  /\ channel' = FormatReliable
  /\ sent_reliable' = TRUE
  /\ resends' = SaveBuffer(channel'.reliable_seq)
  /\ sent' = Transmit(1, [rel |-> channel'.reliable_seq,
                          reliable |-> TRUE,
                          oldest |-> channel'.oldest_avail])
  /\ UNCHANGED <<foreign, hung, join, naks, leaving, memberVars>>

\* What n unreliable wrappers (ACK, MAK) change; they are never saved.
SendUnreliable(n) ==
  /\ channel' = FormatUnreliable(n)
  /\ sent' = Transmit(n, [rel |-> channel.reliable_seq,
                          reliable |-> FALSE,
                          oldest |-> channel.oldest_avail])

\* sdt_tx_ack, sdt_tx_mak_all, sdt_tx_mak_one.
TxUnreliable ==
  /\ ~hung
  /\ channel.total_seq < MaxTotal
  /\ SendUnreliable(1)
  /\ UNCHANGED <<sent_reliable, resends, foreign, hung, join, naks, leaving, memberVars>>

\* sdt_tx_join: the JOIN tells m where the numbers stand now.
TxJoin(m) ==
  /\ ~hung
  /\ ~join[m].isSent
  /\ join' = [join EXCEPT ![m] = [isSent |-> TRUE,
                                  total |-> channel.total_seq,
                                  rel |-> channel.reliable_seq]]
  /\ foreign' = [foreign EXCEPT ![m] = "member"]
  /\ UNCHANGED <<channel, sent_reliable, resends, hung, sent, naks, leaving, memberVars>>

\* sdt_rx_leaving: the record is only marked, the next tick deletes it.
RxLeaving(m) ==
  /\ ~hung
  /\ leaving[m] # {}
  /\ foreign[m] # "none"
  /\ foreign' = [foreign EXCEPT ![m] = "delete"]
  /\ UNCHANGED <<channel, sent_reliable, resends, hung, wireVars, memberVars>>

\* sdt_flag_for_resend: the loop looks at the head of the list and never
\* moves on, so it ends only on an empty list or when the head matches.
FlagLoopEnds(s) == Held = {} \/ s = Newest

\* sdt_rx_nak: one sdt_flag_for_resend per number asked for.  On an empty
\* list each fails and, if m is still in the list, each is answered with a
\* MAK (as many as there are transmit buffers); the head is flagged; any
\* other number keeps the leader in the loop for ever.
RxNak(n) ==
  LET asked == n.first..n.last
      room  == MaxTotal - channel.total_seq
      count == n.last - n.first + 1
      maks  == IF foreign[n.from] = "none" THEN 0
               ELSE IF count <= room THEN count ELSE room
  IN  /\ ~hung
      /\ n \in naks
      /\ n.first >= channel.oldest_avail
      /\ n.first <= n.last
      /\ \/ /\ Held = {}
            /\ SendUnreliable(maks)
            /\ UNCHANGED <<resends, hung>>
         \/ /\ Held # {}
            /\ \A s \in asked : FlagLoopEnds(s)
            /\ resends' = [resends EXCEPT ![n.first].blank = TRUE]
            /\ UNCHANGED <<channel, sent, hung>>
         \/ /\ \E s \in asked : ~FlagLoopEnds(s)
            /\ hung' = TRUE
            /\ UNCHANGED <<channel, sent, resends>>
      /\ UNCHANGED <<sent_reliable, foreign, join, naks, leaving, memberVars>>

\* Mutant of LeaderTick: a wrapper is kept for one tick after its time.
LeaderTickLate ==
  LET young == {s \in Held : resends[s].ttl > 0}
  IN  /\ ~hung
      /\ foreign' = [m \in Members |-> IF foreign[m] = "delete" THEN "none" ELSE foreign[m]]
      /\ resends' = [s \in young |-> [ttl |-> resends[s].ttl - 1, blank |-> FALSE]]
      /\ UNCHANGED <<channel, sent_reliable, hung, wireVars, memberVars>>

\* sdt_tick in the leader: marked members go; flagged wrappers are passed to
\* sdt_tx_resend, which returns before it sends anything; all grow older.
LeaderTick ==
  LET young == {s \in Held : resends[s].ttl > 1}
  IN  /\ ~hung
      /\ foreign' = [m \in Members |-> IF foreign[m] = "delete" THEN "none" ELSE foreign[m]]
      /\ resends' = [s \in young |-> [ttl |-> resends[s].ttl - 1, blank |-> FALSE]]
      /\ UNCHANGED <<channel, sent_reliable, hung, wireVars, memberVars>>

(***************************************************************************)
(* The members' side.                                                      *)
(***************************************************************************)
\* sdt_rx_join: the numbers of the JOIN replace whatever the member had.
RxJoin(m) ==
  /\ join[m].isSent
  /\ \/ status[m] = "out"
     \/ DuplicateJoins /\ status[m] \in {"in", "delete"}
  /\ copy' = [copy EXCEPT ![m] = [total |-> join[m].total, rel |-> join[m].rel]]
  /\ status' = [status EXCEPT ![m] = IF @ = "out" THEN "in" ELSE @]
  /\ UNCHANGED <<leaderVars, wireVars, delivered, handled, again>>

\* Mutant of check_sequence: a wrapper that follows the last reliable one is
\* taken for valid although it is not reliable itself.
check_sequence_any_kind(m, t) ==
  LET w     == sent[t]
      diff  == t - copy[m].total
      rdiff == w.rel - copy[m].rel
  IN  CASE diff = 1 -> "SEQ_VALID"
        [] diff < 1 -> "SEQ_DUPLICATE"
        [] diff > 1 /\ rdiff \in {0, 1} -> "SEQ_VALID"
        [] diff > 1 /\ rdiff \notin {0, 1} ->
             IF w.oldest - copy[m].rel > 1 THEN "SEQ_LOST" ELSE "SEQ_NAK"

\* Mutant of check_sequence: gives up while the next wrapper is still held.
check_sequence_gives_up(m, t) ==
  LET w     == sent[t]
      diff  == t - copy[m].total
      rdiff == w.rel - copy[m].rel
  IN  CASE diff = 1 -> "SEQ_VALID"
        [] diff < 1 -> "SEQ_DUPLICATE"
        [] diff > 1 /\ (rdiff = 0 \/ (w.reliable /\ rdiff = 1)) -> "SEQ_VALID"
        [] diff > 1 /\ rdiff # 0 /\ ~(w.reliable /\ rdiff = 1) ->
             IF w.oldest - copy[m].rel > 0 THEN "SEQ_LOST" ELSE "SEQ_NAK"

\* check_sequence: what the numbers of wrapper t make of it.
check_sequence(m, t) ==
  LET w     == sent[t]
      diff  == t - copy[m].total
      rdiff == w.rel - copy[m].rel
  IN  CASE diff = 1 -> "SEQ_VALID"
        [] diff < 1 -> "SEQ_DUPLICATE"
        [] diff > 1 /\ (rdiff = 0 \/ (w.reliable /\ rdiff = 1)) -> "SEQ_VALID"
        [] diff > 1 /\ rdiff # 0 /\ ~(w.reliable /\ rdiff = 1) ->
             IF w.oldest - copy[m].rel > 1 THEN "SEQ_LOST" ELSE "SEQ_NAK"

\* The int that a difference of two uint32_t is read as; half is 2^31.
Difference(a, b, half) ==
  LET d == ((a % (2 * half)) - (b % (2 * half))) % (2 * half)
  IN  IF d < half THEN d ELSE d - 2 * half

\* check_sequence on numbers of that width, as the code has it.
check_sequence_words(m, t, half) ==
  LET w     == sent[t]
      diff  == Difference(t, copy[m].total, half)
      rdiff == Difference(w.rel, copy[m].rel, half)
  IN  CASE diff = 1 -> "SEQ_VALID"
        [] diff < 1 -> "SEQ_DUPLICATE"
        [] diff > 1 /\ (rdiff = 0 \/ (w.reliable /\ rdiff = 1)) -> "SEQ_VALID"
        [] diff > 1 /\ rdiff # 0 /\ ~(w.reliable /\ rdiff = 1) ->
             IF Difference(w.oldest, copy[m].rel, half) > 1 THEN "SEQ_LOST" ELSE "SEQ_NAK"

\* The client block of wrapper t is dispatched to m.
HandOn(m, t) ==
  /\ handled' = [handled EXCEPT ![m] = @ \cup {t}]
  /\ again' = [again EXCEPT ![m] = IF t \in handled[m] THEN @ \cup {t} ELSE @]
  /\ delivered' = [delivered EXCEPT ![m] =
                     IF sent[t].reliable THEN Append(@, sent[t].rel) ELSE @]

Listening(m) == status[m] \in {"in", "delete"}

\* sdt_rx_wrapper, sequence valid: the copy moves on, the block is handed on.
RxValid(m, t) ==
  /\ check_sequence(m, t) = "SEQ_VALID"
  /\ copy' = [copy EXCEPT ![m] = [total |-> t, rel |-> sent[t].rel]]
  /\ HandOn(m, t)
  /\ UNCHANGED <<leaderVars, wireVars, status>>

\* sdt_tx_nak: m misses everything from its copy's number to last.
sdt_tx_nak(m, last) == [from |-> m, first |-> copy[m].rel + 1, last |-> last]

\* Mutant of RxGap: the copy takes the wrapper's total number all the same.
RxGapMovesOn(m, t) ==
  /\ check_sequence(m, t) = "SEQ_NAK"
  /\ naks' = naks \cup {sdt_tx_nak(m, sent[t].rel)}
  /\ copy' = [copy EXCEPT ![m].total = t]
  /\ IF sent[t].reliable THEN UNCHANGED <<handled, again, delivered>> ELSE HandOn(m, t)
  /\ UNCHANGED <<leaderVars, sent, join, leaving, status>>

\* Mutant of RxGap: the NAK asks again for the last wrapper that arrived.
RxGapAsksForLast(m, t) ==
  /\ check_sequence(m, t) = "SEQ_NAK"
  /\ naks' = naks \cup {[from |-> m, first |-> copy[m].rel, last |-> sent[t].rel]}
  /\ IF sent[t].reliable THEN UNCHANGED <<handled, again, delivered>> ELSE HandOn(m, t)
  /\ UNCHANGED <<leaderVars, sent, join, leaving, status, copy>>

\* sdt_rx_wrapper, reliable wrappers missing: NAK up to this one.  An
\* unreliable wrapper is handed on all the same, but the copy stays.
RxGap(m, t) ==
  /\ check_sequence(m, t) = "SEQ_NAK"
  /\ naks' = naks \cup {sdt_tx_nak(m, sent[t].rel)}
  /\ IF sent[t].reliable THEN UNCHANGED <<handled, again, delivered>> ELSE HandOn(m, t)
  /\ UNCHANGED <<leaderVars, sent, join, leaving, status, copy>>

\* sdt_rx_wrapper, sequence lost: say so and be deleted by the next tick.
RxLost(m, t) ==
  /\ check_sequence(m, t) = "SEQ_LOST"
  /\ leaving' = [leaving EXCEPT ![m] = @ \cup {"LOST_SEQUENCE"}]
  /\ status' = [status EXCEPT ![m] = "delete"]
  /\ UNCHANGED <<leaderVars, sent, join, naks, copy, delivered, handled, again>>

\* sdt_rx_wrapper (SEQ_DUPLICATE changes nothing).
RxWrapper(m, t) ==
  /\ Listening(m)
  /\ t \in DOMAIN sent
  /\ RxValid(m, t) \/ RxGap(m, t) \/ RxLost(m, t)

\* sdt_tick in a member: a marked record goes, or else the timer that every
\* wrapper rearms may have run out.
MemberTick(m) ==
  /\ Listening(m)
  /\ status' = [status EXCEPT ![m] = "gone"]
  /\ leaving' = [leaving EXCEPT ![m] = IF status[m] = "in"
                                       THEN @ \cup {"CHANNEL_EXPIRED"} ELSE @]
  /\ UNCHANGED <<leaderVars, sent, join, naks, copy, delivered, handled, again>>

-----------------------------------------------------------------------------
Init ==
  /\ channel = [total_seq |-> 0, reliable_seq |-> 0, oldest_avail |-> 0]
  /\ sent_reliable \in BOOLEAN     \* another channel of the process may be older
  /\ resends = [s \in {} |-> [ttl |-> 0, blank |-> FALSE]]
  /\ foreign = [m \in Members |-> "none"]
  /\ hung = FALSE
  /\ sent = [t \in 1..0 |-> [rel |-> 0, reliable |-> FALSE, oldest |-> 0]]
  /\ join = [m \in Members |-> NoJoin]
  /\ naks = {}
  /\ leaving = [m \in Members |-> {}]
  /\ status = [m \in Members |-> "out"]
  /\ copy = [m \in Members |-> [total |-> 0, rel |-> 0]]
  /\ delivered = [m \in Members |-> <<>>]
  /\ handled = [m \in Members |-> {}]
  /\ again = [m \in Members |-> {}]

Next ==
  \/ TxReliable
  \/ TxUnreliable
  \/ LeaderTick
  \/ \E n \in naks : RxNak(n)
  \/ \E m \in Members :
       \/ TxJoin(m)
       \/ RxLeaving(m)
       \/ RxJoin(m)
       \/ \E t \in DOMAIN sent : RxWrapper(m, t)
       \/ MemberTick(m)

Spec == Init /\ [][Next]_vars

-----------------------------------------------------------------------------
(***************************************************************************)
(* Properties.                                                             *)
(***************************************************************************)
\* The reliable wrappers the leader had issued when it sent wrapper t.
RelAt(t) == IF t = 0 THEN 0 ELSE sent[t].rel

\* Type invariant: every variable of leader, wire and members has its shape.
TypeOK ==
  /\ channel \in [total_seq : 0..MaxTotal, reliable_seq : Nat, oldest_avail : Nat]
  /\ sent_reliable \in BOOLEAN
  /\ Held \subseteq Nat
  /\ resends \in [Held -> [ttl : 1..ResendTicks, blank : BOOLEAN]]
  /\ foreign \in [Members -> {"none", "member", "delete"}]
  /\ hung \in BOOLEAN
  /\ sent \in [1..channel.total_seq -> [rel : Nat, reliable : BOOLEAN, oldest : Nat]]
  /\ join \in [Members -> [isSent : BOOLEAN, total : Nat, rel : Nat]]
  /\ naks \subseteq [from : Members, first : Nat, last : Nat]
  /\ leaving \in [Members -> SUBSET {"LOST_SEQUENCE", "CHANNEL_EXPIRED"}]
  /\ status \in [Members -> {"out", "in", "delete", "gone"}]
  /\ copy \in [Members -> [total : Nat, rel : Nat]]
  /\ delivered \in [Members -> Seq(Nat)]
  /\ handled \in [Members -> SUBSET Nat]
  /\ again \in [Members -> SUBSET Nat]

\* What a member believes of the channel (check_sequence, sdt_rx_join) is a
\* state the leader's channel really was in: total and reliable numbers that
\* were on the wire together, however the wrappers were lost or reordered.
CopyIsPast ==
  \A m \in Members :
    /\ copy[m].total <= channel.total_seq
    /\ copy[m].rel = RelAt(copy[m].total)

\* sdt_format_wrapper never offers more wrappers than the pool has records,
\* and sdt_save_buffer and sdt_tick never keep one that is no longer offered
\* (a member would give up on a wrapper the leader still holds).
WindowFits ==
  /\ channel.oldest_avail <= channel.reliable_seq
  /\ channel.reliable_seq - channel.oldest_avail < SDT_MAX_RESENDS
  /\ \A s \in Held : channel.oldest_avail <= s /\ s <= channel.reliable_seq

\* A member says LOST_SEQUENCE (sdt_rx_wrapper) only when it must: at that
\* moment the wrapper it waits for exists and the leader no longer holds it.
LostIsReal ==
  [][\A m \in Members :
       "LOST_SEQUENCE" \in leaving'[m] \ leaving[m] =>
         /\ copy[m].rel < channel.reliable_seq
         /\ copy[m].rel + 1 \notin Held]_vars

\* Every NAK sdt_tx_nak sends asks for a range that is not empty, was really
\* transmitted and lies after the JOIN: sdt_rx_nak's "Illogical parameters"
\* never happens between two instances of this code.
NakIsLogical ==
  \A n \in naks :
    /\ join[n.from].rel < n.first
    /\ n.first <= n.last
    /\ n.last <= channel.reliable_seq

(***************************************************************************)
(* The promise: to each member that has joined, the reliable wrappers are  *)
(* one stream without loss, repetition or reordering.                      *)
(***************************************************************************)
Stream == INSTANCE ReliableStream WITH
  published <- channel.reliable_seq,
  state     <- [m \in Members |-> IF status[m] = "delete" THEN "in" ELSE status[m]],
  base      <- [m \in Members |-> IF status[m] = "out" THEN 0 ELSE join[m].rel],
  delivered <- delivered

\* check_sequence and sdt_rx_wrapper implement that stream over a network
\* that loses, repeats and reorders wrappers.
StreamPromise == Stream!Spec

\* No client block is dispatched twice to a member ("old packet or duplicate -
\* discard", check_sequence).
HandledOnce == \A m \in Members : again[m] = {}

\* The leader always gets out of sdt_flag_for_resend ("returns -1 if fails, 0
\* otherwise").
NeverHung == ~hung
=============================================================================
