----------------------------- MODULE TxBuffers -----------------------------
(***************************************************************************)
(* The transmit buffers of RLP (rlpmem.c, static memory) and who holds     *)
(* them: SDT, which keeps the buffer of a reliable wrapper in the list of  *)
(* resend records (sdt_save_buffer), and DMP (dmp_tx_pdu).  SDT's handlers *)
(* and its timer send under the lock; the application's own thread         *)
(* (dmp_tx_pdu, sdt_tx_reliable_data) takes no lock.  The records are slots *)
(* of a fixed pool (sdtmem.c), linked by index; None ends the list.        *)
(***************************************************************************)
EXTENDS LinkedLists

CONSTANTS
  MAX_TXBUFS,        \* size of the pool of buffers
  SDT_MAX_RESENDS    \* size of the pool of resend records

ASSUME BuffersAssumption ==
  /\ MAX_TXBUFS \in Nat \ {0}
  /\ SDT_MAX_RESENDS \in Nat \ {0}

VARIABLES
  usage,     \* the use count of each buffer; 0 is free
  bufnum,    \* static of __new_txbuf: the buffer handed out last
  record,    \* the pool of resend records: the buffer each holds, its successor
  resends,   \* the head of their list, newest first
  started,   \* sdt_state is ssSTARTED
  died,      \* "no", "hung" in an endless list, "crashed" on a null pointer
  left,      \* history: sdt_shutdown has left free records in the list
  sender,    \* per thread: what it has of sending a message
  lost,      \* history: buffers that DMP has let go of without releasing them
  raced      \* history: a buffer was taken while it was somebody else's

poolVars == <<record, resends, started, died, left>>
txVars == <<usage, bufnum, poolVars, sender, lost, raced>>

Buffers == 1 .. MAX_TXBUFS
Records == 1 .. SDT_MAX_RESENDS
None == 0

\* "locked" stands for the threads that send under the lock, one at a time.
Threads == {"locked", "application"}

Idle == [pc |-> "idle", buf |-> 0]

TxInit ==
  /\ usage = [b \in Buffers |-> 0]
  /\ bufnum = 1
  /\ record = [r \in Records |-> [buf |-> None, next |-> None]]
  /\ resends = None
  /\ started = TRUE
  /\ died = "no"
  /\ left = FALSE
  /\ sender = [t \in Threads |-> Idle]
  /\ lost = {}
  /\ raced = FALSE

\* The n-th buffer after `from', round the pool.
After(from, n) == ((from - 1 + n) % MAX_TXBUFS) + 1

\* Mutant of new_txbuf: the search stops at the end of the pool.
new_txbuf_stops(u, from) ==
  LET free == {n \in 0 .. MAX_TXBUFS - from : u[After(from, n)] = 0}
  IN  IF free = {} THEN 0 ELSE After(from, CHOOSE n \in free : \A k \in free : n <= k)

\* __new_txbuf: the first free buffer from the last one handed out on, round the
\* pool; 0 if there is none.  It does not mark it.
new_txbuf(u, from) ==
  LET free == {n \in 0 .. MAX_TXBUFS - 1 : u[After(from, n)] = 0}
  IN  IF free = {} THEN 0 ELSE After(from, CHOOSE n \in free : \A k \in free : n <= k)

\* rlpm_release_txbuf, with rlp_decuse: a count of 0 stays.
Release(u, b) == IF u[b] = 0 THEN u ELSE [u EXCEPT ![b] = @ - 1]

\* The buffers of S are released.
ReleaseAll(u, S) == [b \in Buffers |-> IF b \in S THEN Release(u, b)[b] ELSE u[b]]

\* Where each record leads, and the list of records.
Links(records) == [r \in Records |-> records[r].next]

RecordList == Walk(Links(record), resends)

Loops == Endless(Links(record), resends)

\* The buffers that records hold.
Held == {record[r].buf : r \in Records} \ {None}

\* The first half of rlpm_new_txbuf: find a buffer.  Without one nothing is sent.
FindBuffer(t) ==
  LET b == new_txbuf(usage, bufnum)
  IN  /\ started
      /\ sender[t].pc = "idle"
      /\ b # 0
      /\ bufnum' = b
      /\ sender' = [sender EXCEPT ![t] = [pc |-> "found", buf |-> b]]
      /\ UNCHANGED <<usage, poolVars, lost, raced>>

\* Its second half, after the memory for the packet is there: mark it.
TakeBuffer(t) ==
  LET b == sender[t].buf
      others == Held \cup lost
                \cup {sender[o].buf : o \in {x \in Threads \ {t} : sender[x].pc = "sending"}}
  IN  /\ sender[t].pc = "found"
      /\ usage' = [usage EXCEPT ![b] = 1]
      /\ sender' = [sender EXCEPT ![t].pc = "sending"]
      /\ raced' = (raced \/ b \in others)
      /\ UNCHANGED <<bufnum, poolVars, lost>>

\* An unreliable SDT message, or a DMP message to a member: sent and released.
Send(t) ==
  /\ sender[t].pc = "sending"
  /\ usage' = Release(usage, sender[t].buf)
  /\ sender' = [sender EXCEPT ![t] = Idle]
  /\ UNCHANGED <<bufnum, poolVars, lost, raced>>

\* The first record that holds no buffer; where it stands in the list, if it
\* does, is not looked at.
sdtm_new_resend ==
  LET free == {r \in Records : record[r].buf = None}
  IN  IF free = {} THEN None ELSE CHOOSE r \in free : \A q \in free : r <= q

\* Mutant of sdt_save_buffer: the record before the one used again still leads to it.
save_keeps_tail(b) ==
  LET new == sdtm_new_resend
      r == IF new = None THEN RecordList[Len(RecordList)] ELSE new
  IN  /\ record' = [record EXCEPT ![r] = [buf |-> b, next |-> resends]]
      /\ resends' = r
      /\ usage' = Release([(IF new = None THEN Release(usage, record[r].buf) ELSE usage)
                            EXCEPT ![b] = @ + 1], b)

\* Mutant of sdt_save_buffer: the record used again keeps its old buffer's count.
save_keeps_count(b) ==
  LET new == sdtm_new_resend
      n == Len(RecordList)
      r == IF new = None THEN RecordList[n] ELSE new
      cut == IF new = None /\ n > 1 THEN [record EXCEPT ![RecordList[n - 1]].next = None] ELSE record
  IN  /\ record' = [cut EXCEPT ![r] = [buf |-> b, next |-> resends]]
      /\ resends' = r
      /\ usage' = Release([usage EXCEPT ![b] = @ + 1], b)

\* Mutant of sdt_save_buffer: the buffer is not released when it is sent.
save_releases_nothing(b) ==
  LET new == sdtm_new_resend
      n == Len(RecordList)
      r == IF new = None THEN RecordList[n] ELSE new
      cut == IF new = None /\ n > 1 THEN [record EXCEPT ![RecordList[n - 1]].next = None] ELSE record
  IN  /\ record' = [cut EXCEPT ![r] = [buf |-> b, next |-> resends]]
      /\ resends' = r
      /\ usage' = [(IF new = None THEN Release(usage, record[r].buf) ELSE usage) EXCEPT ![b] = @ + 1]

\* The buffer b of a reliable wrapper is kept: by a new record, or by the one at
\* the end of the list, whose buffer is released and which the record before it
\* forgets.  b is counted once more, for the record, and once less when it is sent.
sdt_save_buffer(b) ==
  LET new == sdtm_new_resend
      n == Len(RecordList)
      r == IF new = None THEN RecordList[n] ELSE new
      cut == IF new = None /\ n > 1 THEN [record EXCEPT ![RecordList[n - 1]].next = None] ELSE record
  IN  /\ record' = [cut EXCEPT ![r] = [buf |-> b, next |-> resends]]
      /\ resends' = r
      /\ usage' = Release([(IF new = None THEN Release(usage, record[r].buf) ELSE usage)
                            EXCEPT ![b] = @ + 1], b)

\* A reliable wrapper: saved, sent and released.
SaveAndSend(t) ==
  /\ sender[t].pc = "sending"
  /\ IF sdtm_new_resend = None /\ Loops
     THEN died' = "hung" /\ UNCHANGED <<record, resends, usage, sender>>
     ELSE /\ sdt_save_buffer(sender[t].buf)
          /\ sender' = [sender EXCEPT ![t] = Idle]
          /\ UNCHANGED died
  /\ UNCHANGED <<bufnum, started, left, lost, raced>>

\* dmp_tx_pdu to a component that has a channel and is no member of ours returns
\* without releasing the buffer.
DmpForgets ==
  /\ sender["application"].pc = "sending"
  /\ lost' = lost \cup {sender["application"].buf}
  /\ sender' = [sender EXCEPT !["application"] = Idle]
  /\ UNCHANGED <<usage, bufnum, poolVars, raced>>

\* sdt_tick, under the lock: the time of the n oldest records is up; one that
\* holds no buffer has a null pointer for it.
Expire(n) ==
  LET list == RecordList
      gone == {list[i] : i \in Len(list) - n + 1 .. Len(list)}
  IN  /\ started
      /\ sender["locked"].pc = "idle"
      /\ n <= Len(list)
      /\ CASE Loops -> died' = "hung" /\ UNCHANGED <<usage, record, resends>>
           [] ~Loops /\ (\E r \in gone : record[r].buf = None) ->
                died' = "crashed" /\ UNCHANGED <<usage, record, resends>>
           [] ~Loops /\ (\A r \in gone : record[r].buf # None) ->
                /\ usage' = ReleaseAll(usage, {record[r].buf : r \in gone})
                /\ record' = [r \in Records |->
                                [buf |-> IF r \in gone THEN None ELSE record[r].buf,
                                 next |-> IF record[r].next \in gone /\ r \notin gone
                                            THEN None ELSE record[r].next]]
                /\ resends' = IF resends \in gone THEN None ELSE resends
                /\ UNCHANGED died
      /\ UNCHANGED <<bufnum, started, left, sender, lost, raced>>

\* What sdt_shutdown does about resends, under the lock, while nobody sends: the
\* buffers of the list are released and all records are free, but they stay in it.
Shutdown ==
  /\ started
  /\ \A t \in Threads : sender[t].pc = "idle"
  /\ IF Loops
     THEN died' = "hung" /\ UNCHANGED <<usage, record, started, left>>
     ELSE /\ usage' = ReleaseAll(usage, {record[RecordList[i]].buf : i \in DOMAIN RecordList})
          /\ record' = [r \in Records |-> [record[r] EXCEPT !.buf = None]]
          /\ started' = FALSE
          /\ left' = (left \/ resends # None)
          /\ UNCHANGED died
  /\ UNCHANGED <<bufnum, resends, sender, lost, raced>>

\* sdt_startup: sdtm_init runs once, nothing empties the list.
Startup ==
  /\ ~started
  /\ started' = TRUE
  /\ UNCHANGED <<usage, bufnum, record, resends, died, left, sender, lost, raced>>

\* Bound: nothing is followed any further once two threads have the same buffer.
TxNext ==
  /\ died = "no"
  /\ ~raced
  /\ \/ \E t \in Threads : FindBuffer(t) \/ TakeBuffer(t) \/ Send(t) \/ SaveAndSend(t)
     \/ DmpForgets
     \/ \E n \in Records : Expire(n)
     \/ Shutdown
     \/ Startup

TxSpec == TxInit /\ [][TxNext]_txVars
-----------------------------------------------------------------------------
\* Types; between two calls no buffer is counted twice.
TxTypeOK ==
  /\ usage \in [Buffers -> {0, 1}]
  /\ bufnum \in Buffers
  /\ record \in [Records -> [buf : Buffers \cup {None}, next : Records \cup {None}]]
  /\ resends \in Records \cup {None}
  /\ started \in BOOLEAN /\ left \in BOOLEAN
  /\ died \in {"no", "hung", "crashed"}
  /\ sender \in [Threads -> [pc : {"idle", "found", "sending"}, buf : Buffers \cup {0}]]
  /\ lost \subseteq Buffers
  /\ raced \in BOOLEAN

\* The use counts are right (rlpmem.c: "usage" is non zero if the buffer is
\* used): each buffer in use is held by one record, one sender or was let go of by
\* DMP, and it is counted once - unless two threads were in rlpm_new_txbuf at
\* once, which gives both the same buffer.
HeldOnce ==
  ~raced =>
    \A b \in Buffers :
      LET records == Cardinality({r \in Records : record[r].buf = b})
          sending == Cardinality({t \in Threads : sender[t].pc = "sending" /\ sender[t].buf = b})
      IN  /\ usage[b] = records + sending + (IF b \in lost THEN 1 ELSE 0)
          /\ usage[b] <= 1

\* "resends contains the list of buffers in LIFO" (sdt.c): the list ends, and
\* holds just the records that hold a buffer, so no call hangs or crashes on it -
\* until SDT is shut down with wrappers in the list (sdt_shutdown does not empty
\* it, and started again it meets its records there).
ListOfRecords ==
  ~left =>
    /\ died = "no"
    /\ ~Loops
    /\ {RecordList[i] : i \in DOMAIN RecordList} = {r \in Records : record[r].buf # None}

\* opt.h: SDT_MAX_RESENDS "must be less than MAX_TXBUFS".  Two threads may send at
\* once, so it takes one buffer more: then a thread that wants to send goes without
\* a buffer only if DMP has lost some.
StarvedByLoss ==
  (\E t \in Threads : sender[t].pc = "idle") /\ new_txbuf(usage, bufnum) = 0 /\ ~raced =>
    Cardinality(lost) + SDT_MAX_RESENDS + 1 >= MAX_TXBUFS
=============================================================================
