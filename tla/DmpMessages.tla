----------------------------- MODULE DmpMessages -----------------------------
(***************************************************************************)
(* DMP's messages (dmp.c): how they are composed, in one static area for   *)
(* all threads, and how a block of them is read.  A message is a vector, a *)
(* header (the kind of its address) and data (octets: the address and what *)
(* follows it).  What an address says is in Dmp; the buffer a message is   *)
(* copied to and the wrapper it goes out in are in TxBuffers and           *)
(* SdtChannel.  The handler for received messages only logs what it reads. *)
(***************************************************************************)
EXTENDS Naturals, Sequences

CONSTANTS
  Writers,    \* threads that send DMP messages
  Addrs,      \* encoded addresses: [header |-> ..., octets |-> ...]
  Values,     \* sequences of octets: values of properties
  Reasons,    \* octets: why something is refused
  Same,       \* stands for a field that is left out; no field has this value
  Blocks      \* blocks of other senders: sequences of PDUs, see below

VARIABLES
  area,       \* static data[300]: each field as it was written last
  writer,     \* per thread: the message it composes and how far it is
  read        \* history: the block read in the last step, as meant and as read

msgVars == <<area, writer, read>>

NoMessage == [vector |-> "none", header |-> "none", data |-> <<>>]

NoBlock == [meant |-> <<>>, got |-> <<>>, disturbed |-> FALSE]

MsgInit ==
  /\ area = [vector |-> "none", header |-> "none", data |-> <<>>, length |-> 0]
  /\ writer = [t \in Writers |-> [pc |-> "idle", msg |-> NoMessage, at |-> 0, disturbed |-> FALSE]]
  /\ read = NoBlock

-----------------------------------------------------------------------------
(***************************************************************************)
(* The messages this code sends: all have every field.                     *)
(***************************************************************************)
Message(v, a, body) == [vector |-> v, header |-> a.header, data |-> a.octets \o body]

dmp_tx_get_prop_reply(a, value) == Message("GET_PROPERTY_REPLY", a, value)
dmp_tx_event(a, value) == Message("EVENT", a, value)
dmp_tx_set_prop_fail(a, reason) == Message("SET_PROPERTY_FAIL", a, <<reason>>)
dmp_tx_get_prop_fail(a, reason) == Message("GET_PROPERTY_FAIL", a, <<reason>>)
dmp_tx_subscribe_accept(a) == Message("SUBSCRIBE_ACCEPT", a, <<>>)
dmp_tx_subscribe_reject(a, reason) == Message("SUBSCRIBE_REJECT", a, <<reason>>)

\* Every one of them that has address a.
Sendable(a) ==
  (UNION {{dmp_tx_get_prop_reply(a, v), dmp_tx_event(a, v)} : v \in Values})
  \cup (UNION {{dmp_tx_set_prop_fail(a, r), dmp_tx_get_prop_fail(a, r),
                dmp_tx_subscribe_reject(a, r)} : r \in Reasons})
  \cup {dmp_tx_subscribe_accept(a)}

\* Addresses and values are octets, and no field of a message is Same.
ASSUME MessagesAssumption ==
  /\ \A a \in Addrs : a.octets \in Seq(Nat)
  /\ Values \subseteq Seq(Nat) /\ Reasons \subseteq Nat
  /\ \A a \in Addrs : \A m \in Sendable(a) : Same \notin {m.vector, m.header, m.data}

\* The octets of `new' written from position at + 1 on over those of `old'.
Overwritten(old, new, at) ==
  LET top == IF Len(old) > at + Len(new) THEN Len(old) ELSE at + Len(new)
  IN  [i \in 1 .. top |-> IF i \in at + 1 .. at + Len(new) THEN new[i - at] ELSE old[i]]

(***************************************************************************)
(* A block on the wire.  A PDU's vector, header and data are given, or     *)
(* Same as in the PDU before; fits says that it ends within the block.     *)
(***************************************************************************)
Whole(block) ==
  block # <<>> /\ Same \notin {block[1].vector, block[1].header, block[1].data}

\* What a block means: the PDUs before the first that does not fit, each field
\* that of the last PDU that gives it.
Meaning(block) ==
  LET ends == CHOOSE n \in 0 .. Len(block) :
                /\ \A i \in 1 .. n : block[i].fits
                /\ n = Len(block) \/ ~block[n + 1].fits
      given(n, field) ==
        block[CHOOSE i \in 1 .. n : /\ block[i][field] # Same
                                   /\ \A j \in i + 1 .. n : block[j][field] = Same][field]
  IN  [n \in 1 .. ends |-> [vector |-> given(n, "vector"), header |-> given(n, "header"),
                            data |-> given(n, "data")]]

ASSUME BlocksAssumption ==
  \A b \in Blocks : /\ Len(b) \in Nat /\ DOMAIN b = 1 .. Len(b)
                    /\ \A i \in 1 .. Len(b) : b[i].fits \in BOOLEAN

\* Mutant of Taken: a PDU without data has none.
TakenWithoutData(pdu, before) ==
  [vector |-> IF pdu.vector = Same THEN before.vector ELSE pdu.vector,
   header |-> IF pdu.header = Same THEN before.header ELSE pdu.header,
   data |-> IF pdu.data = Same THEN <<>> ELSE pdu.data]

\* The variables of the loop after a PDU: vector, header, datap and data_size.
Taken(pdu, before) ==
  [vector |-> IF pdu.vector = Same THEN before.vector ELSE pdu.vector,
   header |-> IF pdu.header = Same THEN before.header ELSE pdu.header,
   data |-> IF pdu.data = Same THEN before.data ELSE pdu.data]

\* Nothing is read of a block whose first PDU lacks a field; a PDU that does not
\* fit is the end.
dmp_client_rx_handler(block) ==
  LET loop[n \in 0 .. Len(block)] ==
        IF n = 0 THEN [at |-> NoMessage, out |-> <<>>, ok |-> TRUE]
        ELSE IF ~loop[n - 1].ok \/ ~block[n].fits THEN [loop[n - 1] EXCEPT !.ok = FALSE]
        ELSE LET at == Taken(block[n], loop[n - 1].at)
             IN  [at |-> at, out |-> Append(loop[n - 1].out, at), ok |-> TRUE]
  IN  IF Whole(block) THEN loop[Len(block)].out ELSE <<>>

-----------------------------------------------------------------------------
(***************************************************************************)
(* Actions.                                                                *)
(***************************************************************************)
\* Thread t writes to the area: every other that composes is disturbed.
Writes(t, new) ==
  writer' = [u \in Writers |->
               IF u = t THEN new
               ELSE [writer[u] EXCEPT !.disturbed = @ \/ writer[u].pc # "idle"]]

\* The vector and the address header.
ComposeHeader(t, a, m) ==
  /\ writer[t].pc = "idle"
  /\ area' = [area EXCEPT !.vector = m.vector, !.header = m.header,
                          !.data = Overwritten(@, a.octets, 0)]
  /\ Writes(t, [pc |-> "body", msg |-> m, at |-> Len(a.octets), disturbed |-> FALSE])
  /\ read' = NoBlock

\* The value, octet by octet in the code, or the reason.
ComposeBody(t) ==
  LET w == writer[t]
  IN  /\ w.pc = "body"
      /\ area' = [area EXCEPT !.data = Overwritten(@, SubSeq(w.msg.data, w.at + 1, Len(w.msg.data)), w.at)]
      /\ Writes(t, [w EXCEPT !.pc = "length", !.at = Len(w.msg.data)])
      /\ read' = NoBlock

ComposeLength(t) ==
  /\ writer[t].pc = "length"
  /\ area' = [area EXCEPT !.length = writer[t].at]
  /\ Writes(t, [writer[t] EXCEPT !.pc = "send"])
  /\ read' = NoBlock

\* dmp_tx_pdu copies as many octets as t has composed, and the peer reads them; of
\* a block whose length is another's, nothing is said.
Transmit(t) ==
  LET w == writer[t]
      pdu == [vector |-> area.vector, header |-> area.header,
              data |-> SubSeq(area.data, 1, w.at), fits |-> area.length = w.at]
  IN  /\ w.pc = "send"
      /\ read' = [meant |-> <<w.msg>>, got |-> dmp_client_rx_handler(<<pdu>>),
                  disturbed |-> w.disturbed]
      /\ writer' = [writer EXCEPT ![t] = [pc |-> "idle", msg |-> NoMessage, at |-> 0,
                                          disturbed |-> FALSE]]
      /\ UNCHANGED area

\* A block of another sender.
ReadBlock(block) ==
  /\ read' = [meant |-> IF Whole(block) THEN Meaning(block) ELSE <<>>,
              got |-> dmp_client_rx_handler(block), disturbed |-> FALSE]
  /\ UNCHANGED <<area, writer>>

ComposeNext ==
  \/ \E t \in Writers, a \in Addrs : \E m \in Sendable(a) : ComposeHeader(t, a, m)
  \/ \E t \in Writers : ComposeBody(t) \/ ComposeLength(t) \/ Transmit(t)

ReadNext == \E block \in Blocks : ReadBlock(block)

MsgNext == ComposeNext \/ ReadNext

MsgSpec == MsgInit /\ [][MsgNext]_msgVars
-----------------------------------------------------------------------------
\* A message is read as it was meant: one of another sender whichever fields it
\* leaves out; one of ours whatever was in the area before - but for one that
\* another thread wrote over ("this routine needs to use a buffer other than
\* "data" because it can interrupt the other tasks using it", dmp.c).
MessagesRead == ~read.disturbed => read.got = read.meant
=============================================================================
