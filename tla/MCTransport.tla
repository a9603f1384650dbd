---------------------------- MODULE MCTransport ----------------------------
(***************************************************************************)
(* RLP, the transmit buffers, SDT's records, the allocation of groups and  *)
(* DMP for TLC.  They share no variable, so each behaviour exercises one   *)
(* of them (the parts of DMP one each): the states of their product say    *)
(* nothing more.                                                           *)
(***************************************************************************)
EXTENDS Rlp, TxBuffers, SdtRecords, Mcast, Dmp, DmpMessages, TLC

CONSTANTS a1, a2   \* groups for RLP, peers for the records: no behaviour has both

VARIABLE part   \* which of them runs

vars == <<rlpVars, txVars, sdt, mcastVars, dmpVars, msgVars, part>>

Init ==
  /\ RlpInit /\ TxInit /\ RecordsInit /\ McastInit /\ DmpInit /\ MsgInit
  /\ part \in {"rlp", "buffers", "records", "groups", "subscriptions", "addresses",
               "sending", "reading"}

Next ==
  /\ UNCHANGED part
  /\ \/ part = "rlp" /\ RlpNext /\ UNCHANGED <<txVars, sdt, mcastVars, dmpVars, msgVars>>
     \/ part = "buffers" /\ TxNext /\ UNCHANGED <<rlpVars, sdt, mcastVars, dmpVars, msgVars>>
     \/ part = "records" /\ RecordsNext /\ UNCHANGED <<rlpVars, txVars, mcastVars, dmpVars, msgVars>>
     \/ part = "groups" /\ McastNext /\ UNCHANGED <<rlpVars, txVars, sdt, dmpVars, msgVars>>
     \/ /\ \/ part = "subscriptions" /\ SubscriptionNext
           \/ part = "addresses" /\ AddressNext
        /\ UNCHANGED <<rlpVars, txVars, sdt, mcastVars, msgVars>>
     \/ /\ \/ part = "sending" /\ ComposeNext
           \/ part = "reading" /\ ReadNext
        /\ UNCHANGED <<rlpVars, txVars, sdt, mcastVars, dmpVars>>

Spec == Init /\ [][Next]_vars

\* A block of this code with two units, and one of others, which leaves fields out
\* and breaks off.
SomeOwnBlocks ==
  {[owner |-> "c1", units |-> <<[protocol |-> "SDT", data |-> "x"],
                                [protocol |-> "E131", data |-> "y"]>>]}
SomeForeignBlocks ==
  LET pdu(v, h, d, f) == [vec |-> v, hdr |-> h, data |-> d, fits |-> f]
  IN  {<<pdu("SDT", "c1", "x", TRUE), pdu("same", "c2", "same", TRUE),
         pdu("E131", "same", "y", FALSE)>>}

\* The default scope, another, and one that is out of range.
SomeScopes ==
  {[addr |-> {}, mask |-> {}],
   [addr |-> Address(239, 255, 0, 0), mask |-> Address(255, 255, 0, 0)],
   [addr |-> Address(239, 192, 1, 0), mask |-> Address(255, 255, 255, 0)]}

\* Addresses and values of different lengths.
SomeAddrs == {[header |-> "single", octets |-> <<7>>], [header |-> "range", octets |-> <<7, 1, 2>>]}
SomeValues == {<<8, 9>>}

\* Blocks of two PDUs with and without each field, and ones that break off.
SomeBlocks ==
  LET pdus == [vector : {"EVENT", "SUBSCRIBE", Same}, header : {"single", Same},
               data : {<<7>>, Same}, fits : {TRUE}]
      broken == [vector |-> "EVENT", header |-> "single", data |-> <<7>>, fits |-> FALSE]
  IN  [1 .. 2 -> pdus] \cup {<<p, broken, p>> : p \in pdus}

Interchangeable == Permutations({a1, a2})
=============================================================================
