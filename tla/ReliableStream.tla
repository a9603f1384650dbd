--------------------------- MODULE ReliableStream ---------------------------
(***************************************************************************)
(* What an SDT channel promises to the members of one leader, with no      *)
(* sequence numbers on the wire, no duplicates and no losses: the leader   *)
(* numbers its reliable wrappers 1, 2, 3, ...; a member that starts when   *)
(* `base' of them exist is handed base+1, base+2, ... without a hole,      *)
(* without a repetition and in that order, until it leaves.                *)
(***************************************************************************)
EXTENDS Naturals, Sequences

CONSTANT Members

VARIABLES published,  \* how many reliable wrappers the leader has issued
          state,      \* state[m]: "out", "in" or "gone"
          base,       \* base[m]: what was already published when m started
          delivered   \* delivered[m]: the numbers handed to m, in order

svars == <<published, state, base, delivered>>

Init ==
  /\ published = 0
  /\ state = [m \in Members |-> "out"]
  /\ base = [m \in Members |-> 0]
  /\ delivered = [m \in Members |-> <<>>]

Publish ==
  /\ published' = published + 1
  /\ UNCHANGED <<state, base, delivered>>

\* m starts listening; it asked some time ago, so it may start in the past.
Start(m) ==
  /\ state[m] = "out"
  /\ \E b \in 0..published : base' = [base EXCEPT ![m] = b]
  /\ state' = [state EXCEPT ![m] = "in"]
  /\ UNCHANGED <<published, delivered>>

\* The only wrapper that may be handed to m is the one after the last.
Deliver(m) ==
  LET next == base[m] + Len(delivered[m]) + 1
  IN  /\ state[m] = "in"
      /\ next <= published
      /\ delivered' = [delivered EXCEPT ![m] = Append(@, next)]
      /\ UNCHANGED <<published, state, base>>

Leave(m) ==
  /\ state[m] = "in"
  /\ state' = [state EXCEPT ![m] = "gone"]
  /\ UNCHANGED <<published, base, delivered>>

Next == Publish \/ \E m \in Members : Start(m) \/ Deliver(m) \/ Leave(m)

Spec == Init /\ [][Next]_svars
=============================================================================
