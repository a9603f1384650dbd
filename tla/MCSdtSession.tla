---------------------------- MODULE MCSdtSession ----------------------------
(* SdtSession on small instances: what the applications of h1 and h2 do. *)
EXTENDS SdtSession

CONSTANTS h1, h2   \* the hosts, as model values

\* h1 joins h2, nobody leaves.
OneSide == [h \in {h1, h2} |-> IF h = h1 THEN {"join"} ELSE {}]

\* The same, and h2 is shut down and started again.
Stops == [h \in {h1, h2} |-> IF h = h1 THEN {"join"} ELSE {"shutdown"}]

\* Each of the two may join the other, at any time; h1 also leaves and joins
\* what it has joined, h2 sends data.
Busy == [h \in {h1, h2} |-> IF h = h1 THEN {"join", "join again", "leave"}
                                      ELSE {"join", "data"}]

\* The fairness of sdt_tick, WF_vars(Tick(h)), without ENABLED, which TLC is
\* slow at: Tick(h) changes something exactly if TickHasWork(h) (when it sends,
\* a record goes, and what it sends may be lost).
TickHasWork(h) == Runs(h) /\ TickOwn(TickPeer(host[h]).s) # host[h]
TickFair == \A h \in Hosts : []<>~TickHasWork(h) \/ []<><<Tick(h)>>_vars

LiveSpec == Init /\ [][Next]_vars /\ TickFair
=============================================================================
