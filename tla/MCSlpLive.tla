------------------------------ MODULE MCSlpLive ------------------------------
(***************************************************************************)
(* SlpAgent with its timer made visible: clock turns at every call of      *)
(* slp_tick (the code's own count is msticks), so that the fairness of the *)
(* timer can be stated without ENABLED Tick, which TLC is slow at.         *)
(***************************************************************************)
EXTENDS SlpAgent

VARIABLE clock

LiveInit == Init /\ clock = 0
LiveNext == \/ Tick /\ clock' = 1 - clock
            \/ (RxAny \/ AppAny \/ DaAny) /\ UNCHANGED clock

\* Tick is enabled until the process dies: this says WF_vars(Tick).
TimerRuns == <>[](slp.dead) \/ []<><<clock' # clock>>_clock

LiveSpec == LiveInit /\ [][LiveNext]_<<vars, clock>> /\ TimerRuns /\ NetFair
=============================================================================
