---------------------------- MODULE MCSdtChannel ----------------------------
(* SdtChannel on small instances: the members are model values. *)
EXTENDS SdtChannel

\* Bound: after a repeated JOIN a member may hear the same wrappers over and
\* over; explore what lies before it has heard more than MaxTotal of them.
HeardBound == \A m \in Members : Len(delivered[m]) <= MaxTotal
=============================================================================
