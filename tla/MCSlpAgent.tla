----------------------------- MODULE MCSlpAgent -----------------------------
(***************************************************************************)
(* The SLP agent for TLC: no action treats one DA unlike another.          *)
(***************************************************************************)
EXTENDS SlpAgent, TLC

Symmetry == Permutations(DAs)
=============================================================================
