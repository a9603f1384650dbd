----------------------------- MODULE LinkedLists -----------------------------
(***************************************************************************)
(* The lists of the fixed pools (rlpmem.c, sdtmem.c, dmpmem.c): a record   *)
(* is a slot of its pool, next leads from a slot to its successor, and the *)
(* null pointer, 0, ends a list.                                           *)
(***************************************************************************)
EXTENDS Naturals, Sequences, FiniteSets

\* The slots of a list that begins at `from', as a sequence, as far as the pool is
\* large: a list that is longer is a loop.
Walk(next, from) ==
  LET walk[n \in 0 .. Cardinality(DOMAIN next)] ==
        [i \in DOMAIN next \cup {0} |->
           IF i = 0 \/ n = 0 THEN <<>> ELSE <<i>> \o walk[n - 1][next[i]]]
  IN  walk[Cardinality(DOMAIN next)][from]

\* Whoever follows the list never comes to its end.
Endless(next, from) ==
  LET q == Walk(next, from) IN q # <<>> /\ next[q[Len(q)]] # 0
=============================================================================
