------------------------------- MODULE Mcast -------------------------------
(***************************************************************************)
(* Allocation of multicast groups (common/mcast_util.c, ANSI E1.17 EPI10): *)
(* a group is the scope, the last octet of the host's address and a number *)
(* that the component counts.  An address is the set of its bits that are  *)
(* 1, bit 0 the least significant, in host byte order: the bitwise         *)
(* operators of C are those of sets.                                       *)
(***************************************************************************)
EXTENDS Integers, Sequences, FiniteSets, FiniteSetsExt

CONSTANTS
  Octets,    \* the hosts, each by the last octet of its address
  Locals,    \* the components of a host
  Scopes,    \* scope address and mask, as applications pass them
  Hashes,    \* what the CID of a component comes to, in 16 bits
  MaxDraws   \* bound: groups drawn in a behaviour

ASSUME McastAssumption ==
  /\ Octets \subseteq 1 .. 255
  /\ Hashes \subseteq 0 .. 2^16 - 1
  /\ MaxDraws \in 1 .. 2^8 - 1   \* no counter comes round

VARIABLES
  globals,    \* per host: scope_and_host, and HostShift for the static dyn_mask
  dyn_mcast,  \* comp->dyn_mcast, per host and component
  scope_of,      \* history: the scope last asked for on a host, with its mask
  inited,     \* history: the components mcast_alloc_init has accepted
  drawn       \* history: the groups drawn, with what was asked for by then

mcastVars == <<globals, dyn_mcast, scope_of, inited, drawn>>

\* The bits of n, moved up by k.
Bits(n, k) == {i + k : i \in {j \in 0 .. 16 : (n \div 2^j) % 2 = 1}}

Address(a, b, c, d) == Bits(a, 24) \cup Bits(b, 16) \cup Bits(c, 8) \cup Bits(d, 0)

\* epi10.h.
E1_17_AUTO_SCOPE == [addr |-> Address(239, 192, 0, 0), mask |-> Address(255, 252, 0, 0)]
EPI10_SCOPE_MIN_MASK == Address(255, 192, 0, 0)
EPI10_SCOPE_MAX_MASK == Address(255, 255, 0, 0)

\* An address of 0 asks for the default scope.
Wanted(scope) == IF scope.addr = {} THEN E1_17_AUTO_SCOPE ELSE scope

InRange(scope) ==
  [addr |-> scope.addr \cap scope.mask,
   mask |-> (scope.mask \cup EPI10_SCOPE_MIN_MASK) \cap EPI10_SCOPE_MAX_MASK]

\* Mutant of HostShift: ffs_1 counts from 1, and this forgets it.
HostShiftTooFar(mask) == Min(mask) + 1 - 8

\* ffs_1(scopemask) - 9.
HostShift(mask) == Min(mask) + 1 - 9

\* mcast_alloc_init; a scope out of range changes nothing.
mcast_alloc_init(h, c, wanted, hash) ==
  LET scope == InRange(Wanted(wanted))
      shift == HostShift(scope.mask)
  IN  /\ c \notin inited[h]
      /\ scope.addr \subseteq scope.mask
      /\ globals' = [globals EXCEPT ![h] = [scope_and_host |-> scope.addr \cup Bits(h, shift),
                                            shift |-> shift]]
      /\ dyn_mcast' = [dyn_mcast EXCEPT ![h][c] = hash % 2^shift]
      /\ scope_of' = [scope_of EXCEPT ![h] = scope]
      /\ inited' = [inited EXCEPT ![h] = @ \cup {c}]
      /\ UNCHANGED drawn

\* mcast_alloc_new, which nothing keeps from being called first.
mcast_alloc_new(h, c) ==
  LET g == globals[h]
      group == g.scope_and_host \cup Bits(dyn_mcast[h][c] % 2^g.shift, 0)
  IN  /\ Len(drawn) < MaxDraws
      /\ dyn_mcast' = [dyn_mcast EXCEPT ![h][c] = (@ + 1) % 2^16]
      /\ drawn' = Append(drawn, [host |-> h, comp |-> c, group |-> group,
                                 scope |-> scope_of[h], init |-> c \in inited[h]])
      /\ UNCHANGED <<globals, scope_of, inited>>

\* Statics are zero; a mask of zero keeps no bit of the number, like a shift of 0.
McastInit ==
  /\ globals = [h \in Octets |-> [scope_and_host |-> {}, shift |-> 0]]
  /\ dyn_mcast = [h \in Octets |-> [c \in Locals |-> 0]]
  /\ scope_of = [h \in Octets |-> [addr |-> {}, mask |-> {}]]
  /\ inited = [h \in Octets |-> {}]
  /\ drawn = <<>>

McastNext ==
  \E h \in Octets, c \in Locals :
    \/ \E scope \in Scopes, hash \in Hashes : mcast_alloc_init(h, c, scope, hash)
    \/ mcast_alloc_new(h, c)

McastSpec == McastInit /\ [][McastNext]_mcastVars
-----------------------------------------------------------------------------
\* What a host draws once a scope is asked for lies in that scope; hosts whose
\* last octets differ never draw the same group of a scope, whatever their
\* components count, and a component draws no group of a scope twice before its
\* counter comes round, though all components of the process share scope_and_host
\* and dyn_mask (mcast_alloc_init).
GroupsApart ==
  \A i, j \in DOMAIN drawn :
    LET d == drawn[i]
        e == drawn[j]
    IN  /\ d.scope.mask # {} => d.group \cap d.scope.mask = d.scope.addr
        /\ i < j /\ d.scope = e.scope /\ d.scope.mask # {} /\ d.group = e.group =>
             /\ d.host = e.host
             /\ d.comp = e.comp => d.init # e.init
=============================================================================
