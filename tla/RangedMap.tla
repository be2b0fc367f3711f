----------------------------- MODULE RangedMap -----------------------------
(***************************************************************************)
(* The map from disjoint address ranges to values of the memory loader,    *)
(* tb/verilator/lowrisc_dv_verilator_memutil_dpi/cpp/ranged_map.h.  A map  *)
(* is a set of entries [lo, hi, val], ordered by lo as std::map orders it. *)
(***************************************************************************)
EXTENDS Integers, FiniteSets

Entry(lo, hi, val) == [lo |-> lo, hi |-> hi, val |-> val]

Lowest(es)  == CHOOSE e \in es : \A f \in es : e.lo <= f.lo
Highest(es) == CHOOSE e \in es : \A f \in es : f.lo <= e.lo

\* upper_bound: the entries that start strictly above an address.
Above(map, a) == {e \in map : e.lo > a}
UpTo(map, a)  == {e \in map : e.lo <= a}

\* The entry a new range [lo, hi] clashes with, looked for on the right and
\* then on the left; none if there is none.
\* (mutant: the left neighbour is not looked at)
MutClashes(map, lo, hi) ==
  IF Above(map, lo) # {} /\ Lowest(Above(map, lo)).lo <= hi THEN {Lowest(Above(map, lo))} ELSE {}
Clashes(map, lo, hi) ==
  IF Above(map, lo) # {} /\ Lowest(Above(map, lo)).lo <= hi THEN {Lowest(Above(map, lo))}
  ELSE IF UpTo(map, lo) # {} /\ lo <= Highest(UpTo(map, lo)).hi THEN {Highest(UpTo(map, lo))}
  ELSE {}

EmplaceDisjoint(map, lo, hi, val) ==
  IF Clashes(map, lo, hi) = {} THEN map \cup {Entry(lo, hi, val)} ELSE map

\* The entry that holds an address, or none.
find(map, a) ==
  IF UpTo(map, a) # {} /\ a <= Highest(UpTo(map, a)).hi THEN {Highest(UpTo(map, a))} ELSE {}

\* [hit_lo, hit_hi): to the right every entry that starts inside the range,
\* to the left, going down, every entry that still reaches into it.
Hits(map, lo, hi) ==
  {e \in Above(map, lo) : e.lo <= hi}
    \cup {e \in UpTo(map, lo) : \A f \in UpTo(map, lo) : f.lo >= e.lo => lo <= f.hi}

\* All entries hit are merged into the new one, in the order of their
\* addresses; merge(old, new) is the value for both ranges together.
Emplace(map, lo, hi, val, merge(_, _)) ==
  LET hits == Hits(map, lo, hi)
      span(e, new) == Entry(IF e.lo < new.lo THEN e.lo ELSE new.lo,
                            IF e.hi > new.hi THEN e.hi ELSE new.hi, merge(e, new))
      acc[es \in SUBSET hits] ==
        IF es = {} THEN Entry(lo, hi, val)
        ELSE LET e == Highest(es) IN span(e, acc[es \ {e}])
  IN  (map \ hits) \cup {acc[hits]}

DisjointRanges(map) ==
  \A e, f \in map : e # f => e.hi < f.lo \/ f.hi < e.lo
=============================================================================
