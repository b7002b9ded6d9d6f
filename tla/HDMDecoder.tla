----------------------------- MODULE HDMDecoder -----------------------------
(***************************************************************************)
(* HDMDecoder: the table of address ranges with which a node finds the     *)
(* home of an address.  A range is a base, a size and the node that holds  *)
(* it.  The table is a sequence in the order of the add_range calls.       *)
(*                                                                         *)
(* The servers never call configure_interleave, so the interleaved decoder *)
(* has no targets and decodes nothing, and HYBRID decoding is range        *)
(* decoding.  They never call sort_ranges either: decode_range scans the   *)
(* table.  The binary search it would use on a sorted table is             *)
(* decode_sorted.                                                          *)
(***************************************************************************)
EXTENDS Integers, Sequences

\* UINT32_MAX, the target of an address that no range holds.
NoTarget == -1

add_range(ranges, base, size, target) ==
    Append(ranges, [base |-> base, size |-> size, target |-> target])

Holds(range, addr) == range.base <= addr /\ addr < range.base + range.size

\* The linear scan of decode_range stops at the first range that holds the
\* address.
Stops(ranges, addr) ==
    {i \in DOMAIN ranges : /\ Holds(ranges[i], addr)
                           /\ \A j \in 1 .. i - 1 : ~Holds(ranges[j], addr)}

decode_range(ranges, addr) ==
    IF Stops(ranges, addr) = {} THEN NoTarget
    ELSE ranges[CHOOSE i \in Stops(ranges, addr) : TRUE].target

\* No target is configured: the interleaved decoder finds nothing.
decode_interleaved(addr) == NoTarget

\* decode in the HYBRID mode of the TCP transport, as get_home_node uses it.
get_home_node(ranges, addr) ==
    LET found == decode_range(ranges, addr)
    IN  IF found # NoTarget THEN found ELSE decode_interleaved(addr)

\* std::sort by base leaves the table in one of its ascending orders; ranges
\* with the same base may end up either way.
sort_ranges(ranges) ==
    LET Index == DOMAIN ranges
        Order == {p \in [Index -> Index] :
                    /\ \A j \in Index : \E i \in Index : p[i] = j
                    /\ \A i, j \in Index : i < j => ranges[p[i]].base <= ranges[p[j]].base}
    IN  {[i \in Index |-> ranges[p[i]]] : p \in Order}

\* An error for testing: the search stops before its last candidate.
stops_early(ranges, addr) ==
    LET search[w \in (1 .. Len(ranges) + 1) \X (0 .. Len(ranges))] ==
          LET lo == w[1]
              hi == w[2]
              mid == lo + (hi - lo) \div 2
          IN  IF lo >= hi THEN NoTarget
              ELSE IF addr < ranges[mid].base THEN search[<<lo, mid - 1>>]
              ELSE IF ~Holds(ranges[mid], addr) THEN search[<<mid + 1, hi>>]
              ELSE ranges[mid].target
    IN  search[<<1, Len(ranges)>>]

\* The binary search of decode_range over a sorted table.
decode_sorted(ranges, addr) ==
    LET search[w \in (1 .. Len(ranges) + 1) \X (0 .. Len(ranges))] ==
          LET lo == w[1]
              hi == w[2]
              mid == lo + (hi - lo) \div 2
          IN  IF lo > hi THEN NoTarget
              ELSE IF addr < ranges[mid].base THEN search[<<lo, mid - 1>>]
              ELSE IF ~Holds(ranges[mid], addr) THEN search[<<mid + 1, hi>>]
              ELSE ranges[mid].target
    IN  search[<<1, Len(ranges)>>]
=============================================================================
