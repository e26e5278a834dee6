---------------------------- MODULE MCKwinHotkeys ----------------------------
(* Constants for TLC: two keys, and sets that replace or extend one another. *)
EXTENDS KwinHotkeys

CONSTANTS a1, a2, k1, k2, c1, c2, c3, n1, n2, none

TwoSets == {{k1}, {k2}}
NestedSets == {{k1}, {k1, k2}}
=============================================================================
