--------------------------- MODULE MCGnomeHotkeys ---------------------------
(* Constants for TLC: sets that overlap, and the empty one.                *)
EXTENDS GnomeHotkeys

CONSTANTS a1, a2, k1, k2, c1, c2, c3, none

OverlappingSets == {{k1}, {k1, k2}, {}}
=============================================================================
