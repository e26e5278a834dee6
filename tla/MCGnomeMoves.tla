---------------------------- MODULE MCGnomeMoves ----------------------------
(* Constants for TLC.                                                      *)
EXTENDS GnomeMoves

CONSTANTS a1, a2, w1, f1, f2, c1, c2, closed, none
=============================================================================
