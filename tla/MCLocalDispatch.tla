--------------------------- MODULE MCLocalDispatch ---------------------------
(* Two client processes for TLC.                                            *)
EXTENDS LocalDispatch

CONSTANTS c1, c2
=============================================================================
