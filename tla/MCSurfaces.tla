----------------------------- MODULE MCSurfaces -----------------------------
(* Constants for TLC: two configs that share their hotkeys (only their      *)
(* actions differ), beside the empty set of a missing file.                *)
EXTENDS Surfaces, TLC

CONSTANTS c1, c2, none, h0, h1, absent

TwoConfigs == {c1, c2}
TwoConfigHotkeys == (c1 :> h1) @@ (c2 :> h1) @@ (none :> h0)
=============================================================================
