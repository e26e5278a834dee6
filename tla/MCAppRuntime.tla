---------------------------- MODULE MCAppRuntime ----------------------------
(* Constants for TLC: one config to switch to and from the empty one of a  *)
(* missing file, which has other hotkeys.                                  *)
EXTENDS AppRuntime, TLC

CONSTANTS c1, none, h0, h1, absent

OneConfig == {c1}
OneConfigHotkeys == (c1 :> h1) @@ (none :> h0)
=============================================================================
