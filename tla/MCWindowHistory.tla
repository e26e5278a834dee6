--------------------------- MODULE MCWindowHistory ---------------------------
(* Frames for TLC: far is away from every App frame, nudged and snapped are    *)
(* within the tolerance of each other; two more targets or partial frames.     *)
EXTENDS WindowHistory, TLC

CONSTANTS w1, w2, far, nudged, snapped, other

TwoFrames == {far, nudged}
TwoTargets == {snapped, other}
WindowSymmetry == Permutations({w1, w2})
NearFrames == {<<f, f>> : f \in TwoFrames \cup TwoTargets}
                \cup {<<nudged, snapped>>, <<snapped, nudged>>}
=============================================================================
