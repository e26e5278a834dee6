-------------------------- MODULE MCWindowSystems --------------------------
(***************************************************************************)
(* Every adapter on a desktop three columns wide with one interference;    *)
(* every way for one panel of any kind, or two, to lie on a root window of *)
(* 4 by 3 with one monitor or two of different heights.                    *)
(***************************************************************************)
EXTENDS WindowSystems

One == <<Rect(0, 0, 4, 3)>>
Two == <<Rect(0, 0, 2, 3), Rect(2, 0, 2, 2)>>
Low == <<Rect(0, 1, 2, 2), Rect(2, 0, 2, 3)>>

Strips(kinds, sizes) ==
  [edge : {"left", "right", "top", "bottom"}, size : sizes, lo : 0..2, hi : {0, 2}, kind : kinds]

SmallDesks ==
  LET With(mons, panels) == [mons |-> mons, panels |-> panels]
  IN  {With(mons, {}) : mons \in {One, Two, Low}}
      \cup {With(mons, {p}) : mons \in {One, Low}, p \in Strips({"panel"}, {0, 1, 3})}
      \cup {With(Two, {p}) : p \in Strips(WindowKinds, {1})}
      \cup {With(Two, {p, q}) : p \in Strips({"panel"}, {2}), q \in Strips({"dock"}, {3})}

LaterDesks ==
  LET p == [edge |-> "top", size |-> 1, lo |-> 0, hi |-> 2, kind |-> "panel"]
  IN  {[mons |-> One, panels |-> {}], [mons |-> Two, panels |-> {}],
       [mons |-> Low, panels |-> {p}]}
=============================================================================
