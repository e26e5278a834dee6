----------------------------- MODULE MCPlacement -----------------------------
(* Small desktops for Placement.  The sizes are real ones: thirds and halves *)
(* of a small area would be within the tolerance of each other.              *)
EXTENDS Placement

R(x, y, w, h) == Rectangle(x, y, w, h)

\* One display; two side by side, listed right to left; three in an L with panels
\* and negative coordinates; a row with a gap, a low neighbour and a display above;
\* a display without a usable area.
MCLayouts ==
  { <<R(0, 27, 1920, 1053)>>,
    <<R(1920, 80, 2560, 1440), R(0, 0, 1920, 1080)>>,
    <<R(0, 0, 1920, 1080), R(-1280, -200, 1280, 1024), R(0, -1200, 1600, 1200)>>,
    <<R(2400, 100, 1367, 769), R(0, 0, 1921, 1081), R(1921, 1200, 1280, 1024), R(0, 0, 0, 1080)>>,
    <<>> }

\* In a zone, nearly in one, free, straddling, off every display, larger than any.
MCUserRects ==
  { R(1, 1, 960, 1079), R(100, 120, 641, 483), R(1700, 300, 700, 500),
    R(-4000, 5000, 400, 300), R(-100, -100, 5000, 4000) }

MCCustomZones ==
  [z \in {"wide-center", "sliver"} |->
     IF z = "wide-center" THEN [x |-> 10, y |-> 0, width |-> 80, height |-> 100]
                          ELSE [x |-> 99, y |-> 33, width |-> 1, height |-> 1]]
=============================================================================
