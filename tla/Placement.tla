------------------------------ MODULE Placement ------------------------------
(***************************************************************************)
(* Where an action sends the focused window: the target computed by        *)
(* execute_action of src/executor.rs, with zones.rs, display_movement.rs   *)
(* and geometry.rs.  A state is one window and the displays around it; a   *)
(* step is a hotkey, a window dragged by the user or a change of displays. *)
(* Here every move succeeds and nothing is restored: WindowHistory has the *)
(* failures and Restore.                                                   *)
(*                                                                         *)
(* Pixels are integers and a scaled length is the exact quotient rounded   *)
(* half away from zero, where the code computes with f64.                  *)
(***************************************************************************)
EXTENDS Integers, Sequences, FiniteSets

CONSTANTS
  Layouts,       \* sequences of usable areas, in the order an adapter lists them
  UserRects,    \* frames the user gives the window
  CustomZones,   \* function from names to ZoneDefinitions, in percent
  Tolerance,     \* KNOWN_ZONE_MATCH_TOLERANCE_PX
  MaxWalk,       \* bound on the length of walk
  MaxTurns       \* bound on turns

Rect == [x : Int, y : Int, width : Nat, height : Nat]
ZoneDefinition == [x : 0 .. 100, y : 0 .. 100, width : 1 .. 100, height : 1 .. 100]

\* ALL_BUILT_IN_ZONES, in its order.
AllZones == <<"left-half", "right-half", "top-half", "bottom-half",
              "top-left", "top-right", "bottom-left", "bottom-right",
              "left-third", "center-third", "right-third",
              "left-two-thirds", "right-two-thirds", "maximize">>
BuiltIn == {AllZones[i] : i \in DOMAIN AllZones}

\* The actions that are not zones; in the code they are of another type.
Others == {"none", "next", "previous", "left", "right", "up", "down", "center"}

ASSUME LayoutsOK ==
  /\ Layouts \subseteq Seq(Rect)
  /\ UserRects \subseteq Rect
  /\ DOMAIN CustomZones \cap (BuiltIn \cup Others) = {}
  /\ \A z \in DOMAIN CustomZones :
       /\ CustomZones[z] \in ZoneDefinition
       /\ CustomZones[z].x + CustomZones[z].width <= 100
       /\ CustomZones[z].y + CustomZones[z].height <= 100
  /\ Tolerance \in Nat
  /\ MaxWalk \in Nat /\ MaxTurns \in Nat

VARIABLES
  displays,   \* what WindowSystem.displays answers
  geometry,      \* the window's frame
  byApp,      \* history variable: the App placed the window last, on these displays
  key,        \* history variable: the action repeated last
  walk,       \* history variable: the frames since before its first repetition
  turns       \* how many different actions, or displays, followed each other since
              \* the user moved the window

placementVars == <<displays, geometry, byApp, key, walk, turns>>

-----------------------------------------------------------------------------
(* Rectangles.                                                             *)

Rectangle(x, y, width, height) == [x |-> x, y |-> y, width |-> width, height |-> height]
Right(r) == r.x + r.width
Bottom(r) == r.y + r.height
Abs(n) == IF n < 0 THEN -n ELSE n
Smaller(m, n) == IF m <= n THEN m ELSE n
Larger(m, n) == IF m >= n THEN m ELSE n
Clamp(n, low, high) == Smaller(Larger(n, low), high)
CenterX(r) == r.x + r.width \div 2
CenterY(r) == r.y + r.height \div 2

NearlyEquals(r, s) ==
  /\ Abs(r.x - s.x) <= Tolerance
  /\ Abs(r.y - s.y) <= Tolerance
  /\ Abs(Right(r) - Right(s)) <= Tolerance
  /\ Abs(Bottom(r) - Bottom(s)) <= Tolerance

Contains(area, x, y) ==
  /\ area.x <= x /\ x < Right(area)
  /\ area.y <= y /\ y < Bottom(area)

Span(from, to, start, end) ==
  Larger(Smaller(to, end) - Larger(from, start), 0)
OverlapArea(r, s) ==
  Span(r.x, Right(r), s.x, Right(s)) * Span(r.y, Bottom(r), s.y, Bottom(s))
SpansOverlapX(r, s) == r.x < Right(s) /\ s.x < Right(r)
SpansOverlapY(r, s) == r.y < Bottom(s) /\ s.y < Bottom(r)

DistanceSquared(area, x, y) ==
  LET dx == x - Clamp(x, area.x, Right(area) - 1)
      dy == y - Clamp(y, area.y, Bottom(area) - 1)
  IN dx * dx + dy * dy

Within(r, area) ==
  /\ area.x <= r.x /\ Right(r) <= Right(area)
  /\ area.y <= r.y /\ Bottom(r) <= Bottom(area)

-----------------------------------------------------------------------------
(* Zones of a usable area.                                                 *)

LeftFraction(a, n) == Rectangle(a.x, a.y, a.width \div n, a.height)
RightFraction(a, n) ==
  Rectangle(Right(a) - a.width \div n, a.y, a.width \div n, a.height)
TopHalf(a) == Rectangle(a.x, a.y, a.width, a.height \div 2)
BottomHalf(a) == Rectangle(a.x, Bottom(a) - a.height \div 2, a.width, a.height \div 2)
CenterThird(a) ==
  Rectangle(a.x + a.width \div 3, a.y, a.width - a.width \div 3 - a.width \div 3, a.height)
LeftTwoThirds(a) == Rectangle(a.x, a.y, a.width - a.width \div 3, a.height)
RightTwoThirds(a) ==
  Rectangle(a.x + a.width \div 3, a.y, a.width - a.width \div 3, a.height)

BuiltInRect(zone, a) ==
  CASE zone = "left-half"        -> LeftFraction(a, 2)
    [] zone = "right-half"       -> RightFraction(a, 2)
    [] zone = "top-half"         -> TopHalf(a)
    [] zone = "bottom-half"      -> BottomHalf(a)
    [] zone = "top-left"         -> TopHalf(LeftFraction(a, 2))
    [] zone = "top-right"        -> TopHalf(RightFraction(a, 2))
    [] zone = "bottom-left"      -> BottomHalf(LeftFraction(a, 2))
    [] zone = "bottom-right"     -> BottomHalf(RightFraction(a, 2))
    [] zone = "left-third"       -> LeftFraction(a, 3)
    [] zone = "center-third"     -> CenterThird(a)
    [] zone = "right-third"      -> RightFraction(a, 3)
    [] zone = "left-two-thirds"  -> LeftTwoThirds(a)
    [] zone = "right-two-thirds" -> RightTwoThirds(a)
    [] zone = "maximize"         -> a

Percent(p, dimension) == (dimension * p) \div 100

RectInArea(z, a) ==
  LET left   == Clamp(a.x + Percent(z.x, a.width), a.x, Right(a))
      top    == Clamp(a.y + Percent(z.y, a.height), a.y, Bottom(a))
      right  == Clamp(a.x + Percent(z.x + z.width, a.width), left, Right(a))
      bottom == Clamp(a.y + Percent(z.y + z.height, a.height), top, Bottom(a))
  IN Rectangle(left, top, right - left, bottom - top)

ZoneRect(zone, a) ==
  IF zone \in BuiltIn THEN BuiltInRect(zone, a) ELSE RectInArea(CustomZones[zone], a)

-----------------------------------------------------------------------------
(* Displays.                                                               *)

Usable == {d \in DOMAIN displays : displays[d].width > 0 /\ displays[d].height > 0}

LexLess(s, t) == \E i \in DOMAIN s : /\ s[i] < t[i]
                                     /\ \A j \in 1 .. i - 1 : s[j] = t[j]

\* The displays of a function to keys that have the least key.
Least(keys) == {d \in DOMAIN keys : \A e \in DOMAIN keys : ~LexLess(keys[e], keys[d])}

\* Left to right, top to bottom; the sort is stable.
Order(d) == <<displays[d].x, displays[d].y, d>>
Position(d) == Cardinality({e \in Usable : LexLess(Order(e), Order(d))})

\* The display that owns a frame: the one that contains its center, else the one it
\* overlaps most, else the nearest.
Owners(f) ==
  LET containing  == {d \in Usable : Contains(displays[d], CenterX(f), CenterY(f))}
      overlap(d)  == OverlapArea(displays[d], f)
      distance(d) == DistanceSquared(displays[d], CenterX(f), CenterY(f))
  IN IF containing # {} THEN Least([d \in containing |-> Order(d)])
     ELSE IF \E d \in Usable : overlap(d) > 0
     THEN Least([d \in Usable |-> <<-overlap(d)>> \o Order(d)])
     ELSE Least([d \in Usable |-> <<distance(d)>> \o Order(d)])

\* Mutant: the nearest display in any row is a neighbour.
NeighboursAnyRow(d, left) ==
  LET source == displays[d]
      gap(e) == IF left THEN source.x - Right(displays[e])
                        ELSE displays[e].x - Right(source)
      alignment(e) == Abs((2 * source.y + source.height)
                            - (2 * displays[e].y + displays[e].height))
  IN Least([e \in {e \in Usable : gap(e) >= 0} |->
              <<gap(e), alignment(e), displays[e].y, displays[e].x>>])

Neighbours(d, left) ==
  LET source == displays[d]
      gap(e) == IF left THEN source.x - Right(displays[e])
                        ELSE displays[e].x - Right(source)
      alignment(e) == Abs((2 * source.y + source.height)
                            - (2 * displays[e].y + displays[e].height))
  IN Least([e \in {e \in Usable : SpansOverlapY(source, displays[e]) /\ gap(e) >= 0} |->
              <<gap(e), alignment(e), displays[e].y, displays[e].x>>])

\* The displays nearest to d in a direction.
InDirection(d, direction) ==
  LET dx(e) == CenterX(displays[e]) - CenterX(displays[d])
      dy(e) == CenterY(displays[e]) - CenterY(displays[d])
      horizontal == direction \in {"left", "right"}
      primary(e) == CASE direction = "left" -> -dx(e)
                      [] direction = "right" -> dx(e)
                      [] direction = "up" -> -dy(e)
                      [] direction = "down" -> dy(e)
      apart(e) == IF IF horizontal THEN SpansOverlapY(displays[d], displays[e])
                                   ELSE SpansOverlapX(displays[d], displays[e])
                  THEN 0 ELSE 1
  IN Least([e \in {e \in Usable \ {d} : primary(e) > 0} |->
              <<apart(e), primary(e), IF horizontal THEN Abs(dy(e)) ELSE Abs(dx(e))>>
                \o Order(e)])

-----------------------------------------------------------------------------
(* Targets.                                                                *)

\* n / d, rounded half away from zero.
Round(n, d) == IF n >= 0 THEN (2 * n + d) \div (2 * d)
                         ELSE -((d - 2 * n) \div (2 * d))

MapProportionally(r, source, target) ==
  LET width  == Smaller(Round(r.width * target.width, source.width), target.width)
      height == Smaller(Round(r.height * target.height, source.height), target.height)
      x == target.x + Round((r.x - source.x) * target.width, source.width)
      y == target.y + Round((r.y - source.y) * target.height, source.height)
  IN Rectangle(Clamp(x, target.x, Right(target) - width),
               Clamp(y, target.y, Bottom(target) - height), width, height)

KnownZones(r, area) == {i \in DOMAIN AllZones : NearlyEquals(r, BuiltInRect(AllZones[i], area))}

\* Mutant: a known zone is looked for on the display moved to.
MoveKnownOnTarget(r, source, target) ==
  IF KnownZones(r, target) = {}
  THEN MapProportionally(r, source, target)
  ELSE LET first == CHOOSE i \in KnownZones(r, target) :
                      \A j \in KnownZones(r, target) : i <= j
       IN BuiltInRect(AllZones[first], target)

MoveWindowToDisplay(r, source, target) ==
  IF KnownZones(r, source) = {}
  THEN MapProportionally(r, source, target)
  ELSE LET first == CHOOSE i \in KnownZones(r, source) :
                      \A j \in KnownZones(r, source) : i <= j
       IN BuiltInRect(AllZones[first], target)

\* Mutant: the window keeps its size whatever the display's.
CenteredWhole(r, area) ==
  Rectangle(area.x + (area.width - r.width) \div 2,
            area.y + (area.height - r.height) \div 2, r.width, r.height)

Centered(r, area) ==
  LET width == Smaller(r.width, area.width)
      height == Smaller(r.height, area.height)
  IN Rectangle(area.x + (area.width - width) \div 2,
               area.y + (area.height - height) \div 2, width, height)

-----------------------------------------------------------------------------
(* The hotkeys.                                                            *)

\* The window goes to target; an action that is repeated continues its walk.
Place(action, target) ==
  /\ IF key = action THEN Len(walk) < MaxWalk ELSE turns < MaxTurns
  /\ geometry' = target
  /\ byApp' = TRUE
  /\ key' = action
  /\ walk' = (IF key = action THEN walk ELSE <<geometry>>) \o <<target>>
  /\ turns' = IF key = action THEN turns ELSE turns + 1
  /\ UNCHANGED displays

\* move-to-zone; a half that the window already occupies crosses to a neighbour.
Landing(zone) ==
  CASE zone = "left-half" -> "right-half"
    [] zone = "right-half" -> "left-half"
    [] OTHER -> zone
Crossing(zone, d) ==
  IF zone \in {"left-half", "right-half"} /\ NearlyEquals(geometry, ZoneRect(zone, displays[d]))
  THEN Neighbours(d, zone = "left-half") ELSE {}

MoveToZone == \E d \in Owners(geometry), zone \in BuiltIn \cup DOMAIN CustomZones :
  IF Crossing(zone, d) = {}
  THEN Place(zone, ZoneRect(zone, displays[d]))
  ELSE \E e \in Crossing(zone, d) : Place(zone, ZoneRect(Landing(zone), displays[e]))

MoveToNextDisplay == \E d \in Owners(geometry), e \in Usable :
  /\ Cardinality(Usable) > 1
  /\ Position(e) = (Position(d) + 1) % Cardinality(Usable)
  /\ Place("next", MoveWindowToDisplay(geometry, displays[d], displays[e]))

MoveToPreviousDisplay == \E d \in Owners(geometry), e \in Usable :
  /\ Cardinality(Usable) > 1
  /\ Position(e) = (Position(d) + Cardinality(Usable) - 1) % Cardinality(Usable)
  /\ Place("previous", MoveWindowToDisplay(geometry, displays[d], displays[e]))

MoveToDisplay ==
  \E d \in Owners(geometry), direction \in {"left", "right", "up", "down"} :
    \E e \in InDirection(d, direction) :
      Place(direction, MoveWindowToDisplay(geometry, displays[d], displays[e]))

Center == \E d \in Owners(geometry) : Place("center", Centered(geometry, displays[d]))

-----------------------------------------------------------------------------
(* The desktop.                                                            *)

UserDrags == \E f \in UserRects :
  /\ geometry' = f
  /\ byApp' = FALSE
  /\ key' = "none"
  /\ walk' = <<>> /\ turns' = 0
  /\ UNCHANGED displays

DisplaysChange == \E layout \in Layouts :
  /\ turns < MaxTurns
  /\ displays' = layout
  /\ byApp' = FALSE
  /\ key' = "none"
  /\ walk' = <<>> /\ turns' = turns + 1
  /\ UNCHANGED geometry

PlacementInit ==
  /\ displays \in Layouts
  /\ geometry \in UserRects
  /\ byApp = FALSE
  /\ key = "none"
  /\ walk = <<>> /\ turns = 0

PlacementNext ==
  \/ MoveToZone
  \/ MoveToNextDisplay
  \/ MoveToPreviousDisplay
  \/ MoveToDisplay
  \/ Center
  \/ UserDrags
  \/ DisplaysChange

PlacementSpec == PlacementInit /\ [][PlacementNext]_placementVars

-----------------------------------------------------------------------------
Keys == BuiltIn \cup DOMAIN CustomZones \cup Others

PlacementTypeOK ==
  /\ displays \in Layouts
  /\ geometry \in Rect
  /\ byApp \in BOOLEAN
  /\ key \in Keys
  /\ walk \in Seq(Rect)
  /\ turns \in 0 .. MaxTurns

\* execute_action rescues every window: wherever the user or a change of displays
\* left it, a placed window lies inside the usable area of one display.
PlacedInside == byApp => \E d \in Usable : Within(geometry, displays[d])

\* No zone, mapping, center or crossing puts a window over a panel, between two
\* displays or out of sight, nor gives it a size below zero.
PlacementIsSound == PlacementTypeOK /\ PlacedInside

\* "Explicit next/previous display actions ... wrap": pressed as often as there
\* are displays, they visit each display once and come back to the first.
LapVisitsAll ==
  LET n == Cardinality(Usable)
  IN key \in {"next", "previous"} =>
       \A i, j \in DOMAIN walk :
         (Owners(walk[i]) = Owners(walk[j])) <=> ((j - i) % n = 0)

\* "... and preserve the window's layout": a window in a zone is in the same zone
\* of the same display after a lap.
LapRestoresZone ==
  LET n == Cardinality(Usable)
  IN key \in {"next", "previous"} =>
       \A i \in DOMAIN walk : (i + n \in DOMAIN walk /\
         \E d \in Usable, zone \in BuiltIn : walk[i] = BuiltInRect(zone, displays[d]))
           => walk[i + n] = walk[i]

\* "The outer edge stays put rather than wrapping": repeating a half never brings
\* the window back to a display it left, nor past where it was.
HalvesMarchOutward ==
  key \in {"left-half", "right-half"} =>
    \A i, j \in DOMAIN walk : 2 <= i /\ i < j =>
      \/ walk[i] = walk[j]
      \/ key = "left-half" /\ Right(walk[j]) <= walk[i].x
      \/ key = "right-half" /\ Right(walk[i]) <= walk[j].x

\* "The neighbour must overlap vertically", and only a repeated half crosses.
ZonesStayInRow ==
  [][key' \in BuiltIn \cup DOMAIN CustomZones =>
       \A d \in Owners(geometry), e \in Owners(geometry') :
         \/ d = e
         \/ /\ key' \in {"left-half", "right-half"}
            /\ SpansOverlapY(displays[d], displays[e])]_placementVars

\* What an action does when it is repeated: display actions go round the displays
\* and bring the layout back, halves march outward and stop at the edge.
RepeatsGoOn == LapVisitsAll /\ LapRestoresZone /\ HalvesMarchOutward
=============================================================================
