------------------------------ MODULE Displays ------------------------------
(***************************************************************************)
(* How the adapters read the displays: the area of each monitor that the   *)
(* panels leave free.  X11 computes it from the panels' reservations and   *)
(* Hyprland from pixels, a scale and a rotation; macOS turns the axis      *)
(* over; the others are told.  X11, Sway, Windows and KDE take more than   *)
(* one call to read it, and the desktop may be rearranged in between.      *)
(* Points are the pixels: a rectangle covers x <= px < x + w.              *)
(***************************************************************************)
EXTENDS Integers, Sequences, FiniteSets, SequencesExt, FiniteSetsExt

CONSTANTS Readers, \* of "x11", "sway", "hyprland", "windows", "macos", "gnome", "kde"
          Desks,   \* how the desktop may be arranged
          Later,   \* ... and rearranged while it is read
          Changes  \* bound: how often it is

WindowKinds == {"panel", "autohide", "withdrawn", "sticky", "elsewhere", "dock", "unmapped"}
Monitors == [x : Int, y : Int, w : Nat \ {0}, h : Nat \ {0}]
Panels   == [edge : {"left", "right", "top", "bottom"}, size : Nat, lo : Int, hi : Int,
             kind : WindowKinds]
Desktops == [mons : Seq(Monitors) \ {<<>>}, panels : SUBSET Panels]

ASSUME DisplaysConstantsOK ==
  /\ Readers \subseteq {"x11", "sway", "hyprland", "windows", "macos", "gnome", "kde"}
  /\ Desks \subseteq Desktops /\ Later \subseteq Desktops
  /\ Changes \in Nat

VARIABLES desk,    \* the desktop: its monitors, and its panels
          read,    \* the reading: its step, and what the adapter has so far
          seen,    \* the arrangements since it began, for the properties only
          changes

displaysVars == <<desk, read, seen, changes>>

Points(r) == (r.x .. r.x + r.w - 1) \X (r.y .. r.y + r.h - 1)
Rect(x, y, w, h) == [x |-> x, y |-> y, w |-> w, h |-> h]
Clamp(v, low, high) == Max({low, Min({v, high})})

-----------------------------------------------------------------------------
(***************************************************************************)
(* The desktop.  A panel reserves a strip of an edge of the whole root     *)
(* window, `size` wide, from lo to hi along the edge.                      *)
(***************************************************************************)
Root(d) == Rect(0, 0, Max({d.mons[i].x + d.mons[i].w : i \in DOMAIN d.mons}),
                      Max({d.mons[i].y + d.mons[i].h : i \in DOMAIN d.mons}))

\* What a kind of window looks like on X11, and whether it reserves anything.
Window(kind) ==
  [managed   |-> kind \in {"panel", "autohide", "withdrawn", "sticky", "elsewhere"},
   override  |-> kind \in {"dock", "unmapped"},
   viewable  |-> kind \notin {"autohide", "withdrawn", "unmapped"},
   withdrawn |-> kind = "withdrawn",
   desktop   |-> CASE kind = "sticky" -> "all" [] kind = "elsewhere" -> "other"
                   [] kind = "panel" -> "current" [] OTHER -> "none"]
Reserving == {"panel", "autohide", "sticky", "dock"}

\* Whether panel p reserves the row or column n of a monitor, met by its edge.
Meets(p, r) ==
  IF p.edge \in {"left", "right"} THEN \E n \in p.lo .. p.hi : n \in r.y .. r.y + r.h - 1
                                  ELSE \E n \in p.lo .. p.hi : n \in r.x .. r.x + r.w - 1
Takes(p, n, root) ==
  /\ p.size > 0
  /\ CASE p.edge = "left"   -> n < p.size
       [] p.edge = "top"    -> n < p.size
       [] p.edge = "right"  -> n >= root.w - p.size
       [] p.edge = "bottom" -> n >= root.h - p.size

WorkPoints(d, i) ==
  LET r == d.mons[i]
      free(n, edges) == \A p \in d.panels :
        p.kind \in Reserving /\ p.edge \in edges /\ Meets(p, r) => ~Takes(p, n, Root(d))
  IN  {n \in r.x .. r.x + r.w - 1 : free(n, {"left", "right"})}
        \X {n \in r.y .. r.y + r.h - 1 : free(n, {"top", "bottom"})}

\* The same as a rectangle: what a compositor says of its own panels.
WorkArea(d, i) ==
  LET points == WorkPoints(d, i)
      xs == {p[1] : p \in points}
      ys == {p[2] : p \in points}
  IN  IF points = {} THEN Rect(d.mons[i].x, d.mons[i].y, 0, 0)
      ELSE Rect(Min(xs), Min(ys), Cardinality(xs), Cardinality(ys))

WorkAreas(d) == [i \in DOMAIN d.mons |-> WorkArea(d, i)]

-----------------------------------------------------------------------------
(***************************************************************************)
(* X11: the reservations of the eligible windows, taken from a monitor.    *)
(***************************************************************************)
StrutWindowIsEligible(w) ==
  /\ IF w.managed THEN ~w.withdrawn ELSE w.override /\ w.viewable
  /\ w.desktop \in {"none", "current", "all"}

\* What a window reserves, and what all of them do: the managed windows, and the dock
\* windows among the root's children.
WindowStrut(p)   == IF StrutWindowIsEligible(Window(p.kind)) THEN {p} ELSE {}
CollectStruts(d) == UNION {WindowStrut(p) : p \in d.panels}

Overlaps(p, low, high) == p.lo <= p.hi /\ p.lo < high /\ p.hi >= low

UsableArea(bounds, root, struts) ==
  LET right  == bounds.x + bounds.w
      bottom == bounds.y + bounds.h
      on(edge, low, high) == {p \in struts : p.edge = edge /\ p.size > 0 /\ Overlaps(p, low, high)}
      x0 == Max({bounds.x} \cup {Clamp(p.size, bounds.x, right) :
                                 p \in on("left", bounds.y, bottom)})
      x1 == Min({right} \cup {Clamp(root.w - p.size, bounds.x, right) :
                              p \in on("right", bounds.y, bottom)})
      y0 == Max({bounds.y} \cup {Clamp(p.size, bounds.y, bottom) :
                                 p \in on("top", bounds.x, right)})
      y1 == Min({bottom} \cup {Clamp(root.h - p.size, bounds.y, bottom) :
                               p \in on("bottom", bounds.x, right)})
  IN  Rect(x0, y0, Max({x1 - x0, 0}), Max({y1 - y0, 0}))

(***************************************************************************)
(* Hyprland: a monitor in whole pixels, and the logical area it has left.  *)
(* Scales are in quarters: one is rarely a whole number.                   *)
(***************************************************************************)
Scales == 4 .. 8
Round(n, k) == (2 * n + k) \div (2 * k)
SaturatingSub(a, b) == Max({a - b, 0})

HyprMonitor(d, i, scale, turned) ==
  LET m == d.mons[i]
      a == WorkArea(d, i)
      Pixels(n) == Round(n * scale, 4)
      px == IF turned THEN <<Pixels(m.h), Pixels(m.w)>> ELSE <<Pixels(m.w), Pixels(m.h)>>
  IN  [x |-> m.x, y |-> m.y, width |-> px[1], height |-> px[2], scale |-> scale, turned |-> turned,
       left |-> a.x - m.x, top |-> a.y - m.y,
       right |-> m.x + m.w - a.x - a.w, bottom |-> m.y + m.h - a.y - a.h]

HyprUsableArea(m) ==
  LET w == Round(4 * m.width, m.scale)
      h == Round(4 * m.height, m.scale)
      width  == IF m.turned THEN h ELSE w
      height == IF m.turned THEN w ELSE h
  IN  Rect(m.x + m.left, m.y + m.top,
           SaturatingSub(SaturatingSub(width, m.left), m.right),
           SaturatingSub(SaturatingSub(height, m.top), m.bottom))

(***************************************************************************)
(* macOS: the origin of a screen is at the bottom of the first one.        *)
(***************************************************************************)
Turned(r, mainHeight) == Rect(r.x, mainHeight - r.y - r.h, r.w, r.h)
NSScreens(d) == [i \in DOMAIN d.mons |-> Turned(WorkArea(d, i), d.mons[1].h)]
MacAreas(d)  == [i \in DOMAIN d.mons |-> Turned(NSScreens(d)[i], d.mons[1].h)]

-----------------------------------------------------------------------------
NoRead == [by |-> "none", step |-> "idle", mons |-> <<>>, root |-> Rect(0, 0, 0, 0),
           areas |-> <<>>, queued |-> FALSE, post |-> <<>>, told |-> "none", cache |-> <<>>]

NoReading == desk = [mons |-> <<>>, panels |-> {}] /\ read = NoRead /\ seen = {} /\ changes = 0

DisplaysInit ==
  /\ desk \in Desks
  /\ \/ \E by \in Readers \ {"kde"} : read = [NoRead EXCEPT !.by = by]
     \/ /\ "kde" \in Readers
        /\ \E stale \in Later :
             read = [NoRead EXCEPT !.by = "kde", !.cache = WorkAreas(stale)]
  /\ seen = {} /\ changes = 0

Reading(areas) == [read EXCEPT !.step = "answered", !.areas = areas]
Fails == read' = [read EXCEPT !.step = "failed"]
Still == UNCHANGED <<desk, seen, changes>>

BeginReading ==
  /\ read.step = "idle"
  /\ read' = [read EXCEPT !.step = "first"]
  /\ seen' = {desk} /\ UNCHANGED <<desk, changes>>

\* One call is enough.
ReadAtOnce ==
  /\ read.step = "first"
  /\ \/ read.by = "gnome" /\ read' = Reading(WorkAreas(desk))
     \/ read.by = "macos" /\ read' = Reading(MacAreas(desk))
     \/ /\ read.by = "hyprland"
        /\ \E scale \in Scales, turned \in BOOLEAN :
             read' = Reading([i \in DOMAIN desk.mons |->
                                 HyprUsableArea(HyprMonitor(desk, i, scale, turned))])
     \/ Fails
  /\ Still

\* EnumDisplayMonitors: a monitor is asked for its area as it is met.
ReadWindows ==
  /\ read.by = "windows" /\ read.step = "first"
  /\ LET n == Len(read.areas) + 1 IN
       \/ n \in DOMAIN desk.mons /\ read' = [read EXCEPT !.areas = Append(@, WorkArea(desk, n))]
       \/ n \notin DOMAIN desk.mons /\ read' = Reading(read.areas)
  /\ Still

\* The outputs, then the visible workspace of each.
ReadSway ==
  /\ read.by = "sway"
  /\ \/ read.step = "first" /\ read' = [read EXCEPT !.step = "second", !.mons = desk.mons]
     \/ /\ read.step = "second"
        /\ read' = Reading([i \in DOMAIN read.mons |->
                     IF i \in DOMAIN desk.mons THEN WorkArea(desk, i) ELSE read.mons[i]])
  /\ Still

\* The monitors, the root window, then the reservations.
ReadX11 ==
  /\ read.by = "x11"
  /\ \/ read.step = "first" /\ read' = [read EXCEPT !.step = "second", !.mons = desk.mons]
     \/ read.step = "second" /\ read' = [read EXCEPT !.step = "third", !.root = Root(desk)]
     \/ /\ read.step = "third"
        /\ LET struts == CollectStruts(desk) IN
             read' = Reading([i \in DOMAIN read.mons |->
                                 UsableArea(read.mons[i], read.root, struts)])
  /\ Still

(***************************************************************************)
(* KDE: the script is asked to publish the areas, and what it published is *)
(* read from the companion once it says that it has.                       *)
(***************************************************************************)
Published(d)  == [is |-> "displays", areas |-> WorkAreas(d)]
Completed(ok) == [is |-> IF ok THEN "done" ELSE "error", areas |-> <<>>]

\* Mutant: the areas are read without waiting for the script.
RefreshHastily ==
  /\ read.by = "kde" /\ read.step = "first"
  /\ read' = [read EXCEPT !.step = "second", !.queued = TRUE, !.told = "done"]
  /\ Still

Refresh ==
  /\ read.by = "kde" /\ read.step = "first"
  /\ read' = [read EXCEPT !.step = "second", !.queued = TRUE]
  /\ Still

ScriptRefreshes ==
  /\ read.queued
  /\ read' = [read EXCEPT !.queued = FALSE, !.post = @ \o
       IF \A i \in DOMAIN desk.mons : WorkPoints(desk, i) # {}
       THEN <<Published(desk), Completed(TRUE)>> ELSE <<Completed(FALSE)>>]
  /\ Still

CompanionHandles ==
  /\ read.post # <<>>
  /\ LET post == Head(read.post) IN
       read' = IF post.is = "displays" THEN [read EXCEPT !.post = Tail(@), !.cache = post.areas]
                                       ELSE [read EXCEPT !.post = Tail(@), !.told = post.is]
  /\ Still

GetDisplays ==
  /\ read.by = "kde" /\ read.step = "second"
  /\ \/ read.told = "done" /\ read' = Reading(read.cache)
     \/ read.told # "done" /\ Fails
  /\ Still

\* Monitors come and go, and panels; the KWin script publishes new monitors.
Rearrange ==
  /\ changes < Changes /\ changes' = changes + 1
  /\ read.step \notin {"idle", "answered", "failed"}
  /\ desk' \in Later /\ seen' = seen \cup {desk'}
  /\ read' = IF read.by = "kde" /\ desk'.mons # desk.mons
             THEN [read EXCEPT !.post = Append(@, Published(desk'))] ELSE read

DisplaysNext ==
  \/ BeginReading \/ ReadAtOnce \/ ReadWindows \/ ReadSway \/ ReadX11
  \/ Refresh \/ ScriptRefreshes \/ CompanionHandles \/ GetDisplays \/ Rearrange

-----------------------------------------------------------------------------
(***************************************************************************)
(* A desktop that stays as it is while it is read is read as it is: each   *)
(* display is exactly the points of its monitor that no panel reserves,    *)
(* whatever the edges, ranges, rotations and kinds of window, and at every *)
(* scale of one to two by quarters, where pixels have to be rounded.       *)
(***************************************************************************)
DisplaysAreExact ==
  read.step = "answered" /\ seen = {desk} =>
    /\ DOMAIN read.areas = DOMAIN desk.mons
    /\ \A i \in DOMAIN desk.mons : Points(read.areas[i]) = WorkPoints(desk, i)

(***************************************************************************)
(* One that is rearranged meanwhile is never read as it was before: each   *)
(* area is that of a moment of the reading, or, where bounds and panels    *)
(* are read one after the other, within the bounds of such a moment.  The  *)
(* moments may differ: nothing keeps a reading on Windows, X11 or Sway     *)
(* from mixing displays of two arrangements.                               *)
(***************************************************************************)
DisplaysAreOfTheCall ==
  read.step = "answered" =>
    \A i \in DOMAIN read.areas : \E d \in seen :
      /\ i \in DOMAIN d.mons
      /\ IF read.by \in {"x11", "sway"}
         THEN Points(read.areas[i]) \subseteq Points(d.mons[i])
         ELSE Points(read.areas[i]) = WorkPoints(d, i)
=============================================================================
