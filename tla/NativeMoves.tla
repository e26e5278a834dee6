---------------------------- MODULE NativeMoves ----------------------------
(***************************************************************************)
(* Moves on Windows and macOS (src/src/windows_window_system.rs,           *)
(* src/src/macos_window_system.rs): calls that take effect at once, on a   *)
(* window whose frame is not what was asked for.  Windows adds invisible   *)
(* borders, which change with the display; a macOS program takes no size   *)
(* that does not fit where its window stands.                              *)
(***************************************************************************)
EXTENDS WindowDesk

VARIABLES table,  \* macOS: the windows retained, each with its identity
          given,  \* macOS: every identity ever given, for the properties only
          nextId, \* macOS: next_window_id
          other   \* macOS: a second window still exists

tableVars == <<table, given, nextId, other>>

CONSTANT Identities \* bound: how many identities are given

(***************************************************************************)
(* Windows                                                                 *)
(***************************************************************************)
\* The right half of the desktop is a display of another density.
Border(f) == IF 2 * f.x + f.w >= Room THEN 1 ELSE 0
Outer(f)  == [x |-> f.x - Border(f), w |-> f.w + 2 * Border(f)]
Inner(o)  == [x |-> o.x + Border(o), w |-> o.w - 2 * Border(o)]

CompensateInvisibleBorders(target, outer, visible) ==
  [x |-> target.x + outer.x - visible.x, w |-> target.w + outer.w - visible.w]

WFind ==
  /\ m.step = "list"
  /\ \/ End(Failed) /\ Disturb
     \/ ~win.alive /\ End(Gone) /\ UNCHANGED marks
     \/ win.alive /\ To("before") /\ UNCHANGED marks
  /\ UNCHANGED <<adapter, win, asked, meddled>>

\* Both platforms look before they ask for the states.
NativeBefore ==
  Looks("before", End(Failed), m' = [Afresh EXCEPT !.step = "states", !.before = Looked])

WStates ==
  Reads("states", End(Failed),
        IF win.mode = "fullscreen" \/ win.fixed
        THEN End(Failed)
        ELSE To(IF win.mode \in Held THEN "restore" ELSE "configure"))

\* ShowWindow: what it says is not looked at.
WRestore ==
  /\ m.step = "restore"
  /\ To("configure")
  /\ \/ /\ win' = IF win.alive /\ win.mode \in Held
                  THEN [At(Normal) EXCEPT !.mode = "free"] ELSE win
        /\ Request
     \/ UNCHANGED win /\ Disturb
  /\ UNCHANGED <<adapter, asked, meddled>>

\* The second pass compensates from the frame that `check` saw.
WPlace ==
  LET visible == IF m.pass = 0 THEN Frame ELSE m.seen
      outer   == CompensateInvisibleBorders(m.target, Outer(Frame), visible)
  IN  Asks("configure", To("reobserve"),
           /\ m' = [m EXCEPT !.step = "check", !.pass = @ + 1]
           /\ \/ win' = (IF win.mode \in Held THEN win ELSE At(Inner(outer))) /\ Request
              \/ /\ \E f \in Frames : win' = At(f)
                 /\ marks' = marks \cup {"requested", "disturbed"}
           /\ UNCHANGED asked)

WCheck ==
  Looks("check", To("reobserve"),
        CASE Looked = m.target -> End(Ok)
          [] Looked # m.target /\ m.pass = 1 ->
               m' = [Afresh EXCEPT !.step = "configure", !.seen = Looked]
          [] OTHER -> End(Partial(Looked)))

WindowsStep ==
  WFind \/ NativeBefore \/ WStates \/ WRestore \/ WPlace \/ WCheck \/ Reobserve

(***************************************************************************)
(* macOS: the identities.  Element 1 is the window, 2 another window.      *)
(***************************************************************************)
Alive(element) == IF element = 1 THEN win.alive ELSE other
IdsOf(element) == {e.id : e \in {f \in table : f.el = element}}

\* `focused_window`: a window that is not known yet gets the next identity,
\* once those known to have closed are swept out.  A closed window may look
\* busy, an open one is never taken for closed.
MacFocus(element) ==
  /\ adapter = "macos" /\ m.step = "idle"
  /\ Alive(element)
  /\ IdsOf(element) = {} /\ nextId < Identities
  /\ \E swept \in SUBSET {e \in table : ~Alive(e.el)} :
       table' = (table \ swept) \cup {[id |-> nextId, el |-> element]}
  /\ given' = given \cup {[id |-> nextId, el |-> element]}
  /\ nextId' = nextId + 1
  /\ UNCHANGED <<deskVars, other>>

MacClose ==
  /\ adapter = "macos" /\ m.step = "idle" /\ other /\ other' = FALSE
  /\ UNCHANGED <<deskVars, table, given, nextId>>

(***************************************************************************)
(* macOS: the move.                                                        *)
(***************************************************************************)
\* The move names the identity given to the window when it was in focus.
MacFind ==
  /\ m.step = "list"
  /\ IF \E e \in given : e.el = 1 /\ e \in table THEN To("before") ELSE End(Gone)
  /\ UNCHANGED <<adapter, win, asked, marks, meddled>>

MacStates ==
  Reads("states", End(Failed),
        IF win.mode = "fullscreen" \/ win.fixed
        THEN End(Failed)
        ELSE To("restore"))

\* A state the program does not expose is released by the placement itself.
MacRestore ==
  Asks("restore", To("reobserve"),
       \/ /\ win.mode \in Held
          /\ win' = [At(Normal) EXCEPT !.mode = "free"]
          /\ To("size") /\ Request /\ UNCHANGED asked
       \/ To("size") /\ UNCHANGED <<win, asked, marks>>)

MacSize ==
  Asks("size", To("reobserve"),
       /\ To(IF m.pass = 0 THEN "position" ELSE "check")
       /\ \/ win' = [win EXCEPT !.mode = "free", !.w = Min({m.target.w, Room - win.x})]
             /\ Request
          \/ /\ \E f \in Frames : win' = At(f)
             /\ marks' = marks \cup {"requested", "disturbed"}
       /\ UNCHANGED asked)

MacPosition ==
  Asks("position", To("reobserve"),
       /\ To("check")
       /\ \/ win' = [win EXCEPT !.x = m.target.x] /\ Request
          \/ /\ \E f \in Frames : win' = At(f)
             /\ marks' = marks \cup {"requested", "disturbed"}
       /\ UNCHANGED asked)

MacCheck ==
  Looks("check", To("reobserve"),
        CASE m.pass = 0 /\ Looked.w # m.target.w ->
               m' = [Afresh EXCEPT !.step = "size", !.pass = 1]
          [] m.pass = 1 /\ Looked.x # m.target.x ->
               m' = [Afresh EXCEPT !.step = "position", !.pass = 2]
          [] OTHER -> IF Looked = m.target THEN End(Ok) ELSE To("reobserve"))

MacStep == MacFind \/ NativeBefore \/ MacStates \/ MacRestore \/ MacSize \/ MacPosition
           \/ MacCheck \/ Reobserve

\* A move that finds its window gone forgets it.
Forgets ==
  /\ table' = IF m'.answer = Gone THEN {e \in table : e.el # 1} ELSE table
  /\ UNCHANGED <<given, nextId, other>>
=============================================================================
