----------------------------- MODULE WindowDesk -----------------------------
(***************************************************************************)
(* One window, what its manager and its user do to it, and the move that  *)
(* an adapter of `WindowSystem` (src/src/window_system.rs) is making of it. *)
(* A rectangle is reduced to one axis, [x, w]: the adapters treat the two  *)
(* axes alike and apart.  The window, its manager and its user are outside *)
(* the repository; the adapters are in X11Moves, NativeMoves,              *)
(* ScriptedMoves and KwinMoves, and WindowMoves puts them together.        *)
(***************************************************************************)
EXTENDS Integers, Sequences, SequencesExt, FiniteSetsExt

CONSTANTS Adapters,  \* of AllAdapters
          Room,      \* the width of the desktop
          Meddlings  \* bound: how often the user interferes

VARIABLES adapter, \* the adapter in use
          win,     \* the window as it really is
          asked,   \* requests the window manager, or the script, has yet to serve
          m,       \* the move: its step, and what the adapter remembers
          marks,   \* what has happened, for the properties only
          meddled  \* how often the user has interfered

deskVars == <<adapter, win, asked, m, marks, meddled>>

AllAdapters == {"x11", "windows", "macos", "sway", "hyprland", "kde"}

DeskConstantsOK ==
  /\ Adapters \subseteq AllAdapters
  /\ Room \in Nat \ {0} /\ Meddlings \in Nat

Frames == {f \in [x : 0..Room - 1, w : 1..Room] : f.x + f.w <= Room}
Spans   == [x : Int, w : Int]
Nowhere == [x |-> 0, w |-> 0]
Normal  == [x |-> 0, w |-> 2]   \* where a window that is restored goes first

\* An X11 frame holds its decorations and at least one column of its client.
Places(a) == IF a = "x11" THEN {f \in Frames : f.w > 1} ELSE Frames

\* The states an adapter must undo before it can place the window.
Held == {"tiled", "maximized"}

Modes(a) == CASE a = "sway"     -> {"free", "tiled", "fullscreen"}
              [] a = "hyprland" -> {"free", "tiled", "maximized", "fullscreen"}
              [] a = "windows"  -> {"free", "tiled", "maximized", "fullscreen"}
              [] a = "kde"      -> {"free", "tiled", "maximized", "fullscreen"}
              [] OTHER          -> {"free", "maximized", "fullscreen"}

Frame == [x |-> win.x, w |-> win.w]
At(f)  == [win EXCEPT !.x = f.x, !.w = f.w]

\* `WindowSystemError` and success.
NoAnswer   == [is |-> "none", frame |-> Nowhere]
Ok         == [is |-> "ok", frame |-> Nowhere]
Failed     == [is |-> "failed", frame |-> Nowhere]
Gone       == [is |-> "gone", frame |-> Nowhere]
Partial(f) == [is |-> "partial", frame |-> f]
Answers    == {a \in [is : {"none", "ok", "failed", "gone", "partial"}, frame : Spans] :
                 a.is # "partial" => a.frame = Nowhere}

Steps == {"idle", "list", "before", "states", "hints", "measure", "restore", "unheld",
          "extents", "configure", "observe", "size", "position", "check", "run",
          "readback", "reobserve", "answered"}
Marks == {"disturbed", "lost", "requested", "blind", "unlooked", "overtaken"}

\* What a window manager is asked for, what the KWin script posts, and a move.
Requests  == [is : {"restore", "configure", "move"}, x : Int, w : Int]
Commanded == {"tile", "float", "resize", "move", "commit"}
Posted    == [is : {"focus", "complete"}, frame : Spans, answer : Answers]
Moves ==
  [step : Steps, got : 0..2, read : Spans,
   target : Frames, before : Spans, seen : Spans, size : Int, pass : 0..2,
   restoring : BOOLEAN, late : BOOLEAN, todo : Seq(Commanded), result : {"ok", "failed", "gone"},
   script : {"idle", "watching", "done"}, post : Seq(Posted), told : Answers,
   cache : Spans, answer : Answers]

\* No move of a window that stands at f yet; the target is the executor's.
Unasked(target, f) ==
  [step |-> "idle", got |-> 0, read |-> Nowhere,
   target |-> target, before |-> f, seen |-> Nowhere, size |-> 0,
   pass |-> 0, restoring |-> FALSE, late |-> FALSE, todo |-> <<>>, result |-> "ok",
   script |-> "idle", post |-> <<>>, told |-> NoAnswer, cache |-> f, answer |-> NoAnswer]

DeskInit ==
  /\ adapter \in Adapters
  /\ \E f \in Places(adapter), mode \in Modes(adapter), fixed \in BOOLEAN :
       win = [alive |-> TRUE, listed |-> TRUE, mode |-> mode, fixed |-> fixed,
              x |-> f.x, w |-> f.w]
  /\ \E target \in Frames : m = Unasked(target, Frame)
  /\ asked = <<>> /\ marks = {} /\ meddled = 0

\* What a look had got so far is forgotten when it is over.
Afresh == [m EXCEPT !.got = 0, !.read = Nowhere]
To(s)  == m' = [Afresh EXCEPT !.step = s]
End(a) == m' = [Afresh EXCEPT !.step = "answered", !.answer = a]

Disturb  == marks' = marks \cup {"disturbed"}
Request  == marks' = marks \cup {"requested"}
Answered == m.step = "answered"

\* A change from here on escapes what has been read for the answer.
Watched == Answered \/ m.got > 0 \/ (adapter = "kde" /\ m.script = "done")

(***************************************************************************)
(* A call about the window at step s: it is lost (the connection, the      *)
(* compositor or the owning program does not answer), it says that the     *)
(* window is gone, or it is answered and the adapter goes on.              *)
(***************************************************************************)
Asks(s, lost, then) ==
  /\ m.step = s
  /\ \/ lost /\ marks' = marks \cup {"disturbed", "lost"} /\ UNCHANGED <<win, asked>>
     \/ ~win.alive /\ End(Gone) /\ UNCHANGED <<marks, win, asked>>
     \/ win.alive /\ then
  /\ UNCHANGED <<adapter, meddled>>

Reads(s, lost, then) == Asks(s, lost, then /\ UNCHANGED <<marks, win, asked>>)

(***************************************************************************)
(* A look at the frame.  The X11 adapter asks for the client's width, for  *)
(* its origin and for the decorations, which are on its left here; the     *)
(* macOS one for the position and the size; the window may change between  *)
(* two replies.  Where the platform tells the frame in one call it is one  *)
(* reply.  X11: a window that fills the screen or its workspace has no     *)
(* decorations.                                                            *)
(***************************************************************************)
Extents == IF win.mode = "free" THEN 1 ELSE 0

Replies == CASE adapter = "x11" -> 3 [] adapter = "macos" -> 2 [] OTHER -> 1

\* What has been read with the next reply.
Looked ==
  CASE adapter = "x11" /\ m.got = 0   -> [m.read EXCEPT !.w = win.w - Extents]
    [] adapter = "x11" /\ m.got = 1   -> [m.read EXCEPT !.x = win.x + Extents]
    [] adapter = "x11" /\ m.got = 2   -> [x |-> m.read.x - Extents, w |-> m.read.w + Extents]
    [] adapter = "macos" /\ m.got = 0 -> [m.read EXCEPT !.x = win.x]
    [] adapter = "macos" /\ m.got = 1 -> [m.read EXCEPT !.w = win.w]
    [] OTHER                          -> Frame

\* The next reply of a look; the last one says how the adapter goes on.
Replied(then) ==
  /\ win.alive
  /\ marks' = IF m.got = 0 THEN marks \ {"overtaken"} ELSE marks
  /\ IF m.got + 1 < Replies THEN m' = [m EXCEPT !.got = @ + 1, !.read = Looked] ELSE then

Looks(s, lost, then) ==
  /\ m.step = s
  /\ \/ lost /\ marks' = marks \cup {"disturbed", "lost"}
     \/ ~win.alive /\ End(Gone) /\ UNCHANGED marks
     \/ Replied(then)
  /\ UNCHANGED <<adapter, win, asked, meddled>>

\* Mutant: a failure is answered without another look.
ReobserveBlindly ==
  /\ m.step = "reobserve"
  /\ IF win.alive THEN End(Failed) ELSE End(Gone)
  /\ UNCHANGED <<adapter, win, asked, marks, meddled>>

(***************************************************************************)
(* After a failure once placing has begun, three adapters look once more:  *)
(* a frame that is not the one before is a partial move.                   *)
(***************************************************************************)
Reobserve ==
  /\ m.step = "reobserve"
  /\ \/ End(Failed) /\ marks' = marks \cup {"disturbed", "blind"}
     \/ ~win.alive /\ End(Gone) /\ UNCHANGED marks
     \/ Replied(IF Looked # m.before THEN End(Partial(Looked)) ELSE End(Failed))
  /\ UNCHANGED <<adapter, win, asked, meddled>>

(***************************************************************************)
(* The user moves the window, changes its state, or closes it.             *)
(***************************************************************************)
Meddle ==
  /\ meddled < Meddlings /\ meddled' = meddled + 1
  /\ win.alive /\ ~Answered
  /\ \/ \E f \in Places(adapter) : win' = [At(f) EXCEPT !.mode = "free"]
     \/ \E mode \in Modes(adapter) : win' = [win EXCEPT !.mode = mode]
     \/ win' = [win EXCEPT !.alive = FALSE]
     \/ adapter = "x11" /\ win' = [win EXCEPT !.listed = FALSE]
  /\ marks' = marks \cup {"disturbed"} \cup (IF Watched THEN {"overtaken"} ELSE {})
  /\ UNCHANGED <<adapter, asked, m>>
=============================================================================
