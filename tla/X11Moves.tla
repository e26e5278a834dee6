------------------------------ MODULE X11Moves ------------------------------
(***************************************************************************)
(* X11WindowSystem::move_window (src/src/x11_window_system.rs): the window *)
(* is looked up, its state undone through its manager, its placement       *)
(* requested, and the frame watched until it arrives or a second is over.  *)
(* Each reply is a round trip: the manager and the user act in between.    *)
(***************************************************************************)
EXTENDS WindowDesk

\* The client size that makes the frame as wide as the target.
FrameTargetSize == m.target.w - Extents
SizeContainsFrame == FrameTargetSize > 0

XList ==
  /\ m.step = "list"
  /\ \/ End(Failed) /\ Disturb
     \/ ~(win.alive /\ win.listed) /\ End(Gone) /\ UNCHANGED marks
     \/ /\ win.alive /\ win.listed
        /\ To("states") /\ UNCHANGED marks
  /\ UNCHANGED <<adapter, win, asked, meddled>>

XStates ==
  Reads("states", End(Failed),
        IF win.mode = "fullscreen"
        THEN End(Failed)
        ELSE m' = [m EXCEPT !.step = "hints", !.restoring = win.mode \in Held])

XHints ==
  Reads("hints", End(Failed), IF win.fixed THEN End(Failed) ELSE To("measure"))

XMeasure ==
  Reads("measure", End(Failed),
        IF SizeContainsFrame
        THEN m' = [m EXCEPT !.step = "before", !.size = FrameTargetSize]
        ELSE End(Failed))

XBefore ==
  Looks("before", End(Failed),
        m' = [Afresh EXCEPT !.step = IF m.restoring THEN "restore" ELSE "configure",
                            !.before = Looked])

\* The client messages that take the maximized and shaded states away.
XRestore ==
  Asks("restore", To("reobserve"),
       /\ To("unheld") /\ Request
       /\ asked' = Append(asked, [is |-> "restore", x |-> 0, w |-> 0])
       /\ UNCHANGED win)

\* The states are polled until they are gone or the second is over.
XUnheld ==
  Reads("unheld", To("reobserve"),
        \/ win.mode \notin Held /\ To("extents")
        \/ win.mode \in Held /\ m.late /\ To("reobserve"))

\* The decorations may have come back, so the size is computed again.
XExtents ==
  Reads("extents", To("reobserve"),
        IF SizeContainsFrame
        THEN m' = [m EXCEPT !.step = "configure", !.size = FrameTargetSize, !.late = FALSE]
        ELSE To("reobserve"))

\* The server's acknowledgement only queues the request for the manager.
XConfigure ==
  Asks("configure", To("reobserve"),
       /\ m' = [m EXCEPT !.step = "observe", !.late = FALSE]
       /\ Request
       /\ asked' = Append(asked, [is |-> "configure", x |-> m.target.x, w |-> m.size])
       /\ UNCHANGED win)

\* Mutant: the frame is watched until it is in place.
XObserveForEver ==
  Looks("observe", To("reobserve"), IF Looked = m.target THEN End(Ok) ELSE To("observe"))

\* `observe_placement`: a frame in place answers even when it is late.
XObserve ==
  Looks("observe", To("reobserve"),
        CASE Looked = m.target -> End(Ok)
          [] Looked # m.target /\ ~m.late -> To("observe")
          [] OTHER -> IF Looked # m.before THEN End(Partial(Looked)) ELSE To("reobserve"))

XDeadline ==
  /\ m.step \in {"unheld", "observe"} /\ ~m.late
  /\ m' = [m EXCEPT !.late = TRUE]
  /\ Disturb
  /\ UNCHANGED <<adapter, win, asked, meddled>>

X11Step == XList \/ XStates \/ XHints \/ XMeasure \/ XBefore \/ XRestore \/ XUnheld
           \/ XExtents \/ XConfigure \/ XObserve \/ Reobserve

(***************************************************************************)
(* The window manager serves the requests in order.  It may drop one or    *)
(* place the window as it likes; it leaves a held window where it is.      *)
(***************************************************************************)
Serves(r) ==
  IF win.alive /\ r.is = "restore" /\ win.mode \in Held
  THEN [At(Normal) EXCEPT !.mode = "free"]
  ELSE IF win.alive /\ r.is = "configure" /\ win.mode = "free"
  THEN At([x |-> r.x, w |-> r.w + Extents])
  ELSE win

XServe ==
  /\ asked # <<>> /\ asked' = Tail(asked)
  /\ \/ /\ win' = Serves(Head(asked))
        /\ marks' = marks \cup (IF Watched /\ win' # win THEN {"overtaken"} ELSE {})
     \/ /\ win.alive /\ \E f \in Places("x11") \cup {Frame} : win' = At(f)
        /\ marks' = marks \cup {"disturbed"}
                          \cup (IF Watched THEN {"overtaken"} ELSE {})
  /\ UNCHANGED <<adapter, m, meddled>>
=============================================================================
