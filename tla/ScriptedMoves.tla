--------------------------- MODULE ScriptedMoves ---------------------------
(***************************************************************************)
(* Moves through swaymsg and hyprctl (src/src/wayland_window_system.rs):   *)
(* the windows are read, one batch of commands is built from what was seen *)
(* and run, and the windows are read again.                                *)
(***************************************************************************)
EXTENDS WindowDesk

\* Mutant: the position first.
PlacingMoved == <<"move", "resize">>

\* The batch.  A resize recentres a floating window, so the position is last;
\* Hyprland restores a floating maximized window by tiling it first.
Placing == <<"resize", "move">>
SwayCommands(mode) == (IF mode = "tiled" THEN <<"float">> ELSE <<>>) \o Placing
HyprCommands(mode) ==
  (IF mode = "maximized" THEN <<"tile">> ELSE <<>>)
  \o (IF mode \in Held THEN <<"float">> ELSE <<>>) \o Placing
Commands(mode) == IF adapter = "sway" THEN SwayCommands(mode) ELSE HyprCommands(mode)

SList ==
  Reads("list", End(Failed),
        IF win.mode = "fullscreen"
        THEN End(Failed)
        ELSE m' = [m EXCEPT !.step = "run", !.before = Frame,
                            !.todo = Commands(win.mode)])

(***************************************************************************)
(* The compositor runs the commands in order.  A tiled window keeps to its *)
(* layout; a floating one takes the size about its middle.                 *)
(***************************************************************************)
Effect(w, command) ==
  CASE command = "tile"   -> [w EXCEPT !.mode = "tiled"]
    [] command = "float"  -> IF w.mode = "tiled"
                             THEN [w EXCEPT !.mode = "free", !.x = Normal.x, !.w = Normal.w]
                             ELSE w
    [] command = "resize" -> IF w.mode = "free"
                             THEN [w EXCEPT !.x = @ + (w.w - m.target.w) \div 2,
                                            !.w = m.target.w]
                             ELSE w
    [] OTHER              -> IF w.mode = "free" THEN [w EXCEPT !.x = m.target.x] ELSE w

\* A batch has at most four commands.
Ran(w, commands, i) == IF i \in DOMAIN commands THEN Effect(w, commands[i]) ELSE w
After(commands) ==
  Ran(Ran(Ran(Ran(win, commands, 1), commands, 2), commands, 3), commands, 4)

\* The replies of the batch: each command succeeded, the window was not found,
\* or the batch failed, stopped or went unanswered after some of it was done.
SRun ==
  /\ m.step = "run"
  /\ \/ /\ win.alive /\ win.mode # "fullscreen"
        /\ win' = After(m.todo)
        /\ m' = [m EXCEPT !.step = "readback", !.result = "ok"]
        /\ Request
     \/ /\ win.alive
        /\ \E n \in 0..Len(m.todo) : win' = After(SubSeq(m.todo, 1, n))
        /\ m' = [m EXCEPT !.step = "readback", !.result = "failed"]
        /\ marks' = marks \cup {"requested", "disturbed"}
     \/ /\ win.alive /\ \E f \in Frames : win' = At(f)
        /\ m' = [m EXCEPT !.step = "readback", !.result = "ok"]
        /\ marks' = marks \cup {"requested", "disturbed"}
     \/ /\ ~win.alive
        /\ m' = [m EXCEPT !.step = "readback", !.result = "gone"]
        /\ Request /\ UNCHANGED win
  /\ UNCHANGED <<adapter, asked, meddled>>

\* `finish_scripted_move`
Finish(observed) ==
  CASE m.result = "ok" /\ observed = m.target      -> Ok
    [] m.result = "ok" /\ observed # m.target      -> Partial(observed)
    [] m.result # "ok" /\ observed # m.before      -> Partial(observed)
    [] m.result = "failed" /\ observed = m.before  -> Failed
    [] OTHER                                       -> Gone

SReadback ==
  /\ m.step = "readback"
  /\ \/ /\ End(IF m.result = "gone" THEN Gone ELSE Failed)
        /\ marks' = marks \cup {"disturbed", "blind"}
     \/ ~win.alive /\ End(Gone) /\ UNCHANGED marks
     \/ win.alive /\ End(Finish(Frame)) /\ UNCHANGED marks
  /\ UNCHANGED <<adapter, win, asked, meddled>>

ScriptedStep == SList \/ SRun \/ SReadback
=============================================================================
