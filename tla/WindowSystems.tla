--------------------------- MODULE WindowSystems ---------------------------
(***************************************************************************)
(* An adapter of `WindowSystem` (src/src/window_system.rs) serving one     *)
(* call of the executor: a move (WindowMoves) or the displays (Displays).  *)
(***************************************************************************)
EXTENDS WindowMoves, Displays

VARIABLE task \* the call: "move" or "displays"

systemVars == <<movesVars, displaysVars, task>>

NoMove ==
  /\ adapter \in Adapters /\ adapter = CHOOSE a \in Adapters : TRUE
  /\ win = [alive |-> TRUE, listed |-> TRUE, mode |-> "free", fixed |-> FALSE, x |-> 0, w |-> 1]
  /\ m = Unasked([x |-> 0, w |-> 1], Frame)
  /\ asked = <<>> /\ marks = {} /\ meddled = 0
  /\ table = {} /\ given = {} /\ nextId = 0 /\ other = TRUE

Init ==
  \/ task = "move" /\ MovesInit /\ NoReading
  \/ task = "displays" /\ NoMove /\ DisplaysInit

Next ==
  \/ task = "move" /\ MovesNext /\ UNCHANGED <<displaysVars, task>>
  \/ task = "displays" /\ DisplaysNext /\ UNCHANGED <<movesVars, task>>

(***************************************************************************)
(* The adapter runs, whether or not a call is ever lost, and a second      *)
(* passes.  Nothing is assumed of the window manager, the script or the    *)
(* user.                                                                   *)
(***************************************************************************)
Answering == /\ task = "move" /\ AdapterStep /\ ("lost" \in marks' => "lost" \in marks)
             /\ UNCHANGED <<displaysVars, task>>
TimesOut  == task = "move" /\ Deadline /\ UNCHANGED <<displaysVars, task>>

Spec == /\ Init /\ [][Next]_systemVars
        /\ WF_systemVars(Answering) /\ WF_systemVars(TimesOut)

(***************************************************************************)
(* Every move is answered, however the window manager behaves: the polls   *)
(* of the X11 adapter, and the wait for the KWin script, end with their    *)
(* second.                                                                 *)
(***************************************************************************)
MovesAreAnswered == m.step = "list" ~> m.step = "answered"

\* What the executor builds on: answers, the frame read next and identities.
MovesAreSound == MovesTypeOK /\ AnswersAreTrue /\ FocusIsFresh /\ IdentitiesAreStable

\* A reading is the free areas of the monitors, at some moment of the call.
ReadingsAreTrue == DisplaysAreExact /\ DisplaysAreOfTheCall
=============================================================================
