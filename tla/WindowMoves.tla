---------------------------- MODULE WindowMoves ----------------------------
(***************************************************************************)
(* The six adapters' `move_window` side by side, and what they promise    *)
(* the executor (src/src/window_system.rs).  The executor remembers where  *)
(* windows were by these answers: see WindowHistory.                       *)
(***************************************************************************)
EXTENDS X11Moves, NativeMoves, ScriptedMoves, KwinMoves

movesVars == <<deskVars, tableVars>>

ASSUME MovesConstantsOK == DeskConstantsOK /\ Identities \in Nat \ {0}

MovesInit ==
  /\ DeskInit
  /\ table = {} /\ given = {} /\ nextId = 0 /\ other = TRUE

\* The executor asks for a window that it has found in focus.
Ask ==
  /\ m.step = "idle" /\ To("list")
  /\ adapter = "macos" => \E e \in given : e.el = 1
  /\ UNCHANGED <<adapter, win, asked, marks, meddled, tableVars>>

AdapterStep ==
  \/ adapter = "x11" /\ X11Step /\ UNCHANGED tableVars
  \/ adapter = "windows" /\ WindowsStep /\ UNCHANGED tableVars
  \/ adapter \in {"sway", "hyprland"} /\ ScriptedStep /\ UNCHANGED tableVars
  \/ adapter = "kde" /\ KwinClient /\ UNCHANGED tableVars
  \/ adapter = "macos" /\ MacStep /\ Forgets

Deadline ==
  /\ \/ adapter = "x11" /\ XDeadline
     \/ adapter = "kde" /\ KDeadline
  /\ UNCHANGED tableVars

Serve ==
  /\ \/ adapter = "x11" /\ XServe
     \/ adapter = "kde" /\ KwinServes
  /\ UNCHANGED tableVars

UserActs == Meddle /\ UNCHANGED tableVars
Focus    == \E element \in {1, 2} : MacFocus(element)

MovesNext ==
  Ask \/ AdapterStep \/ Deadline \/ Serve \/ UserActs \/ Focus \/ MacClose

-----------------------------------------------------------------------------
MovesTypeOK ==
  /\ adapter \in Adapters
  /\ win \in [alive : BOOLEAN, listed : BOOLEAN, mode : Modes(adapter),
              fixed : BOOLEAN, x : Int, w : Int]
  /\ m \in Moves /\ asked \in Seq(Requests)
  /\ (m.answer = NoAnswer) = (m.step # "answered")
  /\ marks \subseteq Marks
  /\ meddled \in 0..Meddlings /\ nextId \in Nat /\ other \in BOOLEAN
  /\ \A e \in table \cup given : e.id \in 0..nextId - 1 /\ e.el \in {1, 2}

Asked == "requested" \in marks

(***************************************************************************)
(* What the executor is told is how the window stands: in place after Ok,  *)
(* at the frame reported after PartialMove, where the first look found it  *)
(* after any other failure of a move that had begun, closed after          *)
(* WindowGone.  (window_system.rs:82-87)  Three things excuse an answer.   *)
(* "blind": the adapter looked after a failure, and that look failed.      *)
(* "overtaken": the window changed after the last look had begun; a frame  *)
(* pieced together from replies before and after the change may then be    *)
(* one that it never had.  "unlooked": the KDE client gave up, and nobody  *)
(* looked; it answers Platform though the window may have moved, where     *)
(* window_system.rs asks for PartialMove.                                  *)
(***************************************************************************)
AnswersAreTrue ==
  m.step = "answered" /\ marks \cap {"blind", "unlooked", "overtaken"} = {} =>
    CASE m.answer.is = "ok"      -> Frame = m.target
      [] m.answer.is = "partial" -> Frame = m.answer.frame
      [] m.answer.is = "failed"  -> Asked => Frame = m.before
      [] m.answer.is = "gone"    -> ~win.alive \/ ~win.listed

(***************************************************************************)
(* When no call fails, no second runs out, nobody interferes and the       *)
(* window manager complies, a window that can be moved ends in its target, *)
(* whatever its state was; one that is fullscreen, or cannot be resized    *)
(* where the adapter looks at that, is not touched; and no X11 window goes *)
(* where its decorations leave no room for it.  Success is never claimed   *)
(* from a look that the manager's own service of the request tore.         *)
(***************************************************************************)
Refused  == \/ win.mode = "fullscreen"
            \/ win.fixed /\ adapter \in {"x11", "windows", "macos", "kde"}
TooSmall == adapter = "x11" /\ m.target.w <= 1

UndisturbedMovesArrive ==
  m.step = "answered" /\ "disturbed" \notin marks =>
    \/ Refused /\ ~Asked /\ m.answer = Failed
    \/ ~Refused /\ TooSmall /\ m.answer.is \in {"failed", "partial"}
    \/ ~Refused /\ ~TooSmall /\ m.answer = Ok /\ win.mode = "free" /\ Frame = m.target

(***************************************************************************)
(* KDE: once a move that touched the window is answered, the companion's   *)
(* focused window, which the next action starts from, is where the move    *)
(* left it, unless the client gave up or the window moved again after the  *)
(* script had looked.  (main.js:202-215)                                   *)
(***************************************************************************)
FocusIsFresh ==
  adapter = "kde" /\ Answered /\ Asked /\ marks \cap {"unlooked", "overtaken"} = {} =>
    m.cache = Frame

(***************************************************************************)
(* macOS: an identity stands for one window for ever, and a window that    *)
(* has not closed keeps the one it has, also while its program is too busy *)
(* to answer: the history of the window is kept under it.                  *)
(* (macos_window_system.rs:3-5, 44-50, 278-281)                            *)
(***************************************************************************)
IdentitiesAreStable ==
  \A e, f \in given :
    /\ e.id = f.id => e.el = f.el
    /\ e.el = f.el => e.id = f.id
=============================================================================
