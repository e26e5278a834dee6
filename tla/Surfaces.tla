------------------------------ MODULE Surfaces ------------------------------
(***************************************************************************)
(* What the user sees of the App while no terminal is attached: the        *)
(* desktop notifications of src/application/notifications.rs and the       *)
(* status lines of the tray in surfaces/tray.rs, fed by the events of      *)
(* AppRuntime through run_runtime and CliSurface.                          *)
(*                                                                         *)
(* Each pass of the runner reports the events of its handlers and then     *)
(* refreshes the surface.  The age of a pending outage is counted in units *)
(* of Pass, up to Grace.  The update of a tray label may fail; delivery of *)
(* a notification is best effort and left out.                             *)
(***************************************************************************)
EXTENDS AppRuntime

CONSTANTS
  Grace    \* HOTKEY_OUTAGE_GRACE, in units of Pass

ASSUME GraceOK == Grace \in Nat /\ Grace > RetryInterval

VARIABLES
  notes,   \* NotificationPolicy: the age of the pending outage, the problem shown
  tray,    \* TraySurface: dirty, and whether its labels are the current status lines
  warned   \* history variable: whether the failure App reports now was notified

view == <<notes, tray>>
allVars == <<vars, view, warned>>

NoOutage == -1
Kinds == {"config", "hotkeys"}

\* tray_status_lines: the lines that App's events are to keep current.
StatusLines(a) == <<a.configState, a.config, a.hotkeyState>>

SurfacesTypeOK ==
  /\ notes \in [outage : NoOutage .. Grace, shown : Kinds \cup {None}]
  /\ tray \in [dirty : BOOLEAN, current : BOOLEAN]
  /\ warned \in BOOLEAN

-----------------------------------------------------------------------------
(* NotificationPolicy.                                                     *)

\* Mutant: what is shown replaces the outage that waits to be.
ProblemInstead(n, kind) == [outage |-> NoOutage, shown |-> kind]

Problem(n, kind) == [n EXCEPT !.shown = kind]

\* Mutant: any good news takes the problem off the screen.
ResolvesWhateverShown(n, kind) == [n EXCEPT !.shown = None]

Resolves(n, kind) == IF n.shown = kind THEN [n EXCEPT !.shown = None] ELSE n

PolicyEvent(n, event) ==
  CASE event.kind = "HotkeysUnavailable" ->
         [n EXCEPT !.outage = IF @ = NoOutage THEN 0 ELSE @]
    [] event.kind \in {"ConfigFailed", "ConfigPending", "ConfigRejected"} ->
         Problem(n, "config")
    [] event.kind = "HotkeysRejected" -> Problem([n EXCEPT !.outage = NoOutage], "hotkeys")
    [] event.kind = "ConfigLoaded" -> Resolves(n, "config")
    [] event.kind \in {"HotkeysRegistered", "HotkeysRecovered"} ->
         Resolves([n EXCEPT !.outage = NoOutage], "hotkeys")
    [] event.kind = "ConfigMissing" -> n

OutageDue(n) == n.outage >= Grace

PolicyTick(n) ==
  IF OutageDue(n) THEN Problem([n EXCEPT !.outage = NoOutage], "hotkeys") ELSE n

-----------------------------------------------------------------------------
(* A pass of the runner.                                                   *)

\* App::startup_event of an App that has just been built.
StartupEvent(a) ==
  CASE a.configState = "loaded"  -> [kind |-> "ConfigLoaded", why |-> "ok"]
    [] a.configState = "missing" -> [kind |-> "ConfigMissing", why |-> "ok"]
    [] OTHER                     -> [kind |-> "ConfigFailed", why |-> a.configState]

\* Mutant: a label that could not be updated is forgotten.
RefreshOnce(changed, reported) == \E failed \in BOOLEAN :
  LET dirty == tray.dirty \/ reported
      current == tray.current /\ ~changed
  IN tray' = [dirty |-> FALSE, current |-> current \/ (dirty /\ ~failed)]

\* TraySurface::refresh, where the update of a label may fail.
Refresh(changed, reported) == \E failed \in BOOLEAN :
  LET dirty == tray.dirty \/ reported
      current == tray.current /\ ~changed
  IN tray' = [dirty |-> dirty /\ failed /\ ~current,
              current |-> current \/ (dirty /\ ~failed)]

\* The policy hears the reports of a pass in their order; a handler makes at most three,
\* and a restart has its startup event before them.
HearsNext(n, reports, i) == IF i <= Len(reports) THEN PolicyEvent(n, reports[i]) ELSE n
Hears(n, reports) ==
  HearsNext(HearsNext(HearsNext(HearsNext(n, reports, 1), reports, 2), reports, 3), reports, 4)

\* The reports of a pass and the refresh after them.
Report(reports, other) ==
  LET n == Hears(notes, reports)
  IN /\ notes' = PolicyTick(n)
     /\ Refresh(StatusLines(app) # StatusLines(app'), other \/ reports # <<>>)
     /\ warned' = (app'.hotkeyState \in Reasons /\ (OutageDue(n) \/ warned))

\* A pass that ticks; one that, its first tick done, does not, but may report a
\* dispatch or the status; one that reloads; one whose presses meet a loss.
PassTicks == Tick /\ Report(events', FALSE)
PassIdles == /\ app.hotkeyState # "unregistered"
             /\ UNCHANGED <<environment, app, held, told>>
             /\ events' = <<>>
             /\ \E other \in BOOLEAN : Report(<<>>, other)
PassReloads == Reload /\ Report(events', TRUE)
PassLoses == HotkeysLost /\ Report(events', FALSE)
PassRestarts == Restart /\ Report(<<StartupEvent(StartAt(file))>> \o events', TRUE)

\* Time: with Pass of AppRuntime, or alone when App has no deadline.
Wait ==
  /\ \/ Pass
     \/ /\ app.retryIn = 0 /\ app.reloadIn <= 0
        /\ events' = <<>>
        /\ UNCHANGED <<environment, app, held, told>>
  /\ ~OutageDue(notes)
  /\ notes.outage # NoOutage \/ Pass
  /\ notes' = [notes EXCEPT !.outage = IF @ = NoOutage THEN @ ELSE @ + 1]
  /\ UNCHANGED <<tray, warned>>

World ==
  /\ EditFile \/ ServiceChanges \/ RefusalsChange
  /\ UNCHANGED <<view, warned>>

\* Runtime::new and TraySurface::new; run_runtime reports the startup event
\* before its first pass.
SurfacesInit ==
  /\ Init
  /\ notes = PolicyEvent([outage |-> NoOutage, shown |-> None], StartupEvent(app))
  /\ tray = [dirty |-> TRUE, current |-> TRUE]
  /\ warned = FALSE

SurfacesNext ==
  \/ PassTicks
  \/ PassIdles
  \/ PassReloads
  \/ PassLoses
  \/ PassRestarts
  \/ Wait
  \/ World

SurfacesSpec == SurfacesInit /\ [][SurfacesNext]_allVars

-----------------------------------------------------------------------------
(* Safety.                                                                 *)

\* "unavailable hotkeys notify after 20 seconds of continuous outage even if
\* diagnostics change" (docs/runbooks/running.md): an outage the App reports is
\* notified or its grace period runs, whatever was shown of it in between.
OutageIsNotified ==
  app.hotkeyState \in Reasons => notes.outage # NoOutage \/ warned

\* "A resolution is shown only for the problem currently on screen", and it is
\* true: the hotkeys are registered, or the config of the file is active.
ResolutionIsTrue ==
  [][notes.shown # None /\ notes'.shown = None =>
       IF notes.shown = "config" THEN app'.configState = "loaded"
       ELSE app'.hotkeyState = "registered"]_allVars

\* Between passes the tray shows the state of the App unless it is still to be
\* refreshed: no state changes without an event that marks the tray dirty.
TrayIsCurrent == tray.dirty \/ tray.current

\* What the user is shown and what the notifications hold are of the present.
SurfacesAreCurrent == SurfacesTypeOK /\ TrayIsCurrent
=============================================================================
