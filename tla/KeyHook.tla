------------------------------ MODULE KeyHook ------------------------------
(***************************************************************************)
(* The native hotkeys of Windows and macOS: NativeListenerState, which     *)
(* sees every key before the focused program and swallows the bound ones   *)
(* (hotkey_system.rs), the thread that owns the hook or the event tap      *)
(* (hotkey_system/windows.rs, hotkey_system/macos.rs), and the systems     *)
(* that a session builds one after the other.                              *)
(* A key is one key here: the left and the right one of a modifier are not *)
(* told apart, but for the right Alt that is AltGr on Windows.             *)
(***************************************************************************)
EXTENDS Integers, Sequences, FiniteSets

CONSTANTS
  Plain,      \* keys that are no modifiers
  Modifiers,  \* keys that are
  AltGr,      \* the modifiers that together are AltGr on Windows
  Sets,       \* the sets of bindings that configs ask for
  Systems,    \* NativeHotkeySystems that a process builds, at most
  None,
  MaxEvents,  \* bound on presses the App has not taken
  MaxFaults   \* bound on failures and times without sight of the keyboard

Keys == Plain \cup Modifiers
Bindings == [mods : SUBSET Modifiers, key : Plain]

\* What the constants are.
ConstantsOK ==
  /\ Plain \cap Modifiers = {}
  /\ AltGr \subseteq Modifiers /\ AltGr # {}
  /\ Sets \subseteq SUBSET Bindings
  /\ None \notin Keys /\ \A set \in Sets : None # set
  /\ Systems \in Nat \ {0} /\ MaxEvents \in Nat /\ MaxFaults \in Nat

VARIABLES
  platform,   \* "windows" or "macos"
  down,       \* the keys that are physically down
  seen,       \* those the focused program takes for down
  blind,      \* a secure desktop is shown, or the tap is disabled
  missed,     \* whether a key has changed behind the back of the hook
  hook,       \* NativeListenerState, and whether its hook is installed
  orphans,    \* hooks of threads that nobody holds any more
  app,        \* the system in use: its number, the set it holds, its queue
  faults

vars == <<platform, down, seen, blind, missed, hook, orphans, app, faults>>

TypeOK ==
  /\ platform \in {"windows", "macos"}
  /\ down \subseteq Keys /\ seen \subseteq Keys
  /\ blind \in BOOLEAN /\ missed \in BOOLEAN
  /\ hook \in [on : BOOLEAN, error : BOOLEAN, pressed : SUBSET Keys, swallowed : SUBSET Plain,
               bindings : Sets \cup {{}}, owner : (1 .. Systems) \cup {None}]
  /\ hook.swallowed \subseteq hook.pressed
  /\ orphans \in 0 .. Systems
  /\ app \in [number : 1 .. Systems, held : Sets \cup {None}, events : Seq(Bindings)]
  /\ faults \in 0 .. MaxFaults

Calm == UNCHANGED faults
Fault == faults < MaxFaults /\ faults' = faults + 1

ModifiersDown == down \cap Modifiers

-----------------------------------------------------------------------------
(* What the hook does with a key: handle_event.                            *)

ReconciledWindows(x) ==
  LET mods == (hook.pressed \cap {x}) \cup (ModifiersDown \ {x})
      lost == ((hook.pressed \cap Modifiers) \ {x}) \ down # {}
  IN [hook EXCEPT
       !.pressed = (mods \cap Modifiers) \cup (IF lost THEN {} ELSE @ \cap Plain),
       !.swallowed = IF lost THEN {} ELSE @]

\* macOS: the flags of every event say which modifiers are down.
FlaggedMacos(mods) == [hook EXCEPT !.pressed = (@ \cap Plain) \cup mods]

Chord(h, key) == [mods |-> h.pressed \cap Modifiers, key |-> key]

\* AltGr is for typing.
Types(h) == platform = "windows" /\ AltGr \subseteq h.pressed

\* A first press acts if it completes a binding whose owner listens.
Acts(h, x) ==
  x \in Plain \ h.pressed /\ ~Types(h) /\ Chord(h, x) \in h.bindings /\ h.owner # None

\* The hook swallows the press of x or lets the program have it.
HandlePress(h, x) ==
  LET acts == Acts(h, x)
      consumed == acts \/ (x \in h.pressed /\ x \in h.swallowed)
  IN /\ hook' = [h EXCEPT !.pressed = @ \cup {x},
                          !.swallowed = IF acts THEN @ \cup {x} ELSE @]
     /\ app' = IF acts THEN [app EXCEPT !.events = Append(@, Chord(h, x))] ELSE app
     /\ seen' = IF consumed THEN seen ELSE seen \cup {x}
     /\ UNCHANGED missed

\* Mutant: the release of a swallowed key leaves its mark.
HandleReleaseKeeping(h, x) ==
  /\ hook' = [h EXCEPT !.pressed = @ \ {x}]
  /\ seen' = IF x \in h.swallowed THEN seen ELSE seen \ {x}
  /\ UNCHANGED <<app, missed>>
HandleRelease(h, x) ==
  /\ hook' = [h EXCEPT !.pressed = @ \ {x}, !.swallowed = @ \ {x}]
  /\ seen' = IF x \in h.swallowed THEN seen ELSE seen \ {x}
  /\ UNCHANGED <<app, missed>>

\* Nobody looks at the key: it goes where it would go.  Behind a secure desktop the
\* focused program does not get it either.
PassesBy(x, pressed) ==
  /\ seen' = IF blind /\ platform = "windows" THEN seen
             ELSE IF pressed THEN seen \cup {x} ELSE seen \ {x}
  /\ missed' = (missed \/ (hook.on /\ (pressed <=> x \notin down)))
  /\ UNCHANGED <<hook, app>>

Sees == hook.on /\ ~blind
Room == Len(app.events) < MaxEvents

KeyPressed == \E x \in Keys \ down :
  /\ Room
  /\ down' = down \cup {x}
  /\ IF ~Sees THEN PassesBy(x, TRUE)
     ELSE IF platform = "windows" THEN HandlePress(ReconciledWindows(x), x)
     ELSE IF x \in Modifiers
     THEN /\ hook' = FlaggedMacos(ModifiersDown \cup {x})
          /\ seen' = seen \cup {x}
          /\ UNCHANGED <<app, missed>>
     ELSE HandlePress(FlaggedMacos(ModifiersDown), x)
  /\ Calm
  /\ UNCHANGED <<platform, blind, orphans>>

KeyReleased == \E x \in down :
  /\ down' = down \ {x}
  /\ IF ~Sees THEN PassesBy(x, FALSE)
     ELSE IF platform = "windows" THEN HandleRelease(ReconciledWindows(x), x)
     ELSE IF x \in Modifiers
     THEN /\ hook' = FlaggedMacos(ModifiersDown \ {x})
          /\ seen' = seen \ {x}
          /\ UNCHANGED <<app, missed>>
     ELSE HandleRelease(FlaggedMacos(ModifiersDown), x)
  /\ Calm
  /\ UNCHANGED <<platform, blind, orphans>>

\* A held key repeats.  On macOS the repeats are marked: they make neither the hook
\* nor the program take a key for pressed.
KeyRepeats == \E x \in down :
  /\ Room
  /\ IF platform = "macos"
     THEN /\ hook' = IF Sees THEN FlaggedMacos(ModifiersDown) ELSE hook
          /\ UNCHANGED <<seen, missed, app>>
     ELSE IF Sees THEN HandlePress(ReconciledWindows(x), x) ELSE PassesBy(x, TRUE)
  /\ Calm
  /\ UNCHANGED <<platform, down, blind, orphans>>

-----------------------------------------------------------------------------
(* The hook loses sight of the keyboard and regains it.                    *)

\* Windows shows a secure desktop, and the focused program loses its keys; or macOS
\* disables a tap that was slow.
SightLost ==
  /\ hook.on /\ ~blind
  /\ Fault
  /\ blind' = TRUE
  /\ seen' = IF platform = "windows" THEN {} ELSE seen
  /\ UNCHANGED <<platform, down, missed, hook, orphans, app>>

Reconciled(h) == [h EXCEPT !.pressed = down, !.swallowed = @ \cap down]

\* The desktop is back; or the tap is told, reconciles, and is enabled again.
SightRegained ==
  /\ blind
  /\ blind' = FALSE
  /\ IF platform = "macos" /\ hook.on
     THEN hook' = Reconciled(hook) ELSE UNCHANGED hook
  /\ Calm
  /\ UNCHANGED <<platform, down, seen, missed, orphans, app>>

\* The callback panics, the message loop fails, or the tap cannot be enabled: the
\* hook goes, and its thread publishes the error afterwards.
HookEnds ==
  /\ hook.on
  /\ Fault
  /\ hook' = [hook EXCEPT !.on = FALSE]
  /\ UNCHANGED <<platform, down, seen, blind, missed, orphans, app>>

Stopped(h) == [h EXCEPT !.error = TRUE, !.bindings = {}, !.owner = None]

ThreadEnds ==
  /\ ~hook.on /\ ~hook.error
  /\ hook' = Stopped(hook)
  /\ Calm
  /\ UNCHANGED <<platform, down, seen, blind, missed, orphans, app>>

-----------------------------------------------------------------------------
(* NativeHotkeySystem.                                                     *)

\* A hook starts, with the keys that are down; or it does not.
HeldAtStart == down
Started(works) == [on |-> works, error |-> ~works,
                   pressed |-> IF works THEN HeldAtStart ELSE {},
                   swallowed |-> {}, bindings |-> {}, owner |-> None]

Dropped(h) ==
  IF h.owner = app.number THEN [h EXCEPT !.bindings = {}, !.owner = None] ELSE h

\* A hook that still runs when another is put in its place is left to itself.
Beside(stopped) == IF hook.on /\ ~stopped THEN orphans + 1 ELSE orphans

\* Windows: the thread is joined before another starts, or none starts.
Replaced(stops, works) ==
  \/ /\ stops \/ ~hook.on
     /\ hook' = Started(works) /\ orphans' = Beside(stops)
  \/ /\ ~stops /\ hook.on
     /\ hook' = Stopped(hook) /\ UNCHANGED orphans

\* macOS: a tap that may still run is shared, one that says it has ended replaced.
Shared(works) ==
  \/ hook.error /\ hook' = Started(works) /\ orphans' = Beside(FALSE)
  \/ ~hook.error /\ hook' = Dropped(hook) /\ UNCHANGED orphans

\* The session restarts: the old system is dropped before the new one is built.
AppRestarts == \E stops, works \in BOOLEAN :
  /\ app.number < Systems
  /\ platform = "windows" => ~blind
  /\ IF platform = "windows" THEN Replaced(stops, works) ELSE Shared(works)
  /\ blind' = (blind /\ ~hook.error)
  /\ missed' = (missed /\ platform = "macos")
  /\ app' = [number |-> app.number + 1, held |-> None, events |-> <<>>]
  /\ IF stops /\ works THEN Calm ELSE Fault
  /\ UNCHANGED <<platform, down, seen>>

\* register_hotkeys: the whole set, or an error that names the stopped thread.
AppRegisters == \E set \in Sets :
  /\ app.held # set
  /\ IF hook.error
     THEN app' = [app EXCEPT !.held = None] /\ UNCHANGED hook
     ELSE /\ app' = [app EXCEPT !.held = set]
          /\ hook' = [hook EXCEPT !.bindings = set, !.owner = app.number]
  /\ Calm
  /\ UNCHANGED <<platform, down, seen, blind, missed, orphans>>

\* next_hotkey, and hotkeys_lost.
AppPolls ==
  /\ app.held # None
  /\ \/ hook.error /\ app' = [app EXCEPT !.held = None]
     \/ /\ ~hook.error /\ hook.owner = app.number /\ app.events # <<>>
        /\ app' = [app EXCEPT !.events = Tail(@)]
  /\ Calm
  /\ UNCHANGED <<platform, down, seen, blind, missed, hook, orphans>>

-----------------------------------------------------------------------------
Init ==
  /\ platform \in {"windows", "macos"}
  /\ down \in SUBSET Plain
  /\ seen = down
  /\ blind = FALSE /\ missed = FALSE
  /\ \E works \in BOOLEAN : hook = Started(works)
  /\ orphans = 0
  /\ app = [number |-> 1, held |-> None, events |-> <<>>]
  /\ faults = 0

KeyboardNext == KeyPressed \/ KeyReleased \/ KeyRepeats \/ SightLost \/ SightRegained
HookNext == HookEnds \/ ThreadEnds
AppNext == AppRestarts \/ AppRegisters \/ AppPolls
Next == KeyboardNext \/ HookNext \/ AppNext

Spec == Init /\ [][Next]_vars

\* A thread that leaves its loop ends, and the runner polls.
Fairness == WF_vars(ThreadEnds) /\ WF_vars(AppPolls)
FairSpec == Spec /\ Fairness

-----------------------------------------------------------------------------
\* No key sticks on Windows, however presses and releases were swallowed, missed or
\* passed by; nor on macOS while the tap has seen every key.
KeysComeUp == platform = "windows" \/ ~missed => seen \subseteq down

\* One hook at most sees the keyboard, whatever became of the threads before: none is
\* started before the last has ended, and one that says it has ended is off.
OneHook == orphans + (IF hook.on THEN 1 ELSE 0) <= 1

\* An action takes its modifiers to be down for real, AltGr is never taken for Ctrl
\* and Alt, and no repeat acts: not where a key was held when the hook started, only
\* where it was pressed, or a modifier released, behind the hook's back.
ChordsAreHeld ==
  [][Len(app'.events) > Len(app.events) =>
       LET b == app'.events[Len(app'.events)]
       IN /\ b.mods = ModifiersDown
          /\ platform = "windows" => ~(AltGr \subseteq b.mods)
          /\ b.key \in down => missed]_vars

\* Nor is a press lost: the hook acts on every new press of a chord that is bound,
\* except on Windows once it has missed something.
ChordsAct ==
  [][\A x \in Plain :
       /\ Sees /\ (platform = "windows" => ~missed) /\ hook.owner # None /\ x \in down' \ down
       /\ [mods |-> ModifiersDown, key |-> x] \in hook.bindings
       /\ platform = "windows" => ~(AltGr \subseteq down)
       => Len(app'.events) > Len(app.events)]_vars

\* A set that the App holds is the one the hook looks for, or the loss of the hook is
\* about to be told.
HeldIsBound ==
  app.held # None =>
    hook.error \/ (hook.bindings = app.held /\ hook.owner = app.number)

\* A hook that has ended is noticed.
FailureNoticed == app.held # None /\ ~hook.on ~> app.held = None \/ hook.on
=============================================================================
