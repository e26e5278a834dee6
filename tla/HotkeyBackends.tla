--------------------------- MODULE HotkeyBackends ---------------------------
(***************************************************************************)
(* RuntimeHotkeySystem (application/backends/hotkeys.rs): a session runs   *)
(* on the one hotkey adapter that its backend has.  X11Hotkeys is extended *)
(* and KeyHook instantiated; GnomeHotkeys and KwinHotkeys, which several   *)
(* processes share, are checked by themselves.  What every adapter owes    *)
(* the App is stated once, each keeping it in its own words.               *)
(***************************************************************************)
EXTENDS X11Hotkeys, Integers

CONSTANTS Plain, Modifiers, AltGr, HookSets, Systems, MaxEvents, HookFaults

VARIABLES
  backend,   \* RuntimeBackend
  platform, down, seen, blind, missed, hook, orphans, native, hookFaults

Native == INSTANCE KeyHook
            WITH Sets <- HookSets, MaxFaults <- HookFaults, app <- native,
                 faults <- hookFaults

ASSUME HookConstantsOK == Native!ConstantsOK

x11Vars == vars
nativeVars == <<platform, down, seen, blind, missed, hook, orphans, native, hookFaults>>

\* An adapter that was not chosen does not exist: it stands still in one state.
BackendInit ==
  /\ backend \in {"X11", "Windows", "MacOS"}
  /\ Init /\ Native!Init
  /\ backend # "X11" => server.layout = (CHOOSE layout \in Layouts : TRUE)
  /\ platform = (IF backend = "Windows" THEN "windows" ELSE "macos")
  /\ backend = "X11" => down = {} /\ hook.on

BackendNext ==
  \/ backend = "X11" /\ Next /\ UNCHANGED <<backend, nativeVars>>
  \/ backend # "X11" /\ Native!Next /\ UNCHANGED <<backend, x11Vars>>

\* Each adapter's own scheduling; the one that stands still could do nothing.
BackendSpec ==
  /\ BackendInit
  /\ [][BackendNext]_<<backend, x11Vars, nativeVars>>
  /\ Fairness /\ Native!Fairness

-----------------------------------------------------------------------------
BackendTypeOK == TypeOK /\ Native!TypeOK

\* The set that the App holds is the one the backend captures, or the end of the
\* listener is about to be told, whatever was refused, rolled back, spelt anew for
\* another layout or replaced on the way.
HeldIsCaptured == HeldIsGrabbed /\ Native!HeldIsBound

\* A listener that ended is noticed: the App does not believe in a lost set for ever.
LossNoticed == FailureNoticed /\ Native!FailureNoticed

\* The properties that only the native hook has.
KeysComeUp == Native!KeysComeUp
OneHook == Native!OneHook
ChordsAreHeld == Native!ChordsAreHeld
ChordsAct == Native!ChordsAct

\* Exactly the App's set is captured, in every spelling, by one listener or hook.
CaptureIsExact == BackendTypeOK /\ HeldIsCaptured /\ GrabsSpellHotkeys /\ OneHook

\* A chord acts when it is pressed with its modifiers, and once per press.
KeysActOnce == OncePerHold /\ ChordsAreHeld /\ ChordsAct
=============================================================================
