-------------------------- MODULE MCHotkeyBackends --------------------------
(* Constants for TLC.  X11: two keys, and two layouts that swap them, the   *)
(* second without a level of the first.  Native: one key, Ctrl and Alt,     *)
(* which together are AltGr.                                                *)
EXTENDS HotkeyBackends

CONSTANTS none, k, ctrl, alt

MCBits == {"ctrl", "shift", "lock"}
Two == [mask |-> {"shift"}, map |-> {[mods |-> {"shift"}, level |-> 2]}]
One == [mask |-> {}, map |-> {}]
Slots == [n \in {"ctrl", "shift", "lock"} |-> {n}]
MCCodes == {10, 11}
PlainLayout == [syms |-> [c \in MCCodes |-> IF c = 10 THEN <<"y", "equal">> ELSE <<"z">>],
          type |-> [c \in MCCodes |-> IF c = 10 THEN Two ELSE One], slots |-> Slots]
Swapped == [syms |-> [c \in MCCodes |-> IF c = 10 THEN <<"z">> ELSE <<"y">>],
            type |-> [c \in MCCodes |-> One], slots |-> Slots]
CtrlY == [sym |-> "y", mods |-> {"ctrl"}]
CtrlZ == [sym |-> "z", mods |-> {"ctrl"}]
CtrlEqual == [sym |-> "equal", mods |-> {"ctrl"}]
MCLayouts == {PlainLayout, Swapped}
MCX11Hotkeys == {CtrlY, CtrlZ, CtrlEqual}
MCX11Sets == {{CtrlY}, {CtrlEqual, CtrlZ}}
MCPressStates == {{"ctrl"}, {"ctrl", "shift"}}

JustK == [mods |-> {}, key |-> k]
CtrlK == [mods |-> {ctrl}, key |-> k]
CtrlAltK == [mods |-> {ctrl, alt}, key |-> k]
MCHookSets == {{JustK}, {CtrlK, CtrlAltK}}
=============================================================================
