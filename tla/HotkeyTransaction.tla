-------------------------- MODULE HotkeyTransaction --------------------------
(***************************************************************************)
(* What the App promises of its config and its hotkeys, as src/runtime.rs  *)
(* states it above struct App: the active config and the registered set    *)
(* change together.  A replacement commits both or neither; the            *)
(* registration of the active config may be lost and may come back.        *)
(***************************************************************************)
CONSTANTS Configs, NoConfig, HotkeysOf, Nothing

VARIABLES
  active,     \* the config that dispatches use
  captured    \* the hotkey set dispatches come from, or Nothing

Init ==
  /\ active \in Configs \cup {NoConfig}
  /\ captured = Nothing

Commit == \E config \in Configs \cup {NoConfig} :
  /\ active' = config
  /\ captured' = HotkeysOf[config]

Lose ==
  /\ captured' = Nothing
  /\ UNCHANGED active

Next == Commit \/ Lose

Spec == Init /\ [][Next]_<<active, captured>>
=============================================================================
