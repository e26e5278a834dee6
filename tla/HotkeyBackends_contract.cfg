SPECIFICATION BackendSpec
CONSTANTS
  none = none
  k = k
  ctrl = ctrl
  alt = alt
  None = none
  Codes <- MCCodes
  Bits <- MCBits
  Hotkeys <- MCX11Hotkeys
  Sets <- MCX11Sets
  Layouts <- MCLayouts
  PressStates <- MCPressStates
  MaxSocket = 2
  MaxFaults = 2
  Plain = {k}
  Modifiers = {ctrl, alt}
  AltGr = {ctrl, alt}
  HookSets <- MCHookSets
  Systems = 3
  MaxEvents = 1
  HookFaults = 2
INVARIANTS
  CaptureIsExact
  KeysComeUp
PROPERTIES
  KeysActOnce
  LossNoticed
CHECK_DEADLOCK FALSE
