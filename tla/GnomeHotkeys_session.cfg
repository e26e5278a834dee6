SPECIFICATION FairSpec
CONSTANTS
  a1 = a1
  a2 = a2
  k1 = k1
  k2 = k2
  c1 = c1
  c2 = c2
  c3 = c3
  none = none
  Apps = {a1, a2}
  Keys = {k1, k2}
  Sets <- OverlappingSets
  Contested = {k2}
  Connections = {c1, c2, c3}
  None = none
  MaxPresses = 2
  MaxFaults = 3
INVARIANTS
  CaptureIsExact
  PressesAreCurrent
PROPERTIES
  CaptureSettles
