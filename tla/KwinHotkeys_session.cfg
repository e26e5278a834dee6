SPECIFICATION FairSpec
CONSTANTS
  a1 = a1
  a2 = a2
  k1 = k1
  k2 = k2
  c1 = c1
  c2 = c2
  c3 = c3
  n1 = n1
  n2 = n2
  none = none
  Connections = {c1, c2, c3}
  ScriptNames = {n1, n2}
  None = none
  Apps = {a1, a2}
  Keys = {k1, k2}
  Sets <- NestedSets
  Contested = {k1}
  MaxFaults = 2
INVARIANTS
  CaptureIsExact
  NoSilentLossUnrefused
PROPERTIES
  AnswersAreTrue
  CaptureSettles
