SPECIFICATION SurfacesSpec
CONSTANTS
  c1 = c1
  c2 = c2
  none = none
  h0 = h0
  h1 = h1
  absent = absent
  Configs <- TwoConfigs
  NoConfig = none
  HotkeySets = {h0, h1}
  HotkeysOf <- TwoConfigHotkeys
  Reasons = {absent}
  Debounce = 1
  RetryInterval = 1
  Grace = 2
INVARIANTS
  AppIsConsistent
  SurfacesAreCurrent
  OutageIsNotified
PROPERTIES
  ResolutionIsTrue
