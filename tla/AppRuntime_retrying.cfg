SPECIFICATION FairSession
CONSTANTS
  c1 = c1
  none = none
  h0 = h0
  h1 = h1
  absent = absent
  Configs <- OneConfig
  NoConfig = none
  HotkeySets = {h0, h1}
  HotkeysOf <- OneConfigHotkeys
  Reasons = {absent}
  Debounce = 1
  RetryInterval = 2
PROPERTIES
  RetryingEnds
