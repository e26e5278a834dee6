SPECIFICATION ApplicationSpec
CONSTANTS
  p1 = p1
  p2 = p2
  Processes = {p1, p2}
  Burst = 1
  MaxPresses = 2
  MaxQueue = 2
  MaxRejected = 1
  MaxCrashes = 1
  Spellings <- MCSpellings
  Files <- MCFiles
  Texts <- MCTexts
  Pressed <- MCPressed
  Chords <- MCChords
  Instances = {"i1", "i2"}
  Configs = {"config", "link", "other"}
  Target <- MCTarget
  MaxSockets = 2
INVARIANTS
  SessionIsOne
  ConfigRunsAsWritten
  BackendFitsDesktop
PROPERTIES
  EndsOnlyAsAsked
  SessionServes
  ChecksHoldWhenUsed
