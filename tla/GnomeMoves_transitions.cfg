SPECIFICATION FairSpec
CONSTANTS
  a1 = a1
  a2 = a2
  w1 = w1
  f1 = f1
  f2 = f2
  c1 = c1
  c2 = c2
  closed = closed
  none = none
  Apps = {a1, a2}
  Windows = {w1}
  Frames = {f1, f2}
  Targets = {f1}
  Closed = closed
  Connections = {c1, c2}
  None = none
  MaxFaults = 2
INVARIANTS
  TransitionsAreOwned
PROPERTIES
  AnswersAreTrue
  EveryMoveEnds
CHECK_DEADLOCK FALSE
