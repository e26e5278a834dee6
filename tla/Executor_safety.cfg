\* Two windows with one place in the history; one window on five desktops, up to
\* MaxTurns actions after each other, each repeated up to MaxWalk - 1 times.
SPECIFICATION ExecutorSpec
CONSTANTS
  w1 = w1
  w2 = w2
  far = far
  nudged = nudged
  snapped = snapped
  other = other
  None = None
  Windows = {w1, w2}
  UserFrames <- TwoFrames
  AppFrames <- TwoTargets
  Near <- NearFrames
  Capacity = 1
  MaxSequence = 3
  Layouts <- MCLayouts
  UserRects <- MCUserRects
  CustomZones <- MCCustomZones
  Tolerance = 2
  MaxWalk = 5
  MaxTurns = 3
SYMMETRY WindowSymmetry
INVARIANTS
  RestorePointsAreSound
  WayBack
  PlacementIsSound
  RepeatsGoOn
PROPERTIES
  ManualMoveWins
  ZonesStayInRow
CHECK_DEADLOCK FALSE
