SPECIFICATION Spec
CONSTANTS
  Adapters = {"x11", "windows", "macos", "sway", "hyprland", "kde"}
  Room = 3
  Meddlings = 1
  Identities = 3
  Readers = {"x11", "sway", "hyprland", "windows", "macos", "gnome", "kde"}
  Desks <- SmallDesks
  Later <- LaterDesks
  Changes = 1
INVARIANTS
  MovesAreSound
  UndisturbedMovesArrive
  ReadingsAreTrue
PROPERTIES
  MovesAreAnswered
CHECK_DEADLOCK FALSE
