\* Two clients; the runner may be slower than both timeouts, but goes on.
CONSTANTS
  c1 = c1
  c2 = c2
  Clients = {c1, c2}
  ActionTimeout = 2
  ClientTimeout = 3
  MaxNow = 5
  Quit = Quit
SPECIFICATION FairDispatchSpec
INVARIANTS
  AnswersAreTrue
  AnsweredInTime
PROPERTIES
  QuitEnds
CHECK_DEADLOCK FALSE
