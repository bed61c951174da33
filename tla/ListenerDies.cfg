SPECIFICATION Spec
CONSTANTS
  Client = {c1, c2}
  None = None
  MaxMessages = 1
  RedisMayFail = FALSE
\* The application stops.
CHECK_DEADLOCK FALSE
SYMMETRY Interchangeable
INVARIANT
  ListenerRuns
