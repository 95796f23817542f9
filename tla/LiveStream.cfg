SPECIFICATION FairSpec
CONSTANTS
  a = a
  b = b
  Workspaces = {a, b}
  EventCap = 3
  BufferSize = 2
  BatchSize = 1
  StaleCap = 1
INVARIANTS ShownOnce NoGap
PROPERTIES EventsArrive
CHECK_DEADLOCK FALSE
