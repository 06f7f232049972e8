SPECIFICATION Spec
CONSTANTS
  Convs = {c1, c2}
  None = None
  Bogus = Bogus
  Handlers = {h1}
  MaxTurns = 2
  MaxReplies = 1
  MaxFaults = 0
  QueueMax = 1
INVARIANTS
  StreamAlwaysFollows
CHECK_DEADLOCK FALSE
