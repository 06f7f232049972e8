SPECIFICATION Spec
CONSTANTS
  Convs = {c1, c2}
  None = None
  Bogus = Bogus
  Handlers = {h1}
  MaxTurns = 3
  MaxReplies = 0
  MaxFaults = 0
  QueueMax = 2
PROPERTIES
  EscalatesAsked
CHECK_DEADLOCK FALSE
