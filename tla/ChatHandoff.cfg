SPECIFICATION FairSpec
CONSTANTS
  Convs = {c1, c2}
  None = None
  Bogus = Bogus
  Handlers = {h1, h2}
  MaxTurns = 2
  MaxReplies = 1
  MaxFaults = 1
  QueueMax = 1
INVARIANTS
  PausedHasAnOwner
  HumanOwnsTheTurn
  StreamFollows
PROPERTIES
  HandoffEnds
CHECK_DEADLOCK FALSE
