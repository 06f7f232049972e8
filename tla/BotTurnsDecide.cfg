SPECIFICATION FairSpec
CONSTANTS
    ChatAgent = FALSE
    Modes = {"auto", "off"}
    Acknowledges = TRUE
    MaxChunks = 1
    MaxMessages = 3
    MaxCopies = 2
    MaxActs = 2
    MaxFaults = 0
INVARIANTS SleeperRegistered OwedIsTaken
PROPERTIES ScheduledOnce KeepsPromise
CHECK_DEADLOCK FALSE
