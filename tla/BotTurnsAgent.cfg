SPECIFICATION Spec
CONSTANTS
    ChatAgent = TRUE
    Modes = {"auto", "suggest"}
    Acknowledges = TRUE
    MaxChunks = 2
    MaxMessages = 3
    MaxCopies = 1
    MaxActs = 1
    MaxFaults = 1
INVARIANTS OwedIsTakenOrFollowed
CHECK_DEADLOCK FALSE
