SPECIFICATION Spec
CONSTANTS
    ChatAgent = TRUE
    Modes = {"auto"}
    Acknowledges = TRUE
    MaxChunks = 1
    MaxMessages = 2
    MaxCopies = 1
    MaxActs = 0
    MaxFaults = 0
INVARIANTS OwedIsTaken
CHECK_DEADLOCK FALSE
