SPECIFICATION Spec
CONSTANTS
    c1 = c1
    c2 = c2
    Conversations = {c1, c2}
    Old = {c1}
    Slots = {h1, h2}
    Response = 0
    Resolution = 2
    Window = 2
    Tier2 = 1
    Update = 2
    MaxAge = 3
    AckCounts = TRUE
    MaxActs = 2
    MaxFaults = 0
INVARIANT MarkedOnce
