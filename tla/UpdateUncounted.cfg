SPECIFICATION Spec
CONSTANTS
    c1 = c1
    Conversations = {c1}
    Old = {c1}
    Slots = {h1}
    Response = 0
    Resolution = 2
    Window = 2
    Tier2 = 1
    Update = 2
    MaxAge = 3
    AckCounts = TRUE
    MaxActs = 4
    MaxFaults = 0
PROPERTY UpdateCounts
