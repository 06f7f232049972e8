SPECIFICATION FairSpec
CONSTANTS
    Loopers = {w1, w2, w3}
    Sweepers = {s1}
    Insistent = {w3}
    Evicts = TRUE
    MaxFaults = 1

PROPERTY SweepsFinish
CHECK_DEADLOCK FALSE
