SPECIFICATION Spec
CONSTANTS
    Slots = {h1, h2}
    Top = 3
    Silent = {2}
    Found = {"nobody", "somebody"}
    MaxActs = 3
    MaxFaults = 0
SYMMETRY Interchangeable
INVARIANT
 StampMeansSent
CHECK_DEADLOCK FALSE
