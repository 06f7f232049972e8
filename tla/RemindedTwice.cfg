SPECIFICATION Spec
CONSTANTS
    Slots = {h1, h2}
    Top = 3
    Silent = {2}
    Found = {"somebody"}
    MaxActs = 3
    MaxFaults = 0
SYMMETRY Interchangeable
INVARIANT
 RemindedOnce
CHECK_DEADLOCK FALSE
