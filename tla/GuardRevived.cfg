SPECIFICATION Spec
CONSTANTS
    Slots = {h1, h2}
    Top = 3
    Silent = {2}
    Found = {"somebody"}
    MaxActs = 4
    MaxFaults = 0
SYMMETRY Interchangeable
INVARIANT
 ReescalationReaches
CHECK_DEADLOCK FALSE
