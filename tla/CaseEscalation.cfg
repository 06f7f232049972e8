SPECIFICATION Spec
CONSTANTS
    Slots = {h1, h2}
    Top = 3
    Silent = {2}
    Found = {"somebody"}
    MaxActs = 3
    MaxFaults = 1
SYMMETRY Interchangeable
INVARIANTS
    RemindedOnceWhileStamped RungsClimbed QuietAfterReply
    StampsFollowNote NeverOvercounted EscalationReaches
CHECK_DEADLOCK FALSE
