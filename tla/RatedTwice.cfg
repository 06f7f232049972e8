SPECIFICATION Spec
CONSTANTS
    e1 = e1
    r1 = r1
    r2 = r2
    Replies = {r1, r2}
    Resolutions = {e1}
    WarnAfter = 1
    Graces = {1}
    ConfirmAfter = 1
    AssignedIdle = 1
    SurveyEnabled = TRUE
    InactivityEnabled = TRUE
    MaxAge = 3
    MaxLag = 1
    MaxActs = 3
    MaxFaults = 1
    HandlersPrompt = TRUE
SYMMETRY Interchangeable
INVARIANTS RatedOnce
