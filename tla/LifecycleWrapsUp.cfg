SPECIFICATION FairSpec
CONSTANTS
    e1 = e1
    r1 = r1
    Replies = {r1}
    Resolutions = {e1}
    WarnAfter = 1
    Graces = {1}
    ConfirmAfter = 1
    AssignedIdle = 1
    SurveyEnabled = TRUE
    InactivityEnabled = TRUE
    MaxAge = 3
    MaxLag = 1
    MaxActs = 1
    MaxFaults = 1
    HandlersPrompt = FALSE
PROPERTIES WrapsUp
