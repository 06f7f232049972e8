SPECIFICATION Spec
CONSTANTS
    e1 = e1
    r1 = r1
    Replies = {r1}
    Resolutions = {e1}
    WarnAfter = 1
    Graces = {1}
    ConfirmAfter = 1
    AssignedIdle = 0
    SurveyEnabled = TRUE
    InactivityEnabled = TRUE
    MaxAge = 3
    MaxLag = 1
    MaxActs = 2
    MaxFaults = 0
    HandlersPrompt = TRUE
INVARIANTS PromisedAgentKept
