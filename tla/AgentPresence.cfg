SPECIFICATION FairSpec
CONSTANTS
    MaxActs = 2
    MaxFaults = 1
INVARIANTS AlertsMatch AlertsEarned
PROPERTIES LogCatchesUp WrapUpEnds
