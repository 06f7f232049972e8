SPECIFICATION FairSpec
CONSTANTS
    MaxActs = 2
    MaxFaults = 0
PROPERTY LeaverGoesOffline
