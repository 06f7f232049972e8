SPECIFICATION Spec
CONSTANTS
    Conversations = {c1, c2}
    Old = {c1}
    Agents = {1, 2}
    Members = {1, 2}
    Rank <- MCRank
    Requests = {h1}
    Supervisors = {v1}
    Cap = 1
    FairShare = TRUE
    MaxActs = 2
    MaxFaults = 0
PROPERTY SweepTakesNothing
