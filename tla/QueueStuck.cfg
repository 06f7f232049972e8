SPECIFICATION FairSpec
CONSTANTS
    Conversations = {c1, c2}
    Old = {c1}
    Agents = {1, 2}
    Members = {2}
    Rank <- MCRank
    Requests = {h1}
    Supervisors = {v1}
    Cap = 0
    FairShare = TRUE
    MaxActs = 0
    MaxFaults = 0
PROPERTY QueueDrains
