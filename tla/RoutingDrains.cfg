SPECIFICATION FairSpec
CONSTANTS
    Conversations = {c1, c2}
    Old = {c1}
    Agents = {1, 2}
    Members = {1, 2}
    Rank <- MCRank
    Requests = {h1}
    Supervisors = {v1}
    Cap = 0
    FairShare = TRUE
    MaxActs = 1
    MaxFaults = 1
PROPERTIES ShareKept QueueDrains
