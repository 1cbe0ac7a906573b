SPECIFICATION FairSpec
CONSTANTS
    Member = {1}
    Node = {n1, n2}
    MaxPartitions = 1
    InitialCount = 1
    Offset = {}
    MaxGeneration = 3
    MaxInFlight = 5
    MaxFailovers = 1
    MaxLost = 1
    MaxTopicChanges = 1
    Budget <- MCBudget
PROPERTY ExpiredMemberEvicted
\* Every consumer may close: a group may come to rest.
CHECK_DEADLOCK FALSE
