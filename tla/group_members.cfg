SPECIFICATION Spec
CONSTANTS
    Member = {1, 2}
    Node = {n1}
    MaxPartitions = 2
    InitialCount = 2
    Offset = {0}
    MaxGeneration = 2
    MaxInFlight = 2
    MaxFailovers = 0
    MaxLost = 1
    MaxTopicChanges = 0
    Budget <- MCBudget
INVARIANTS SameGenerationDisjoint CurrentGenerationIsCurrent CommitsOfAGenerationDisjoint
\* Every consumer may close: a group may come to rest.
CHECK_DEADLOCK FALSE
