SPECIFICATION Spec
CONSTANTS
    ID = {1, 2, 3, 4, 5}
    MaxCount = 8
    MaxHash = 5
    MaxRecords = 3
    Group = 4
    GroupBits = 2
    Width = 6
    MaxBatchCells = 40
    NoKey = NoKey
INVARIANTS RangeAssignFair RebalanceFair ReplicasSpread RecordsSurvive TornTailDropped
