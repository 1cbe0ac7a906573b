SPECIFICATION FairSpec
CONSTANTS
    Part = {p1, p2}
    Reset = "earliest"
    MaxOffset = 1
    Setting <- MCSetting
INVARIANTS
    
    AssignedIsPolled
 
