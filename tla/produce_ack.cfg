SPECIFICATION FairSpec
CONSTANTS
    Node = {n1, n2}
    Batch = {b1, b2}
    NoNode = NoNode
    Absent = Absent
    MaxRetries = 1
    MaxSends = 2
    MaxFaults = 2
INVARIANTS
    AckedAtOffset
    CalmSendSucceeds
PROPERTY SendReturns
\* The producer may stop sending.
CHECK_DEADLOCK FALSE
