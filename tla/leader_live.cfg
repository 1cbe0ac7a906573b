\* One creation of the topic.
SPECIFICATION FairSpec
CONSTANTS
    n1 = n1
    n2 = n2
    TopicName = {t1}
    NodeID = {n1, n2}
    Address = {a1}
    Retention = {r1}
    ReplicaSet <- MCReplicaSet
    ReplicationFactor = {2}
    Absent = Absent
    NoNode = NoNode
    MaxPartitions = 1
    MaxShardID = 1
    MaxEpoch = 2
    MaxTimeouts = 1
    MaxRestarts = 1
INVARIANTS RecordedLeaderWasElected RememberedIsRecorded
PROPERTIES LeaderConverges LeaderEpochMonotone
