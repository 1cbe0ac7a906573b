CONSTANTS
    c1 = c1
    c2 = c2
    r0 = r0
    r1 = r1
    t1 = t1
    Requests <- MCRequests
    Client = {c1, c2}
    Home <- MCHome
    Hash <- MCHash
    Unset = Unset
    DefaultRetention = r0
    MaxCalls = 4
    TopicName = {t1}
    NodeID = {1, 2}
    Address = {a1}
    Retention = {r0, r1}
    ReplicaSet <- MCReplicaSet
    ReplicationFactor = {2}
    Absent = Absent
    NoNode = NoNode
    MaxPartitions = 3
    MaxShardID = 5
    MaxEpoch = 1
SPECIFICATION Spec
CHECK_DEADLOCK FALSE
INVARIANTS
    FSMTypeOK
    PartitionsMatchTopic
    ShardIDsUnique
    ReplicasComplete
    CreateOKOnce
    SettledRetention
    DescriptionComplete
PROPERTIES
    ShardIDNeverReused
