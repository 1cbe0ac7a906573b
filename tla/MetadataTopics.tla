--------------------------- MODULE MetadataTopics ---------------------------
(***************************************************************************)
(* The topic half of the metadata state machine                            *)
(* (internal/metadata/metadata.go): topics, partitions, nodes and the      *)
(* shard-ID counter.  dragonboat applies one committed command at a time,  *)
(* on every replica in the same order, so each action below is one call of *)
(* applyCommand.  A Go map is a total function here, with Absent for a     *)
(* missing key.                                                            *)
(***************************************************************************)
EXTENDS Integers

CONSTANTS
    TopicName,      \* names a client may use
    NodeID,         \* broker node IDs
    Address,        \* data API addresses
    Retention,      \* retention settings (retention_ms, retention_bytes)
    ReplicaSet,     \* replica placements a coordinator may propose
    ReplicationFactor, \* replication factors a coordinator may propose
    Absent,         \* "no entry for this key"
    NoNode,         \* the zero LeaderNodeID of a partition without a leader
    MaxPartitions,  \* bound: partitions per topic
    MaxShardID,     \* bound: shard IDs handed out
    MaxEpoch        \* bound: leader epochs (Raft terms) proposed

PartitionID == 0 .. MaxPartitions - 1
PartitionKey == TopicName \X PartitionID

(* TopicMeta and PartitionMeta of types.go; CreatedAtMs is dropped.        *)
TopicMeta == [PartitionCount : 1 .. MaxPartitions,
              ReplicationFactor : ReplicationFactor,
              Retention : Retention]
PartitionMeta == [ShardID : Nat \ {0},
                  ReplicaNodeIDs : SUBSET NodeID,
                  LeaderNodeID : NodeID \cup {NoNode},
                  LeaderEpoch : Nat]

ASSUME MetadataAssumption ==
    /\ MaxPartitions \in Nat \ {0}
    /\ MaxShardID \in Nat
    /\ MaxEpoch \in Nat
    /\ ReplicaSet \subseteq SUBSET NodeID
    /\ ReplicationFactor \subseteq Nat \ {0}
    /\ Absent \notin TopicMeta
    /\ Absent \notin PartitionMeta

VARIABLES
    topics,         \* state.Topics
    partitions,     \* state.Partitions
    nodes,          \* state.Nodes
    nextShardID,    \* state.NextShardID
    issued          \* history: every shard ID ever given to a partition

fsmVars == <<topics, partitions, nodes, nextShardID, issued>>

(* A fresh PartitionMeta: leader and epoch keep their zero values.         *)
NewPartitionUnset(shard, replicas) ==
    [ShardID |-> shard, ReplicaNodeIDs |-> replicas,
     LeaderNodeID |-> NoNode, LeaderEpoch |-> -1]
NewPartition(shard, replicas) ==
    [ShardID |-> shard, ReplicaNodeIDs |-> replicas,
     LeaderNodeID |-> NoNode, LeaderEpoch |-> 0]

(* The i-th shard ID a command allocates.                                  *)
ShardForAll(i) == nextShardID
Shard(i) == nextShardID + i

(* The partitions that applyDeleteTopic removes.                           *)
OwnedButLast(k, t) == k[1] = t /\ k[2] < topics[t].PartitionCount - 1
Owned(k, t) == k[1] = t /\ k[2] < topics[t].PartitionCount

(* The leader proposals that applyAssignPartitionLeader turns down.        *)
EpochUnchecked(k, epoch) == epoch <= 0
StaleEpoch(k, epoch) == epoch <= partitions[k].LeaderEpoch

-----------------------------------------------------------------------------
FSMInit ==
    /\ topics = [t \in TopicName |-> Absent]
    /\ partitions = [k \in PartitionKey |-> Absent]
    /\ nodes = [n \in NodeID |-> Absent]
    /\ nextShardID = 1
    /\ issued = {}

(* sm.Result.Value of the commands that can fail; a command with any value *)
(* but "OK" changes nothing.                                               *)
CreateTopicResult(t, count, rf, replicas) ==
    IF topics[t] # Absent THEN "AlreadyExists"
    ELSE IF count <= 0 \/ rf <= 0 \/ DOMAIN replicas # 0 .. count - 1
    THEN "InvalidArg" ELSE "OK"
AlterTopicPartCountResult(t, newCount) ==
    IF topics[t] = Absent THEN "NotFound"
    ELSE IF newCount <= topics[t].PartitionCount THEN "InvalidArg" ELSE "OK"
AssignPartitionLeaderResult(k, epoch) ==
    IF partitions[k] = Absent THEN "NotFound"
    ELSE IF StaleEpoch(k, epoch) THEN "InvalidArg" ELSE "OK"

(* replicas[i] is ReplicaNodeIDs[i] of the command.                        *)
ApplyCreateTopic(t, count, rf, ret, replicas) ==
    IF CreateTopicResult(t, count, rf, replicas) # "OK" THEN UNCHANGED fsmVars
    ELSE /\ nextShardID + count <= MaxShardID + 1
         /\ topics' = [topics EXCEPT ![t] =
                [PartitionCount |-> count, ReplicationFactor |-> rf,
                 Retention |-> ret]]
         /\ partitions' = [k \in PartitionKey |->
                IF k[1] = t /\ k[2] < count
                THEN NewPartition(Shard(k[2]), replicas[k[2]])
                ELSE partitions[k]]
         /\ nextShardID' = nextShardID + count
         /\ issued' = issued \cup (nextShardID .. nextShardID + count - 1)
         /\ UNCHANGED nodes

(* Deleting an absent topic is a successful no-op.                         *)
DeleteGivesBackShards(t) ==
    IF topics[t] = Absent THEN UNCHANGED fsmVars
    ELSE /\ partitions' = [k \in PartitionKey |->
                IF Owned(k, t) THEN Absent ELSE partitions[k]]
         /\ topics' = [topics EXCEPT ![t] = Absent]
         /\ nextShardID' = nextShardID - topics[t].PartitionCount
         /\ UNCHANGED <<nodes, issued>>
ApplyDeleteTopic(t) ==
    IF topics[t] = Absent THEN UNCHANGED fsmVars
    ELSE /\ partitions' = [k \in PartitionKey |->
                IF Owned(k, t) THEN Absent ELSE partitions[k]]
         /\ topics' = [topics EXCEPT ![t] = Absent]
         /\ UNCHANGED <<nodes, nextShardID, issued>>

(* replicas may be shorter than the number of partitions added: the FSM    *)
(* then stores a nil replica list.                                         *)
ApplyAlterTopicPartCount(t, newCount, replicas) ==
    IF AlterTopicPartCountResult(t, newCount) # "OK" THEN UNCHANGED fsmVars
    ELSE LET old == topics[t].PartitionCount
             add == newCount - old
         IN /\ nextShardID + add <= MaxShardID + 1
            /\ partitions' = [k \in PartitionKey |->
                   IF k[1] = t /\ k[2] \in old .. newCount - 1
                   THEN NewPartition(Shard(k[2] - old),
                            IF k[2] - old \in DOMAIN replicas
                            THEN replicas[k[2] - old] ELSE {})
                   ELSE partitions[k]]
            /\ nextShardID' = nextShardID + add
            /\ issued' = issued \cup (nextShardID .. nextShardID + add - 1)
            /\ topics' = [topics EXCEPT ![t].PartitionCount = newCount]
            /\ UNCHANGED nodes

ApplyAlterTopicRetention(t, ret) ==
    IF topics[t] = Absent THEN UNCHANGED fsmVars
    ELSE /\ topics' = [topics EXCEPT ![t].Retention = ret]
         /\ UNCHANGED <<partitions, nodes, nextShardID, issued>>

ApplyRegisterNode(n, addr) ==
    /\ nodes' = [nodes EXCEPT ![n] = addr]
    /\ UNCHANGED <<topics, partitions, nextShardID, issued>>

ApplyAssignPartitionLeader(k, leader, epoch) ==
    IF AssignPartitionLeaderResult(k, epoch) # "OK" THEN UNCHANGED fsmVars
    ELSE /\ partitions' = [partitions EXCEPT ![k].LeaderNodeID = leader,
                                             ![k].LeaderEpoch = epoch]
         /\ UNCHANGED <<topics, nodes, nextShardID, issued>>

-----------------------------------------------------------------------------
(* Any command a coordinator may propose, in any order: retries, stale     *)
(* proposals and races between nodes are all sequences of these.           *)
ReplicaLists == UNION {[0 .. c - 1 -> ReplicaSet] : c \in 0 .. MaxPartitions}

CreateTopic ==
    \E t \in TopicName, rf \in ReplicationFactor, ret \in Retention,
       count \in 1 .. MaxPartitions, replicas \in ReplicaLists :
        ApplyCreateTopic(t, count, rf, ret, replicas)
DeleteTopic == \E t \in TopicName : ApplyDeleteTopic(t)
AlterTopicPartCount ==
    \E t \in TopicName, newCount \in 1 .. MaxPartitions, replicas \in ReplicaLists :
        ApplyAlterTopicPartCount(t, newCount, replicas)
AlterTopicRetention ==
    \E t \in TopicName, ret \in Retention : ApplyAlterTopicRetention(t, ret)
RegisterNode == \E n \in NodeID, addr \in Address : ApplyRegisterNode(n, addr)
AssignPartitionLeader ==
    \E k \in PartitionKey, leader \in NodeID, epoch \in 1 .. MaxEpoch :
        ApplyAssignPartitionLeader(k, leader, epoch)

FSMNext ==
    \/ CreateTopic
    \/ DeleteTopic
    \/ AlterTopicPartCount
    \/ AlterTopicRetention
    \/ RegisterNode
    \/ AssignPartitionLeader

FSMSpec == FSMInit /\ [][FSMNext]_fsmVars

-----------------------------------------------------------------------------
(* Type invariant of MetadataState (types.go:15-22).                       *)
FSMTypeOK ==
    /\ topics \in [TopicName -> TopicMeta \cup {Absent}]
    /\ partitions \in [PartitionKey -> PartitionMeta \cup {Absent}]
    /\ nodes \in [NodeID -> Address \cup {Absent}]
    /\ nextShardID \in Nat \ {0}
    /\ issued \in SUBSET Nat

(* The partitions stored for a topic are exactly 0 .. PartitionCount-1 and *)
(* a deleted topic leaves none behind, whatever order of create, delete    *)
(* and grow commands reaches applyCreateTopic, applyDeleteTopic and        *)
(* applyAlterTopicPartCount.                                               *)
PartitionsMatchTopic ==
    \A k \in PartitionKey :
        partitions[k] # Absent <=>
            /\ topics[k[1]] # Absent
            /\ k[2] < topics[k[1]].PartitionCount

(* No two partitions share a Raft shard (a shared shard would interleave   *)
(* the logs of two partitions); ShardID assignment in applyCreateTopic and *)
(* applyAlterTopicPartCount.                                               *)
ShardIDsUnique ==
    \A k, l \in PartitionKey :
        (/\ partitions[k] # Absent
         /\ partitions[l] # Absent
         /\ partitions[k].ShardID = partitions[l].ShardID) => k = l

(* A shard ID given to a new partition was never given to any partition    *)
(* before, deleted ones included: the on-disk directory shard-<id> and the *)
(* Raft log of a deleted partition are never inherited by a new one.       *)
ShardIDNeverReused ==
    [][\A k \in PartitionKey :
          (/\ partitions'[k] # Absent
           /\ \/ partitions[k] = Absent
              \/ partitions[k].ShardID # partitions'[k].ShardID)
          => partitions'[k].ShardID \notin issued]_fsmVars

(* While a partition keeps its shard its leader epoch never goes back, and *)
(* its leader changes only with a higher epoch: a delayed or duplicated    *)
(* AssignPartitionLeader from a node with an old view cannot undo a newer  *)
(* one (applyAssignPartitionLeader).                                       *)
LeaderEpochMonotone ==
    [][\A k \in PartitionKey :
          (/\ partitions[k] # Absent
           /\ partitions'[k] # Absent
           /\ partitions[k].ShardID = partitions'[k].ShardID)
          => \/ partitions'[k].LeaderEpoch > partitions[k].LeaderEpoch
             \/ /\ partitions'[k].LeaderEpoch = partitions[k].LeaderEpoch
                /\ partitions'[k].LeaderNodeID = partitions[k].LeaderNodeID]_fsmVars

=============================================================================
