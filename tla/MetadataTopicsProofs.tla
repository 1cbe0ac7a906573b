------------------------ MODULE MetadataTopicsProofs ------------------------
(***************************************************************************)
(* Proofs that every sequence of metadata commands keeps MetadataState     *)
(* well formed, for any number of topics, partitions and nodes.            *)
(***************************************************************************)
EXTENDS MetadataTopics, TLAPS

(* The counter is ahead of every shard ID handed out, and every shard ID   *)
(* in use was handed out: what makes uniqueness inductive.                 *)
ShardCounterAhead ==
    /\ \A s \in issued : s < nextShardID
    /\ \A k \in PartitionKey :
          partitions[k] # Absent => partitions[k].ShardID \in issued

FSMInv ==
    /\ FSMTypeOK
    /\ PartitionsMatchTopic
    /\ ShardIDsUnique
    /\ ShardCounterAhead

(* A partition key is a topic and a number below MaxPartitions.            *)
LEMMA KeyFacts ==
    \A k \in PartitionKey : /\ k = <<k[1], k[2]>>
                            /\ k[1] \in TopicName
                            /\ k[2] \in Nat
                            /\ k[2] < MaxPartitions
  BY MetadataAssumption DEF PartitionKey, PartitionID

(* The replica lists a command carries hold sets of node IDs.              *)
LEMMA ReplicaListFacts ==
    ASSUME NEW replicas \in ReplicaLists, NEW i \in DOMAIN replicas
    PROVE  replicas[i] \in SUBSET NodeID
  BY MetadataAssumption DEF ReplicaLists

(* A PartitionMeta built by NewPartition is well formed.                   *)
LEMMA NewPartitionType ==
    ASSUME NEW s \in Nat \ {0}, NEW r \in SUBSET NodeID
    PROVE  /\ NewPartition(s, r) \in PartitionMeta
           /\ NewPartition(s, r) # Absent
           /\ NewPartition(s, r).ShardID = s
  BY MetadataAssumption DEF NewPartition, PartitionMeta

(* The initial state satisfies the invariant.                              *)
LEMMA FSMInitInv == FSMInit => FSMInv
<1> SUFFICES ASSUME FSMInit PROVE FSMInv OBVIOUS
<1>1. FSMTypeOK BY DEF FSMInit, FSMTypeOK
<1>2. \A k \in PartitionKey : partitions[k] = Absent /\ topics[k[1]] = Absent
  BY KeyFacts DEF FSMInit
<1>3. PartitionsMatchTopic /\ ShardIDsUnique /\ ShardCounterAhead
  BY <1>2 DEF FSMInit, PartitionsMatchTopic, ShardIDsUnique, ShardCounterAhead
<1> QED BY <1>1, <1>3 DEF FSMInv

(* What one step may do to the partitions: leave each alone, remove it, or *)
(* create it under a shard ID never used before, or give it a newer leader *)
(* epoch.                                                                  *)
PartitionStep ==
    \A k \in PartitionKey :
        \/ partitions'[k] = partitions[k]
        \/ partitions'[k] = Absent
        \/ partitions[k] = Absent /\ partitions'[k].ShardID \notin issued
        \/ /\ partitions[k] # Absent
           /\ partitions'[k].ShardID = partitions[k].ShardID
           /\ partitions'[k].LeaderEpoch > partitions[k].LeaderEpoch

(* The loop shared by applyCreateTopic and applyAlterTopicPartCount: adding *)
(* partitions lo .. hi-1 of topic t under consecutive fresh shard IDs       *)
(* keeps shard IDs unique and the counter ahead.                            *)
LEMMA AddPartitions ==
    ASSUME FSMInv, NEW t \in TopicName, NEW lo \in Nat, NEW hi \in Nat, lo < hi,
           NEW rs \in [PartitionKey -> SUBSET NodeID],
           \A k \in PartitionKey :
               (k[1] = t /\ k[2] \in lo .. hi - 1) => partitions[k] = Absent,
           partitions' = [k \in PartitionKey |->
               IF k[1] = t /\ k[2] \in lo .. hi - 1
               THEN NewPartition(nextShardID + (k[2] - lo), rs[k])
               ELSE partitions[k]],
           nextShardID' = nextShardID + (hi - lo),
           issued' = issued \cup (nextShardID .. nextShardID + (hi - lo) - 1)
    PROVE  /\ partitions' \in [PartitionKey -> PartitionMeta \cup {Absent}]
           /\ nextShardID' \in Nat \ {0}
           /\ issued' \in SUBSET Nat
           /\ \A k \in PartitionKey :
                 (k[1] = t /\ k[2] \in lo .. hi - 1) => partitions'[k] # Absent
           /\ ShardIDsUnique'
           /\ ShardCounterAhead'
           /\ PartitionStep
<1> DEFINE fresh(k) == k[1] = t /\ k[2] \in lo .. hi - 1
<1>t. nextShardID \in Nat \ {0} BY DEF FSMInv, FSMTypeOK
<1>f. \A s \in issued : s \in Nat /\ s < nextShardID
  BY DEF FSMInv, FSMTypeOK, ShardCounterAhead
<1>1. \A k \in PartitionKey :
         fresh(k) => /\ partitions'[k] \in PartitionMeta
                     /\ partitions'[k] # Absent
                     /\ partitions'[k].ShardID = nextShardID + (k[2] - lo)
                     /\ partitions'[k].ShardID >= nextShardID
  <2> SUFFICES ASSUME NEW k \in PartitionKey, fresh(k)
               PROVE  /\ partitions'[k] \in PartitionMeta
                      /\ partitions'[k] # Absent
                      /\ partitions'[k].ShardID = nextShardID + (k[2] - lo)
                      /\ partitions'[k].ShardID >= nextShardID
    OBVIOUS
  <2>1. k[2] - lo \in Nat /\ nextShardID + (k[2] - lo) \in Nat \ {0}
    BY <1>t, KeyFacts
  <2>2. partitions'[k] = NewPartition(nextShardID + (k[2] - lo), rs[k]) OBVIOUS
  <2> QED BY <1>t, <2>1, <2>2, NewPartitionType
<1>2. \A k \in PartitionKey : ~fresh(k) => partitions'[k] = partitions[k]
  OBVIOUS
<1>3. partitions' \in [PartitionKey -> PartitionMeta \cup {Absent}]
  <2>1. \A k \in PartitionKey : partitions'[k] \in PartitionMeta \cup {Absent}
    BY <1>1, <1>2 DEF FSMInv, FSMTypeOK
  <2> QED BY <2>1
<1>4. issued' \in SUBSET Nat
  <2>1. (nextShardID .. nextShardID + (hi - lo) - 1) \subseteq Nat BY <1>t
  <2> QED BY <2>1 DEF FSMInv, FSMTypeOK
<1>5. ShardIDsUnique'
  <2> SUFFICES ASSUME NEW k \in PartitionKey, NEW l \in PartitionKey,
                      partitions'[k] # Absent, partitions'[l] # Absent,
                      partitions'[k].ShardID = partitions'[l].ShardID
               PROVE  k = l
    BY DEF ShardIDsUnique
  <2>0. k[2] \in Nat /\ l[2] \in Nat /\ k = <<k[1], k[2]>> /\ l = <<l[1], l[2]>>
    BY KeyFacts
  <2>o. /\ ~fresh(k) => partitions[k].ShardID \in issued
        /\ ~fresh(l) => partitions[l].ShardID \in issued
    BY <1>2 DEF FSMInv, ShardCounterAhead
  <2>1. CASE fresh(k) /\ fresh(l)
    <3>1. nextShardID + (k[2] - lo) = nextShardID + (l[2] - lo) BY <1>1, <2>1
    <3>2. k[2] = l[2] BY <1>t, <2>0, <3>1
    <3> QED BY <2>0, <2>1, <3>2
  <2>2. CASE fresh(k) /\ ~fresh(l) BY <1>1, <1>2, <1>f, <1>t, <2>o, <2>2
  <2>3. CASE ~fresh(k) /\ fresh(l) BY <1>1, <1>2, <1>f, <1>t, <2>o, <2>3
  <2>4. CASE ~fresh(k) /\ ~fresh(l)
    BY <1>2, <2>4 DEF FSMInv, ShardIDsUnique
  <2> QED BY <2>1, <2>2, <2>3, <2>4
<1>6. ShardCounterAhead'
  <2>1. \A s \in issued' : s < nextShardID' BY <1>f, <1>t
  <2>2. ASSUME NEW k \in PartitionKey, partitions'[k] # Absent
        PROVE  partitions'[k].ShardID \in issued'
    <3>1. CASE fresh(k)
      <4>1. k[2] \in lo .. hi - 1 /\ k[2] \in Nat BY <3>1, KeyFacts
      <4>2. nextShardID + (k[2] - lo) \in nextShardID .. nextShardID + (hi - lo) - 1
        BY <1>t, <4>1
      <4> QED BY <1>1, <3>1, <4>2
    <3>2. CASE ~fresh(k) BY <1>2, <2>2, <3>2 DEF FSMInv, ShardCounterAhead
    <3> QED BY <3>1, <3>2
  <2> QED BY <2>1, <2>2 DEF ShardCounterAhead
<1>7. PartitionStep
  <2> SUFFICES ASSUME NEW k \in PartitionKey, fresh(k)
               PROVE  partitions[k] = Absent /\ partitions'[k].ShardID \notin issued
    BY <1>2 DEF PartitionStep
  <2> QED BY <1>1, <1>f, <1>t
<1> QED BY <1>1, <1>3, <1>4, <1>5, <1>6, <1>7, <1>t

(* applyCreateTopic preserves the invariant.                               *)
LEMMA CreateTopicInv ==
    ASSUME FSMInv, NEW t \in TopicName, NEW rf \in ReplicationFactor,
           NEW ret \in Retention, NEW count \in 1 .. MaxPartitions,
           NEW replicas \in ReplicaLists,
           ApplyCreateTopic(t, count, rf, ret, replicas),
           CreateTopicResult(t, count, rf, replicas) = "OK"
    PROVE  FSMInv' /\ PartitionStep
<1> DEFINE rs == [k \in PartitionKey |->
                     IF k[1] = t /\ k[2] \in 0 .. count - 1
                     THEN replicas[k[2]] ELSE {}]
<1>0. /\ topics[t] = Absent
      /\ DOMAIN replicas = 0 .. count - 1
      /\ topics' = [topics EXCEPT ![t] =
                [PartitionCount |-> count, ReplicationFactor |-> rf,
                 Retention |-> ret]]
      /\ partitions' = [k \in PartitionKey |->
                IF k[1] = t /\ k[2] < count
                THEN NewPartition(nextShardID + k[2], replicas[k[2]])
                ELSE partitions[k]]
      /\ nextShardID' = nextShardID + count
      /\ issued' = issued \cup (nextShardID .. nextShardID + count - 1)
      /\ nodes' = nodes
  BY MetadataAssumption DEF ApplyCreateTopic, CreateTopicResult, Shard
<1>n. count \in Nat /\ 0 < count BY MetadataAssumption
<1>1. rs \in [PartitionKey -> SUBSET NodeID]
  BY <1>0, ReplicaListFacts
<1>2. \A k \in PartitionKey : k[1] = t => partitions[k] = Absent
  BY <1>0 DEF FSMInv, PartitionsMatchTopic
<1>3. partitions' = [k \in PartitionKey |->
          IF k[1] = t /\ k[2] \in 0 .. count - 1
          THEN NewPartition(nextShardID + (k[2] - 0), rs[k])
          ELSE partitions[k]]
  <2>1. \A k \in PartitionKey : /\ k[2] < count <=> k[2] \in 0 .. count - 1
                                /\ nextShardID + k[2] = nextShardID + (k[2] - 0)
    BY <1>n, KeyFacts
  <2> QED BY <1>0, <2>1
<1>4. /\ nextShardID' = nextShardID + (count - 0)
      /\ issued' = issued \cup (nextShardID .. nextShardID + (count - 0) - 1)
  <2>1. count - 0 = count BY <1>n
  <2> QED BY <1>0, <2>1
<1>5. /\ partitions' \in [PartitionKey -> PartitionMeta \cup {Absent}]
      /\ nextShardID' \in Nat \ {0}
      /\ issued' \in SUBSET Nat
      /\ \A k \in PartitionKey :
            (k[1] = t /\ k[2] \in 0 .. count - 1) => partitions'[k] # Absent
      /\ ShardIDsUnique'
      /\ ShardCounterAhead'
      /\ PartitionStep
  <2> HIDE DEF rs
  <2> QED BY <1>n, <1>1, <1>2, <1>3, <1>4, AddPartitions
<1>6. FSMTypeOK'
  <2>1. [PartitionCount |-> count, ReplicationFactor |-> rf,
         Retention |-> ret] \in TopicMeta BY DEF TopicMeta
  <2>2. topics' \in [TopicName -> TopicMeta \cup {Absent}]
    BY <1>0, <2>1 DEF FSMInv, FSMTypeOK
  <2> QED BY <1>0, <1>5, <2>2 DEF FSMInv, FSMTypeOK
<1>7. PartitionsMatchTopic'
  <2> SUFFICES ASSUME NEW k \in PartitionKey
               PROVE  (partitions'[k] # Absent) <=>
                         (/\ topics'[k[1]] # Absent
                          /\ k[2] < topics'[k[1]].PartitionCount)
    BY DEF PartitionsMatchTopic
  <2>1. CASE k[1] = t
    <3>1. topics'[t] # Absent /\ topics'[t].PartitionCount = count
      BY <1>0, <1>6, MetadataAssumption DEF FSMInv, FSMTypeOK, TopicMeta
    <3> QED BY <1>n, <1>0, <1>2, <1>5, <2>1, <3>1, KeyFacts
  <2>2. CASE k[1] # t
    <3>1. topics'[k[1]] = topics[k[1]] /\ partitions'[k] = partitions[k]
      BY <1>0, <2>2, KeyFacts DEF FSMInv, FSMTypeOK
    <3> QED BY <3>1 DEF FSMInv, PartitionsMatchTopic
  <2> QED BY <2>1, <2>2
<1> QED BY <1>5, <1>6, <1>7 DEF FSMInv

(* applyAlterTopicPartCount preserves the invariant, also when the command *)
(* carries fewer replica lists than it adds partitions.                    *)
LEMMA AlterTopicPartCountInv ==
    ASSUME FSMInv, NEW t \in TopicName, NEW newCount \in 1 .. MaxPartitions,
           NEW replicas \in ReplicaLists,
           ApplyAlterTopicPartCount(t, newCount, replicas),
           AlterTopicPartCountResult(t, newCount) = "OK"
    PROVE  FSMInv' /\ PartitionStep
<1> DEFINE old == topics[t].PartitionCount
           rs == [k \in PartitionKey |->
                     IF k[2] - old \in DOMAIN replicas
                     THEN replicas[k[2] - old] ELSE {}]
<1>0. /\ topics[t] # Absent
      /\ ~(newCount <= old)
      /\ partitions' = [k \in PartitionKey |->
            IF k[1] = t /\ k[2] \in old .. newCount - 1
            THEN NewPartition(nextShardID + (k[2] - old), rs[k])
            ELSE partitions[k]]
      /\ nextShardID' = nextShardID + (newCount - old)
      /\ issued' = issued \cup (nextShardID .. nextShardID + (newCount - old) - 1)
      /\ topics' = [topics EXCEPT ![t].PartitionCount = newCount]
      /\ nodes' = nodes
  BY DEF ApplyAlterTopicPartCount, AlterTopicPartCountResult, Shard
<1>m. topics[t] \in TopicMeta BY <1>0 DEF FSMInv, FSMTypeOK
<1>n. old \in Nat /\ newCount \in Nat /\ old < newCount
  BY <1>0, <1>m, MetadataAssumption DEF TopicMeta
<1>1. rs \in [PartitionKey -> SUBSET NodeID]
  BY ReplicaListFacts
<1>2. \A k \in PartitionKey :
         (k[1] = t /\ k[2] \in old .. newCount - 1) => partitions[k] = Absent
  BY <1>n, KeyFacts DEF FSMInv, PartitionsMatchTopic
<1>5. /\ partitions' \in [PartitionKey -> PartitionMeta \cup {Absent}]
      /\ nextShardID' \in Nat \ {0}
      /\ issued' \in SUBSET Nat
      /\ \A k \in PartitionKey :
            (k[1] = t /\ k[2] \in old .. newCount - 1) => partitions'[k] # Absent
      /\ ShardIDsUnique'
      /\ ShardCounterAhead'
      /\ PartitionStep
  <2> HIDE DEF rs, old
  <2> QED BY <1>n, <1>0, <1>1, <1>2, AddPartitions
<1>6. FSMTypeOK'
  <2>1. topics' \in [TopicName -> TopicMeta \cup {Absent}]
    BY <1>0, <1>m DEF FSMInv, FSMTypeOK, TopicMeta
  <2> QED BY <1>0, <1>5, <2>1 DEF FSMInv, FSMTypeOK
<1>7. PartitionsMatchTopic'
  <2> SUFFICES ASSUME NEW k \in PartitionKey
               PROVE  (partitions'[k] # Absent) <=>
                         (/\ topics'[k[1]] # Absent
                          /\ k[2] < topics'[k[1]].PartitionCount)
    BY DEF PartitionsMatchTopic
  <2>0. (partitions[k] # Absent) <=>
           (topics[k[1]] # Absent /\ k[2] < topics[k[1]].PartitionCount)
    BY DEF FSMInv, PartitionsMatchTopic
  <2>1. CASE k[1] = t
    <3>1. topics'[t] \in TopicMeta /\ topics'[t].PartitionCount = newCount
      BY <1>0, <1>m DEF FSMInv, FSMTypeOK, TopicMeta
    <3>2. topics'[t] # Absent BY <3>1, MetadataAssumption
    <3>3. k[2] \in Nat BY KeyFacts
    <3>4. CASE k[2] \in old .. newCount - 1
      BY <1>n, <1>5, <2>1, <3>1, <3>2, <3>3, <3>4
    <3>5. CASE k[2] \notin old .. newCount - 1
      <4>1. partitions'[k] = partitions[k] BY <1>0, <3>5
      <4>2. k[2] < newCount <=> k[2] < old BY <1>n, <3>3, <3>5
      <4> QED BY <1>0, <2>0, <2>1, <3>1, <3>2, <4>1, <4>2
    <3> QED BY <3>4, <3>5
  <2>2. CASE k[1] # t
    <3>1. topics'[k[1]] = topics[k[1]] /\ partitions'[k] = partitions[k]
      BY <1>0, <2>2, KeyFacts DEF FSMInv, FSMTypeOK
    <3> QED BY <3>1, <2>0
  <2> QED BY <2>1, <2>2
<1> QED BY <1>5, <1>6, <1>7 DEF FSMInv

(* applyDeleteTopic preserves the invariant.                               *)
LEMMA DeleteTopicInv ==
    ASSUME FSMInv, NEW t \in TopicName, ApplyDeleteTopic(t), topics[t] # Absent
    PROVE  FSMInv' /\ PartitionStep
<1>0. /\ partitions' = [k \in PartitionKey |->
            IF k[1] = t /\ k[2] < topics[t].PartitionCount
            THEN Absent ELSE partitions[k]]
      /\ topics' = [topics EXCEPT ![t] = Absent]
      /\ nodes' = nodes /\ nextShardID' = nextShardID /\ issued' = issued
  BY DEF ApplyDeleteTopic, Owned
<1>1. FSMTypeOK' BY <1>0 DEF FSMInv, FSMTypeOK
<1>2. \A k \in PartitionKey :
         /\ k[1] = t => partitions'[k] = Absent
         /\ k[1] # t => partitions'[k] = partitions[k]
  BY <1>0 DEF FSMInv, PartitionsMatchTopic
<1>3. PartitionsMatchTopic'
  <2> SUFFICES ASSUME NEW k \in PartitionKey
               PROVE  (partitions'[k] # Absent) <=>
                         (/\ topics'[k[1]] # Absent
                          /\ k[2] < topics'[k[1]].PartitionCount)
    BY DEF PartitionsMatchTopic
  <2>1. CASE k[1] = t BY <1>0, <1>2, <2>1 DEF FSMInv, FSMTypeOK
  <2>2. CASE k[1] # t
    <3>1. topics'[k[1]] = topics[k[1]]
      BY <1>0, <2>2, KeyFacts DEF FSMInv, FSMTypeOK
    <3> QED BY <1>2, <2>2, <3>1 DEF FSMInv, PartitionsMatchTopic
  <2> QED BY <2>1, <2>2
<1>4. ShardIDsUnique' BY <1>2 DEF FSMInv, ShardIDsUnique
<1>5. ShardCounterAhead' BY <1>0, <1>2 DEF FSMInv, ShardCounterAhead
<1>6. PartitionStep BY <1>2 DEF PartitionStep
<1> QED BY <1>1, <1>3, <1>4, <1>5, <1>6 DEF FSMInv

(* applyAlterTopicRetention and applyRegisterNode leave partitions alone.  *)
LEMMA AlterTopicRetentionInv ==
    ASSUME FSMInv, NEW t \in TopicName, NEW ret \in Retention,
           ApplyAlterTopicRetention(t, ret), topics[t] # Absent
    PROVE  FSMInv' /\ PartitionStep
<1>0. /\ topics' = [topics EXCEPT ![t].Retention = ret]
      /\ partitions' = partitions /\ nodes' = nodes
      /\ nextShardID' = nextShardID /\ issued' = issued
  BY DEF ApplyAlterTopicRetention
<1>m. topics[t] \in TopicMeta BY DEF FSMInv, FSMTypeOK
<1>1. FSMTypeOK' BY <1>0, <1>m DEF FSMInv, FSMTypeOK, TopicMeta
<1>2. \A u \in TopicName :
         /\ topics'[u] = Absent <=> topics[u] = Absent
         /\ topics'[u].PartitionCount = topics[u].PartitionCount
  <2>1. topics'[t] \in TopicMeta /\ topics'[t].PartitionCount = topics[t].PartitionCount
    BY <1>0, <1>m DEF FSMInv, FSMTypeOK, TopicMeta
  <2>2. topics'[t] # Absent BY <2>1, MetadataAssumption
  <2> QED BY <1>0, <2>1, <2>2 DEF FSMInv, FSMTypeOK
<1>3. PartitionsMatchTopic'
  BY <1>0, <1>2, KeyFacts DEF FSMInv, PartitionsMatchTopic
<1>4. ShardIDsUnique' /\ ShardCounterAhead' /\ PartitionStep
  BY <1>0 DEF FSMInv, ShardIDsUnique, ShardCounterAhead, PartitionStep
<1> QED BY <1>1, <1>3, <1>4 DEF FSMInv

(* applyRegisterNode touches only the node table.                          *)
LEMMA RegisterNodeInv ==
    ASSUME FSMInv, NEW n \in NodeID, NEW addr \in Address,
           ApplyRegisterNode(n, addr)
    PROVE  FSMInv' /\ PartitionStep
<1>1. FSMTypeOK' BY DEF ApplyRegisterNode, FSMInv, FSMTypeOK
<1>2. PartitionsMatchTopic'
  BY DEF ApplyRegisterNode, FSMInv, PartitionsMatchTopic
<1>3. ShardIDsUnique' /\ ShardCounterAhead' /\ PartitionStep
  BY DEF ApplyRegisterNode, FSMInv, ShardIDsUnique, ShardCounterAhead, PartitionStep
<1> QED BY <1>1, <1>2, <1>3 DEF FSMInv

(* applyAssignPartitionLeader changes only the leader fields, and only to  *)
(* a higher epoch.                                                         *)
LEMMA AssignPartitionLeaderInv ==
    ASSUME FSMInv, NEW k \in PartitionKey, NEW leader \in NodeID,
           NEW epoch \in 1 .. MaxEpoch,
           ApplyAssignPartitionLeader(k, leader, epoch),
           AssignPartitionLeaderResult(k, epoch) = "OK"
    PROVE  FSMInv' /\ PartitionStep
<1>0. /\ partitions[k] # Absent
      /\ ~(epoch <= partitions[k].LeaderEpoch)
      /\ partitions' = [partitions EXCEPT ![k].LeaderNodeID = leader,
                                          ![k].LeaderEpoch = epoch]
      /\ topics' = topics /\ nodes' = nodes
      /\ nextShardID' = nextShardID /\ issued' = issued
  BY DEF ApplyAssignPartitionLeader, AssignPartitionLeaderResult, StaleEpoch
<1>m. partitions[k] \in PartitionMeta BY <1>0 DEF FSMInv, FSMTypeOK
<1>e. epoch \in Nat BY MetadataAssumption
<1>1. /\ partitions'[k] \in PartitionMeta
      /\ partitions'[k].ShardID = partitions[k].ShardID
      /\ partitions'[k].LeaderEpoch = epoch
      /\ epoch > partitions[k].LeaderEpoch
  BY <1>0, <1>m, <1>e DEF FSMInv, FSMTypeOK, PartitionMeta
<1>2. partitions'[k] # Absent BY <1>1, MetadataAssumption
<1>3. \A l \in PartitionKey : l # k => partitions'[l] = partitions[l]
  BY <1>0 DEF FSMInv, FSMTypeOK
<1>4. FSMTypeOK'
  <2>1. partitions' \in [PartitionKey -> PartitionMeta \cup {Absent}]
    BY <1>0, <1>m, <1>e DEF FSMInv, FSMTypeOK, PartitionMeta
  <2> QED BY <1>0, <2>1 DEF FSMInv, FSMTypeOK
<1>5. \A l \in PartitionKey :
         /\ partitions'[l] = Absent <=> partitions[l] = Absent
         /\ partitions'[l].ShardID = partitions[l].ShardID
  BY <1>0, <1>1, <1>2, <1>3, Zenon
<1>6. PartitionsMatchTopic' BY <1>0, <1>5, Zenon DEF FSMInv, PartitionsMatchTopic
<1>7. ShardIDsUnique' BY <1>5 DEF FSMInv, ShardIDsUnique
<1>8. ShardCounterAhead'
  <2>1. \A s \in issued' : s < nextShardID'
    BY <1>0 DEF FSMInv, ShardCounterAhead
  <2>2. ASSUME NEW l \in PartitionKey, partitions'[l] # Absent
        PROVE  partitions'[l].ShardID \in issued'
    <3>1. partitions[l].ShardID \in issued
      BY <1>5, <2>2 DEF FSMInv, ShardCounterAhead
    <3>2. issued' = issued BY <1>0
    <3>3. partitions'[l].ShardID = partitions[l].ShardID BY <1>5
    <3> QED BY <3>1, <3>2, <3>3
  <2> QED BY <2>1, <2>2 DEF ShardCounterAhead
<1>9. PartitionStep BY <1>0, <1>1, <1>3, Zenon DEF PartitionStep
<1> QED BY <1>4, <1>6, <1>7, <1>8, <1>9 DEF FSMInv

(* Every step, stuttering included, preserves the invariant and changes    *)
(* partitions only as PartitionStep allows.                                *)
LEMMA FSMNextInv == FSMInv /\ [FSMNext]_fsmVars => FSMInv' /\ PartitionStep
<1> SUFFICES ASSUME FSMInv, [FSMNext]_fsmVars PROVE FSMInv' /\ PartitionStep
  OBVIOUS
<1>u. ASSUME UNCHANGED fsmVars PROVE FSMInv' /\ PartitionStep
  BY <1>u DEF fsmVars, FSMInv, FSMTypeOK, PartitionsMatchTopic,
              ShardIDsUnique, ShardCounterAhead, PartitionStep
<1>1. CASE CreateTopic
  <2> PICK t \in TopicName, rf \in ReplicationFactor, ret \in Retention,
           count \in 1 .. MaxPartitions, replicas \in ReplicaLists :
           ApplyCreateTopic(t, count, rf, ret, replicas)
    BY <1>1 DEF CreateTopic
  <2>1. CASE CreateTopicResult(t, count, rf, replicas) = "OK"
    BY <2>1, CreateTopicInv
  <2>2. CASE CreateTopicResult(t, count, rf, replicas) # "OK"
    BY <1>u, <2>2 DEF ApplyCreateTopic
  <2> QED BY <2>1, <2>2
<1>2. CASE DeleteTopic
  <2> PICK t \in TopicName : ApplyDeleteTopic(t) BY <1>2 DEF DeleteTopic
  <2>1. CASE topics[t] # Absent BY <2>1, DeleteTopicInv
  <2>2. CASE topics[t] = Absent BY <1>u, <2>2 DEF ApplyDeleteTopic
  <2> QED BY <2>1, <2>2
<1>3. CASE AlterTopicPartCount
  <2> PICK t \in TopicName, newCount \in 1 .. MaxPartitions,
           replicas \in ReplicaLists :
           ApplyAlterTopicPartCount(t, newCount, replicas)
    BY <1>3 DEF AlterTopicPartCount
  <2>1. CASE AlterTopicPartCountResult(t, newCount) = "OK"
    BY <2>1, AlterTopicPartCountInv
  <2>2. CASE AlterTopicPartCountResult(t, newCount) # "OK"
    BY <1>u, <2>2 DEF ApplyAlterTopicPartCount
  <2> QED BY <2>1, <2>2
<1>4. CASE AlterTopicRetention
  <2> PICK t \in TopicName, ret \in Retention : ApplyAlterTopicRetention(t, ret)
    BY <1>4 DEF AlterTopicRetention
  <2>1. CASE topics[t] # Absent BY <2>1, AlterTopicRetentionInv
  <2>2. CASE topics[t] = Absent BY <1>u, <2>2 DEF ApplyAlterTopicRetention
  <2> QED BY <2>1, <2>2
<1>5. CASE RegisterNode BY <1>5, RegisterNodeInv DEF RegisterNode
<1>6. CASE AssignPartitionLeader
  <2> PICK k \in PartitionKey, leader \in NodeID, epoch \in 1 .. MaxEpoch :
           ApplyAssignPartitionLeader(k, leader, epoch)
    BY <1>6 DEF AssignPartitionLeader
  <2>1. CASE AssignPartitionLeaderResult(k, epoch) = "OK"
    BY <2>1, AssignPartitionLeaderInv
  <2>2. CASE AssignPartitionLeaderResult(k, epoch) # "OK"
    BY <1>u, <2>2 DEF ApplyAssignPartitionLeader
  <2> QED BY <2>1, <2>2
<1> QED BY <1>u, <1>1, <1>2, <1>3, <1>4, <1>5, <1>6 DEF FSMNext

(* The invariant holds in every reachable state.                           *)
LEMMA FSMInvariant == FSMSpec => []FSMInv
<1>1. FSMInv /\ [FSMNext]_fsmVars => FSMInv' BY FSMNextInv
<1> QED BY FSMInitInv, <1>1, PTL DEF FSMSpec

(* Type correctness of MetadataState under every sequence of commands.     *)
THEOREM FSMTypeCorrect == FSMSpec => []FSMTypeOK
<1>1. FSMInv => FSMTypeOK BY DEF FSMInv
<1> QED BY FSMInvariant, <1>1, PTL

(* The partition table is exactly what the topic table says it is.         *)
THEOREM PartitionsMatchTopicHolds == FSMSpec => []PartitionsMatchTopic
<1>1. FSMInv => PartitionsMatchTopic BY DEF FSMInv
<1> QED BY FSMInvariant, <1>1, PTL

(* No two live partitions share a Raft shard.                              *)
THEOREM ShardIDsUniqueHolds == FSMSpec => []ShardIDsUnique
<1>1. FSMInv => ShardIDsUnique BY DEF FSMInv
<1> QED BY FSMInvariant, <1>1, PTL

(* A shard ID is never given out twice, across deletion and re-creation.   *)
THEOREM ShardIDNeverReusedHolds == FSMSpec => ShardIDNeverReused
<1> DEFINE A == \A k \in PartitionKey :
          (/\ partitions'[k] # Absent
           /\ \/ partitions[k] = Absent
              \/ partitions[k].ShardID # partitions'[k].ShardID)
          => partitions'[k].ShardID \notin issued
<1>1. PartitionStep => A BY DEF PartitionStep
<1>2. FSMInv /\ [FSMNext]_fsmVars => [A]_fsmVars BY <1>1, FSMNextInv
<1> HIDE DEF A
<1>3. FSMSpec => [][A]_fsmVars BY FSMInvariant, <1>2, PTL DEF FSMSpec
<1> USE DEF A
<1> QED BY <1>3 DEF ShardIDNeverReused

(* A partition's leader changes only with a higher epoch.                  *)
THEOREM LeaderEpochMonotoneHolds == FSMSpec => LeaderEpochMonotone
<1> DEFINE A == \A k \in PartitionKey :
          (/\ partitions[k] # Absent
           /\ partitions'[k] # Absent
           /\ partitions[k].ShardID = partitions'[k].ShardID)
          => \/ partitions'[k].LeaderEpoch > partitions[k].LeaderEpoch
             \/ /\ partitions'[k].LeaderEpoch = partitions[k].LeaderEpoch
                /\ partitions'[k].LeaderNodeID = partitions[k].LeaderNodeID
<1>1. PartitionStep => A BY DEF PartitionStep
<1>2. FSMInv /\ [FSMNext]_fsmVars => [A]_fsmVars BY <1>1, FSMNextInv
<1> HIDE DEF A
<1>3. FSMSpec => [][A]_fsmVars BY FSMInvariant, <1>2, PTL DEF FSMSpec
<1> USE DEF A
<1> QED BY <1>3 DEF LeaderEpochMonotone

=============================================================================
