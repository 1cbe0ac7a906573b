-------------------------- MODULE TopicAdminProofs --------------------------
(***************************************************************************)
(* Proof that topic administration gives every partition the replicas its  *)
(* topic asks for, for any number of clients, calls, nodes and topics:     *)
(* handlers place replicas from stale copies of the metadata, and their    *)
(* commands are applied at any later time.                                 *)
(***************************************************************************)
EXTENDS TopicAdmin, MetadataTopicsProofs, RangeAssignProofs

(* What a handler read of topic t, when t had been created read times: if  *)
(* it is still that topic, its factor is the same and it can only have     *)
(* grown.                                                                  *)
Same(t, read, tm) ==
    /\ read \in Nat /\ read <= created[t]
    /\ tm \in TopicMeta \cup {Absent}
    /\ (tm # Absent /\ topics[t] # Absent /\ read = created[t]) =>
          /\ tm.ReplicationFactor = topics[t].ReplicationFactor
          /\ tm.PartitionCount <= topics[t].PartitionCount

(* A node's copy is behind what is committed, and has the nodes that its   *)
(* topics need.                                                            *)
ViewOK(v) ==
    /\ Registered(v) \subseteq Registered(Committed)
    /\ \A t \in TopicName :
          /\ Same(t, v.created[t], v.topics[t])
          /\ v.topics[t] # Absent =>
                v.topics[t].ReplicationFactor <= Cardinality(Registered(v))

(* Commands on their way.  The replicas are registered; those of an alter  *)
(* command fit the topic it read, if that is still there.                  *)
Placed(cmd) ==
    /\ cmd.replicas \in ReplicaLists
    /\ \A i \in DOMAIN cmd.replicas : cmd.replicas[i] \subseteq Registered(Committed)
CreateOK(cmd) ==
    /\ cmd.op = "create"
    /\ cmd.t \in TopicName /\ cmd.rf \in ReplicationFactor /\ cmd.ret \in Retention
    /\ cmd.count \in 1 .. MaxPartitions
    /\ cmd.rf <= Cardinality(Registered(Committed))
    /\ Placed(cmd)
    /\ \A i \in DOMAIN cmd.replicas : Cardinality(cmd.replicas[i]) = cmd.rf
AlterOK(cmd) ==
    /\ cmd.op = "alter"
    /\ cmd.t \in TopicName /\ cmd.count \in 1 .. MaxPartitions
    /\ cmd.read \in Nat /\ cmd.read <= created[cmd.t]
    /\ Placed(cmd)
    /\ (topics[cmd.t] # Absent /\ cmd.read = created[cmd.t]) =>
          /\ 0 .. cmd.count - topics[cmd.t].PartitionCount - 1 \subseteq DOMAIN cmd.replicas
          /\ \A i \in DOMAIN cmd.replicas :
                Cardinality(cmd.replicas[i]) = topics[cmd.t].ReplicationFactor
CommandOK(cmd) ==
    \/ CreateOK(cmd)
    \/ AlterOK(cmd)
    \/ cmd.op = "delete" /\ cmd.t \in TopicName
    \/ cmd.op = "retention" /\ cmd.t \in TopicName /\ cmd.ret \in Retention

(* A call has the request it began with; between the two lookups of an     *)
(* alter call it holds the topic it has read.                              *)
AlterRead(x, v) ==
    /\ x.req.op = "alter"
    /\ x.cmd.tm \in TopicMeta
    /\ Same(x.req.t, x.cmd.read, x.cmd.tm)
    /\ x.cmd.tm.PartitionCount < x.req.count
    /\ x.cmd.tm.ReplicationFactor <= Cardinality(Registered(v))
CallFields == {"pc", "req", "cmd", "result"}
CallOK(x, v) ==
    \/ x = Idle
    \/ /\ DOMAIN x = CallFields
       /\ x.req \in Requests
       /\ x.pc \in {"create", "delete", "alter", "retention", "describe"} => x.req.op = x.pc
       /\ x.pc = "alterNodes" => AlterRead(x, v)
       /\ x.pc = "proposed" => CommandOK(x.cmd)

(* A topic was created with enough nodes for its replication factor.       *)
HasNodes ==
    \A t \in TopicName : topics[t] # Absent =>
        topics[t].ReplicationFactor <= Cardinality(Registered(Committed))

(* What is committed.                                                      *)
CommittedInv ==
    /\ FSMInv
    /\ created \in [TopicName -> Nat] /\ DOMAIN crossed = TopicName
    /\ HasNodes
    /\ ReplicasComplete

AdminInv ==
    /\ CommittedInv
    /\ DOMAIN view = NodeID /\ DOMAIN call = Client
    /\ \A n \in NodeID : ViewOK(view[n])
    /\ \A c \in Client : CallOK(call[c], view[Home[c]])
    /\ \A cmd \in late : CommandOK(cmd)

(* The nodes of a copy form a finite set of numbers.                       *)
LEMMA RegisteredFinite ==
    ASSUME NEW v
    PROVE  /\ Registered(v) \in SUBSET Nat
           /\ Registered(v) \in SUBSET NodeID
           /\ IsFiniteSet(Registered(v))
           /\ Cardinality(Registered(v)) \in Nat
<1>1. Registered(v) \in SUBSET NodeID BY DEF Registered
<1>2. IsFiniteSet(Registered(v)) BY <1>1, FS_Subset, PlacementAssumption
<1> QED BY <1>1, <1>2, FS_CardinalityType, PlacementAssumption, Zenon

(* The replicas of n partitions, rf for each.                              *)
PlacedWell(rs, v, n, rf) ==
    /\ DOMAIN rs = 0 .. n - 1
    /\ rs \in ReplicaLists
    /\ \A i \in 0 .. n - 1 : rs[i] \subseteq Registered(v) /\ Cardinality(rs[i]) = rf

(* Placement gives each of n partitions rf registered nodes.               *)
LEMMA PlacementFacts ==
    ASSUME NEW v, NEW t \in TopicName, NEW first \in Nat, NEW n \in 0 .. MaxPartitions,
           NEW rf \in Nat \ {0}, rf <= Cardinality(Registered(v))
    PROVE  PlacedWell(Placement(v, t, first, n, rf), v, n, rf)
<1> DEFINE rs == Placement(v, t, first, n, rf)
           R(i) == ReplicaNodes(Registered(v), Hash[t], first + i, rf)
<1>1. rs = [i \in 0 .. n - 1 |-> R(i)] BY DEF Placement
<1>2. \A i \in 0 .. n - 1 : R(i) \subseteq Registered(v) /\ Cardinality(R(i)) = rf
  <2> TAKE i \in 0 .. n - 1
  <2>1. first + i \in Nat /\ Hash[t] \in Nat /\ 1 <= rf
    BY RequestAssumption, MetadataAssumption
  <2> QED BY <2>1, RegisteredFinite, ReplicasDistinct
<1> HIDE DEF R
<1>3. \A i \in 0 .. n - 1 : R(i) \in ReplicaSet
  BY <1>2, RegisteredFinite, PlacementAssumption
<1>4. rs \in [0 .. n - 1 -> ReplicaSet] BY <1>1, <1>3
<1>5. rs \in ReplicaLists BY <1>4 DEF ReplicaLists
<1> QED BY <1>1, <1>2, <1>5 DEF PlacedWell

-----------------------------------------------------------------------------
(* What every step does to the committed metadata: nodes are only added,   *)
(* and a topic that is not created anew keeps its factor and only grows.   *)
Advance ==
    /\ Registered(Committed) \subseteq Registered(Committed)'
    /\ \A t \in TopicName :
          /\ created[t] \in Nat /\ created'[t] \in Nat /\ created[t] <= created'[t]
          /\ (topics'[t] # Absent /\ created'[t] = created[t]) =>
                /\ topics[t] # Absent
                /\ topics[t] \in TopicMeta /\ topics'[t] \in TopicMeta
                /\ topics'[t].ReplicationFactor = topics[t].ReplicationFactor
                /\ topics[t].PartitionCount <= topics'[t].PartitionCount

(* The counts of a topic are numbers.                                      *)
LEMMA TopicMetaFacts ==
    ASSUME NEW tm \in TopicMeta
    PROVE  /\ tm.PartitionCount \in Nat /\ tm.PartitionCount \in 1 .. MaxPartitions
           /\ tm.ReplicationFactor \in Nat \ {0}
           /\ tm.ReplicationFactor \in ReplicationFactor
           /\ tm # Absent
<1>1. /\ tm.PartitionCount \in 1 .. MaxPartitions
      /\ tm.ReplicationFactor \in ReplicationFactor
  BY DEF TopicMeta
<1>2. Absent \notin TopicMeta /\ ReplicationFactor \subseteq Nat \ {0} /\ MaxPartitions \in Nat
  BY MetadataAssumption
<1>3. tm # Absent BY <1>2
<1>4. tm.PartitionCount \in Nat BY <1>1, <1>2
<1>5. tm.ReplicationFactor \in Nat \ {0} BY <1>1, <1>2, Zenon
<1> QED BY <1>1, <1>3, <1>4, <1>5

(* What was read stays behind what is committed.                           *)
LEMMA SameStable ==
    ASSUME Advance, NEW t \in TopicName, NEW read, NEW tm, Same(t, read, tm)
    PROVE  Same(t, read, tm)'
<1>1. read \in Nat /\ read <= created[t] /\ tm \in TopicMeta \cup {Absent} BY DEF Same
<1>2. created[t] \in Nat /\ created'[t] \in Nat /\ created[t] <= created'[t] BY DEF Advance
<1>3. read <= created'[t] BY <1>1, <1>2
<1>4. ASSUME tm # Absent, topics'[t] # Absent, read = created'[t]
      PROVE  /\ tm.ReplicationFactor = topics'[t].ReplicationFactor
             /\ tm.PartitionCount <= topics'[t].PartitionCount
  <2>1. created'[t] = created[t] BY <1>1, <1>2, <1>4
  <2>2. /\ topics[t] # Absent
        /\ topics[t] \in TopicMeta /\ topics'[t] \in TopicMeta
        /\ topics'[t].ReplicationFactor = topics[t].ReplicationFactor
        /\ topics[t].PartitionCount <= topics'[t].PartitionCount
    BY <1>4, <2>1 DEF Advance
  <2>3. /\ tm.ReplicationFactor = topics[t].ReplicationFactor
        /\ tm.PartitionCount <= topics[t].PartitionCount
    BY <1>4, <2>1, <2>2 DEF Same
  <2>4. tm \in TopicMeta BY <1>1, <1>4
  <2> QED BY <2>2, <2>3, <2>4, TopicMetaFacts
<1> QED BY <1>1, <1>3, <1>4 DEF Same

(* So does a node's copy.                                                  *)
LEMMA ViewStable ==
    ASSUME Advance, NEW v, ViewOK(v)
    PROVE  ViewOK(v)'
<1>1. Registered(v) \subseteq Registered(Committed)' BY DEF ViewOK, Advance
<1>2. Registered(v)' = Registered(v) BY DEF Registered
<1>3. \A t \in TopicName : Same(t, v.created[t], v.topics[t])' BY SameStable DEF ViewOK
<1> QED BY <1>1, <1>2, <1>3 DEF ViewOK

(* A command on its way stays fit to be applied.                          *)
LEMMA CommandStable ==
    ASSUME Advance, NEW cmd, CommandOK(cmd)
    PROVE  CommandOK(cmd)'
<1>r. Registered(Committed) \subseteq Registered(Committed)' BY DEF Advance
<1>p. Placed(cmd) => Placed(cmd)' BY <1>r DEF Placed
<1>1. CASE CreateOK(cmd)
  <2>1. Cardinality(Registered(Committed)) <= Cardinality(Registered(Committed)')
    <3>1. IsFiniteSet(Registered(Committed)') BY RegisteredFinite
    <3> QED BY <1>r, <3>1, FS_Subset
  <2>2. cmd.rf \in Nat BY <1>1, MetadataAssumption, Zenon DEF CreateOK
  <2>3. /\ Cardinality(Registered(Committed)) \in Nat
        /\ Cardinality(Registered(Committed)') \in Nat
    BY RegisteredFinite
  <2>4. cmd.rf <= Cardinality(Registered(Committed)') BY <1>1, <2>1, <2>2, <2>3 DEF CreateOK
  <2>5. Cardinality(Registered(Committed))' = Cardinality(Registered(Committed)') OBVIOUS
  <2> QED BY <1>1, <1>p, <2>4, <2>5 DEF CreateOK, CommandOK
<1>2. CASE AlterOK(cmd)
  <2> DEFINE t == cmd.t
  <2>1. t \in TopicName /\ cmd.read \in Nat /\ cmd.read <= created[t]
        /\ cmd.count \in Nat
    BY <1>2, MetadataAssumption DEF AlterOK
  <2>2. created[t] \in Nat /\ created'[t] \in Nat /\ created[t] <= created'[t]
    BY <2>1 DEF Advance
  <2>3. cmd.read <= created'[t] BY <2>1, <2>2
  <2>4. ASSUME topics'[t] # Absent, cmd.read = created'[t]
        PROVE  /\ 0 .. cmd.count - topics'[t].PartitionCount - 1 \subseteq DOMAIN cmd.replicas
               /\ \A i \in DOMAIN cmd.replicas :
                     Cardinality(cmd.replicas[i]) = topics'[t].ReplicationFactor
    <3>1. created'[t] = created[t] BY <2>1, <2>2, <2>4
    <3>2. /\ topics[t] # Absent
          /\ topics[t] \in TopicMeta /\ topics'[t] \in TopicMeta
          /\ topics'[t].ReplicationFactor = topics[t].ReplicationFactor
          /\ topics[t].PartitionCount <= topics'[t].PartitionCount
      BY <2>1, <2>4, <3>1 DEF Advance
    <3>3. /\ 0 .. cmd.count - topics[t].PartitionCount - 1 \subseteq DOMAIN cmd.replicas
          /\ \A i \in DOMAIN cmd.replicas :
                Cardinality(cmd.replicas[i]) = topics[t].ReplicationFactor
      BY <1>2, <2>4, <3>1, <3>2 DEF AlterOK
    <3>4. topics[t].PartitionCount \in Nat /\ topics'[t].PartitionCount \in Nat
      BY <3>2, TopicMetaFacts
    <3>5. 0 .. cmd.count - topics'[t].PartitionCount - 1
             \subseteq 0 .. cmd.count - topics[t].PartitionCount - 1
      BY <2>1, <3>2, <3>4
    <3> QED BY <3>2, <3>3, <3>5
  <2> QED BY <1>2, <1>p, <2>3, <2>4 DEF AlterOK, CommandOK
<1>3. CASE \/ cmd.op = "delete" /\ cmd.t \in TopicName
           \/ cmd.op = "retention" /\ cmd.t \in TopicName /\ cmd.ret \in Retention
  BY <1>3 DEF CommandOK
<1> QED BY <1>1, <1>2, <1>3 DEF CommandOK

(* A call whose client does nothing stays well formed, while its node's    *)
(* copy stays the same or catches up.                                      *)
LEMMA CallStable ==
    ASSUME Advance, NEW x, NEW v, NEW w, CallOK(x, v),
           Registered(v) \subseteq Registered(w)
    PROVE  CallOK(x, w)'
<1>1. Cardinality(Registered(v)) <= Cardinality(Registered(w))
  BY RegisteredFinite, FS_Subset
<1>2. ASSUME AlterRead(x, v), x.req \in Requests PROVE AlterRead(x, w)'
  <2>1. x.req.t \in TopicName BY <1>2, RequestAssumption DEF Request
  <2>2. Same(x.req.t, x.cmd.read, x.cmd.tm)' BY <1>2, <2>1, SameStable DEF AlterRead
  <2>3. Cardinality(Registered(v)) \in Nat /\ Cardinality(Registered(w)) \in Nat
    BY RegisteredFinite
  <2>4. x.cmd.tm.ReplicationFactor \in Nat BY <1>2, TopicMetaFacts DEF AlterRead
  <2>5. x.cmd.tm.ReplicationFactor <= Cardinality(Registered(w))
    BY <1>1, <1>2, <2>3, <2>4 DEF AlterRead
  <2>6. Registered(w)' = Registered(w) BY DEF Registered
  <2> QED BY <1>2, <2>2, <2>5, <2>6 DEF AlterRead
<1> QED BY <1>2, CommandStable DEF CallOK

-----------------------------------------------------------------------------
(* applyCreateTopic.                                                       *)
LEMMA CreateApplied ==
    ASSUME CommittedInv, NEW cmd, CreateOK(cmd), NEW b \in BOOLEAN, Remember(cmd, b),
           ApplyCreateTopic(cmd.t, cmd.count, cmd.rf, cmd.ret, cmd.replicas),
           Result(cmd) = "OK"
    PROVE  Advance /\ CommittedInv'
<1> DEFINE t == cmd.t
           tm == [PartitionCount |-> cmd.count, ReplicationFactor |-> cmd.rf,
                  Retention |-> cmd.ret]
<1>c. /\ cmd.op = "create" /\ t \in TopicName
      /\ cmd.rf \in ReplicationFactor /\ cmd.ret \in Retention
      /\ cmd.count \in 1 .. MaxPartitions /\ cmd.replicas \in ReplicaLists
      /\ \A i \in DOMAIN cmd.replicas : /\ cmd.replicas[i] \subseteq Registered(Committed)
                                        /\ Cardinality(cmd.replicas[i]) = cmd.rf
      /\ cmd.rf <= Cardinality(Registered(Committed))
  BY DEF CreateOK, Placed
<1>i. /\ FSMInv /\ FSMTypeOK /\ PartitionsMatchTopic
      /\ created \in [TopicName -> Nat] /\ DOMAIN crossed = TopicName
  BY DEF CommittedInv, FSMInv
<1>o. CreateTopicResult(t, cmd.count, cmd.rf, cmd.replicas) = "OK" BY <1>c DEF Result
<1>1. FSMInv' BY <1>c, <1>i, <1>o, CreateTopicInv
<1>2. /\ topics[t] = Absent /\ DOMAIN cmd.replicas = 0 .. cmd.count - 1
      /\ topics' = [topics EXCEPT ![t] = tm]
      /\ partitions' = [k \in PartitionKey |->
             IF k[1] = t /\ k[2] < cmd.count
             THEN NewPartition(Shard(k[2]), cmd.replicas[k[2]]) ELSE partitions[k]]
      /\ nodes' = nodes
  BY <1>o, MetadataAssumption DEF ApplyCreateTopic, CreateTopicResult
<1>3. /\ created' = [created EXCEPT ![t] = @ + 1]
      /\ crossed' = [crossed EXCEPT ![t] = FALSE]
  BY <1>c, Zenon DEF Remember
<1>r. Registered(Committed)' = Registered(Committed) BY <1>2, Zenon DEF Registered, Committed
<1>t. /\ tm \in TopicMeta /\ topics'[t] = tm /\ topics'[t] # Absent
      /\ created'[t] = created[t] + 1 /\ created[t] \in Nat /\ ~crossed'[t]
  <2>1. tm \in TopicMeta BY <1>c DEF TopicMeta
  <2>2. tm # Absent BY <2>1, MetadataAssumption
  <2>3. topics'[t] = tm BY <1>c, <1>i, <1>2 DEF FSMTypeOK
  <2> HIDE DEF tm
  <2> QED BY <1>c, <1>i, <1>3, <2>1, <2>2, <2>3, Zenon
<1>u. \A u \in TopicName : u # t =>
         /\ topics'[u] = topics[u] /\ created'[u] = created[u] /\ crossed'[u] = crossed[u]
  BY <1>i, <1>2, <1>3, Zenon DEF FSMTypeOK
<1>4. created' \in [TopicName -> Nat] /\ DOMAIN crossed' = TopicName
  <2>1. created' \in [TopicName -> Nat] BY <1>c, <1>i, <1>3
  <2>2. DOMAIN crossed' = TopicName BY <1>i, <1>3
  <2> QED BY <2>1, <2>2
<1>5. Advance
  <2>1. ASSUME NEW u \in TopicName, topics'[u] # Absent, created'[u] = created[u]
        PROVE  /\ topics[u] # Absent
               /\ topics[u] \in TopicMeta /\ topics'[u] \in TopicMeta
               /\ topics'[u].ReplicationFactor = topics[u].ReplicationFactor
               /\ topics[u].PartitionCount <= topics'[u].PartitionCount
    <3>1. u # t BY <1>t, <2>1
    <3>2. topics'[u] = topics[u] BY <1>u, <3>1
    <3>3. topics[u] \in TopicMeta BY <1>i, <2>1, <3>2 DEF FSMTypeOK
    <3> QED BY <2>1, <3>2, <3>3, TopicMetaFacts
  <2>2. \A u \in TopicName : /\ created[u] \in Nat /\ created'[u] \in Nat
                             /\ created[u] <= created'[u]
    BY <1>i, <1>t, <1>u
  <2> QED BY <1>r, <2>1, <2>2 DEF Advance
<1>6. HasNodes'
  <2> SUFFICES ASSUME NEW u \in TopicName, topics'[u] # Absent
               PROVE  topics'[u].ReplicationFactor <= Cardinality(Registered(Committed))
    BY <1>r DEF HasNodes
  <2>1. CASE u = t BY <1>c, <1>t, <2>1
  <2>2. CASE u # t BY <1>u, <2>2 DEF CommittedInv, HasNodes
  <2> QED BY <2>1, <2>2, Zenon
<1>7. ReplicasComplete'
  <2> SUFFICES ASSUME NEW k \in PartitionKey, partitions'[k] # Absent, ~crossed'[k[1]]
               PROVE  /\ Cardinality(partitions'[k].ReplicaNodeIDs)
                             = topics'[k[1]].ReplicationFactor
                      /\ partitions'[k].ReplicaNodeIDs \subseteq Registered(Committed)
    BY <1>r DEF ReplicasComplete
  <2>0. k[1] \in TopicName /\ k[2] \in Nat BY KeyFacts
  <2>1. CASE k[1] = t
    <3>1. partitions[k] = Absent BY <1>i, <1>2, <2>1, Zenon DEF PartitionsMatchTopic
    <3>2. k[2] < cmd.count BY <1>2, <2>1, <3>1, Zenon
    <3>3. k[2] \in DOMAIN cmd.replicas BY <1>2, <1>c, <2>0, <3>2, MetadataAssumption
    <3>4. partitions'[k].ReplicaNodeIDs = cmd.replicas[k[2]]
      BY <1>2, <2>1, <3>2, Zenon DEF NewPartition
    <3> QED BY <1>c, <1>t, <2>1, <3>3, <3>4
  <2>2. CASE k[1] # t
    <3>1. partitions'[k] = partitions[k] BY <1>2, <2>2, Zenon
    <3> QED BY <1>u, <2>0, <2>2, <3>1, Zenon DEF CommittedInv, ReplicasComplete
  <2> QED BY <2>1, <2>2
<1> QED BY <1>1, <1>4, <1>5, <1>6, <1>7 DEF CommittedInv

(* A command that creates no topic and registers no node.                  *)
LEMMA NothingCreated ==
    ASSUME CommittedInv, nodes' = nodes, created' = created,
           \A u \in TopicName : topics'[u] # Absent =>
               /\ topics[u] # Absent
               /\ topics[u] \in TopicMeta /\ topics'[u] \in TopicMeta
               /\ topics'[u].ReplicationFactor = topics[u].ReplicationFactor
               /\ topics[u].PartitionCount <= topics'[u].PartitionCount
    PROVE  /\ Advance /\ HasNodes'
           /\ Registered(Committed)' = Registered(Committed)
<1>r. Registered(Committed)' = Registered(Committed) BY DEF Registered, Committed
<1>1. created \in [TopicName -> Nat] /\ HasNodes BY DEF CommittedInv
<1>2. \A u \in TopicName : created[u] \in Nat /\ created[u] <= created[u] BY <1>1
<1>3. Advance BY <1>r, <1>2 DEF Advance
<1>4. HasNodes' BY <1>1, <1>r DEF HasNodes
<1> QED BY <1>r, <1>3, <1>4

(* The histories of a step that neither creates a topic nor adds           *)
(* partitions to one.                                                      *)
Kept == /\ created' = created
        /\ DOMAIN crossed' = TopicName
        /\ \A t \in TopicName : ~crossed'[t] => ~crossed[t]

(* A command that changes nothing.                                         *)
LEMMA NothingApplied ==
    ASSUME CommittedInv, UNCHANGED fsmVars, Kept
    PROVE  Advance /\ CommittedInv'
<1>1. /\ topics' = topics /\ partitions' = partitions /\ nodes' = nodes
      /\ nextShardID' = nextShardID /\ issued' = issued /\ created' = created
  BY DEF fsmVars, Kept
<1>2. FSMInv' BY FSMNextInv DEF CommittedInv
<1>3. \A u \in TopicName : topics[u] # Absent =>
         topics[u] \in TopicMeta /\ topics[u].PartitionCount <= topics[u].PartitionCount
  BY TopicMetaFacts DEF CommittedInv, FSMInv, FSMTypeOK
<1>4. Advance /\ HasNodes' /\ Registered(Committed)' = Registered(Committed)
  BY <1>1, <1>3, NothingCreated
<1>5. ReplicasComplete' BY <1>1, <1>4, KeyFacts DEF CommittedInv, ReplicasComplete, Kept
<1> QED BY <1>1, <1>2, <1>4, <1>5 DEF CommittedInv, Kept

(* applyAlterTopicPartCount: with a command computed from this topic, the  *)
(* replica lists reach the partitions added now, wherever they begin.      *)
LEMMA AlterApplied ==
    ASSUME CommittedInv, NEW cmd, AlterOK(cmd), NEW b \in BOOLEAN, Remember(cmd, b),
           ApplyAlterTopicPartCount(cmd.t, cmd.count, cmd.replicas),
           Result(cmd) = "OK"
    PROVE  Advance /\ CommittedInv'
<1> DEFINE t == cmd.t
           old == topics[t].PartitionCount
<1>c. /\ cmd.op = "alter" /\ t \in TopicName
      /\ cmd.count \in 1 .. MaxPartitions /\ cmd.replicas \in ReplicaLists
      /\ \A i \in DOMAIN cmd.replicas : cmd.replicas[i] \subseteq Registered(Committed)
  BY Zenon DEF AlterOK, Placed
<1>i. /\ FSMInv /\ FSMTypeOK /\ PartitionsMatchTopic
      /\ created \in [TopicName -> Nat] /\ DOMAIN crossed = TopicName
  BY DEF CommittedInv, FSMInv
<1>o. AlterTopicPartCountResult(t, cmd.count) = "OK" BY <1>c DEF Result
<1>1. FSMInv' BY <1>c, <1>i, <1>o, AlterTopicPartCountInv
<1>2. /\ topics[t] # Absent /\ ~(cmd.count <= old)
      /\ topics' = [topics EXCEPT ![t].PartitionCount = cmd.count]
      /\ partitions' = [k \in PartitionKey |->
             IF k[1] = t /\ k[2] \in old .. cmd.count - 1
             THEN NewPartition(Shard(k[2] - old),
                      IF k[2] - old \in DOMAIN cmd.replicas
                      THEN cmd.replicas[k[2] - old] ELSE {})
             ELSE partitions[k]]
      /\ nodes' = nodes
  BY <1>o DEF ApplyAlterTopicPartCount, AlterTopicPartCountResult
<1>3. /\ created' = created
      /\ crossed' = [crossed EXCEPT ![t] = @ \/ cmd.read # created[t]]
  <2>1. /\ created' = [created EXCEPT ![t] = @]
        /\ crossed' = [crossed EXCEPT ![t] = @ \/ cmd.read # created[t]]
    BY <1>c DEF Remember
  <2> QED BY <1>c, <1>i, <2>1
<1>t. /\ topics[t] \in TopicMeta /\ topics'[t] \in TopicMeta
      /\ topics'[t].ReplicationFactor = topics[t].ReplicationFactor
      /\ topics'[t].PartitionCount = cmd.count
      /\ old \in Nat /\ cmd.count \in Nat /\ old < cmd.count
  <2>1. topics[t] \in TopicMeta BY <1>c, <1>i, <1>2 DEF FSMTypeOK
  <2>2. topics'[t] = [topics[t] EXCEPT !.PartitionCount = cmd.count]
    BY <1>c, <1>i, <1>2 DEF FSMTypeOK
  <2>3. topics'[t] \in TopicMeta BY <1>c, <2>1, <2>2 DEF TopicMeta
  <2>4. /\ topics'[t].ReplicationFactor = topics[t].ReplicationFactor
        /\ topics'[t].PartitionCount = cmd.count
    BY <2>1, <2>2 DEF TopicMeta
  <2>5. old \in Nat BY <2>1, TopicMetaFacts
  <2>6. cmd.count \in Nat BY <1>c, MetadataAssumption
  <2> HIDE DEF old
  <2> QED BY <1>2, <2>1, <2>3, <2>4, <2>5, <2>6
<1>u. \A u \in TopicName : u # t => topics'[u] = topics[u] /\ crossed'[u] = crossed[u]
  BY <1>i, <1>2, <1>3 DEF FSMTypeOK
<1>4. Advance /\ HasNodes' /\ Registered(Committed)' = Registered(Committed)
  <2>1. ASSUME NEW u \in TopicName, topics'[u] # Absent
        PROVE  /\ topics[u] # Absent
               /\ topics[u] \in TopicMeta /\ topics'[u] \in TopicMeta
               /\ topics'[u].ReplicationFactor = topics[u].ReplicationFactor
               /\ topics[u].PartitionCount <= topics'[u].PartitionCount
    <3>1. CASE u = t BY <1>2, <1>t, <3>1
    <3>2. CASE u # t
      <4>1. topics'[u] = topics[u] /\ topics[u] \in TopicMeta
        BY <1>i, <1>u, <2>1, <3>2, Zenon DEF FSMTypeOK
      <4> QED BY <2>1, <4>1, TopicMetaFacts
    <3> QED BY <3>1, <3>2
  <2> QED BY <1>2, <1>3, <2>1, NothingCreated
<1>5. DOMAIN crossed' = TopicName BY <1>i, <1>3
<1>6. ReplicasComplete'
  <2> SUFFICES ASSUME NEW k \in PartitionKey, partitions'[k] # Absent, ~crossed'[k[1]]
               PROVE  /\ Cardinality(partitions'[k].ReplicaNodeIDs)
                             = topics'[k[1]].ReplicationFactor
                      /\ partitions'[k].ReplicaNodeIDs \subseteq Registered(Committed)
    BY <1>4 DEF ReplicasComplete
  <2>0. k[1] \in TopicName /\ k[2] \in Nat BY KeyFacts
  <2>1. CASE k[1] # t
    <3>1. partitions'[k] = partitions[k] BY <1>2, <2>1
    <3> QED BY <1>u, <2>0, <2>1, <3>1 DEF CommittedInv, ReplicasComplete
  <2>2. CASE k[1] = t
    <3>1. ~crossed[t] /\ cmd.read = created[t] BY <1>c, <1>i, <1>3, <2>2, Zenon
    <3>2. CASE k[2] \in old .. cmd.count - 1
      <4>1. /\ 0 .. cmd.count - old - 1 \subseteq DOMAIN cmd.replicas
            /\ \A i \in DOMAIN cmd.replicas :
                  Cardinality(cmd.replicas[i]) = topics[t].ReplicationFactor
        BY <1>2, <3>1 DEF AlterOK
      <4>2. k[2] - old \in 0 .. cmd.count - old - 1
        <5> HIDE DEF old
        <5> QED BY <1>t, <2>0, <3>2
      <4>3. partitions'[k].ReplicaNodeIDs = cmd.replicas[k[2] - old]
        BY <1>2, <2>2, <3>2, <4>1, <4>2, Zenon DEF NewPartition
      <4> QED BY <1>c, <1>t, <2>2, <4>1, <4>2, <4>3, Zenon
    <3>3. CASE k[2] \notin old .. cmd.count - 1
      <4>1. partitions'[k] = partitions[k] BY <1>2, <3>3
      <4> QED BY <1>t, <2>2, <3>1, <4>1 DEF CommittedInv, ReplicasComplete
    <3> QED BY <3>2, <3>3
  <2> QED BY <2>1, <2>2
<1> QED BY <1>1, <1>3, <1>4, <1>5, <1>6, <1>i DEF CommittedInv

(* applyDeleteTopic of a topic that is there.                              *)
LEMMA DeleteApplied ==
    ASSUME CommittedInv, NEW t \in TopicName, topics[t] # Absent,
           ApplyDeleteTopic(t), Kept
    PROVE  Advance /\ CommittedInv'
<1>i. /\ FSMInv /\ FSMTypeOK
      /\ created \in [TopicName -> Nat] /\ DOMAIN crossed = TopicName
  BY DEF CommittedInv, FSMInv
<1>1. FSMInv' BY <1>i, DeleteTopicInv
<1>2. /\ topics' = [topics EXCEPT ![t] = Absent]
      /\ partitions' = [k \in PartitionKey |->
             IF Owned(k, t) THEN Absent ELSE partitions[k]]
      /\ nodes' = nodes /\ created' = created
  BY Zenon DEF ApplyDeleteTopic, Kept
<1>3. topics'[t] = Absent /\ \A u \in TopicName : u # t => topics'[u] = topics[u]
  BY <1>i, <1>2 DEF FSMTypeOK
<1>4. Advance /\ HasNodes' /\ Registered(Committed)' = Registered(Committed)
  <2>1. ASSUME NEW u \in TopicName, topics'[u] # Absent
        PROVE  /\ topics[u] # Absent
               /\ topics[u] \in TopicMeta /\ topics'[u] \in TopicMeta
               /\ topics'[u].ReplicationFactor = topics[u].ReplicationFactor
               /\ topics[u].PartitionCount <= topics'[u].PartitionCount
    <3>1. topics'[u] = topics[u] /\ topics[u] \in TopicMeta
      BY <1>i, <1>3, <2>1 DEF FSMTypeOK
    <3> QED BY <2>1, <3>1, TopicMetaFacts
  <2> QED BY <1>2, <2>1, NothingCreated, Zenon
<1>5. ReplicasComplete'
  <2> SUFFICES ASSUME NEW k \in PartitionKey, partitions'[k] # Absent, ~crossed'[k[1]]
               PROVE  /\ Cardinality(partitions'[k].ReplicaNodeIDs)
                             = topics'[k[1]].ReplicationFactor
                      /\ partitions'[k].ReplicaNodeIDs \subseteq Registered(Committed)
    BY <1>4, Zenon DEF ReplicasComplete
  <2>1. k[1] \in TopicName /\ k[1] # t
    BY <1>1, <1>3, KeyFacts DEF FSMInv, PartitionsMatchTopic
  <2>2. partitions'[k] = partitions[k] /\ topics'[k[1]] = topics[k[1]]
    BY <1>2, <1>3, <2>1 DEF Owned
  <2> QED BY <1>2, <2>1, <2>2, Zenon DEF CommittedInv, ReplicasComplete, Kept
<1> QED BY <1>1, <1>2, <1>4, <1>5, <1>i, Zenon DEF CommittedInv, Kept

(* applyAlterTopicRetention of a topic that is there.                      *)
LEMMA RetentionApplied ==
    ASSUME CommittedInv, NEW t \in TopicName, NEW ret \in Retention, topics[t] # Absent,
           ApplyAlterTopicRetention(t, ret), Kept
    PROVE  Advance /\ CommittedInv'
<1>i. /\ FSMInv /\ FSMTypeOK
      /\ created \in [TopicName -> Nat] /\ DOMAIN crossed = TopicName
  BY DEF CommittedInv, FSMInv
<1>1. FSMInv' BY <1>i, AlterTopicRetentionInv
<1>2. /\ topics' = [topics EXCEPT ![t].Retention = ret]
      /\ partitions' = partitions
      /\ nodes' = nodes /\ created' = created
  BY DEF ApplyAlterTopicRetention, Kept
<1>3. \A u \in TopicName : topics'[u] # Absent =>
               /\ topics[u] # Absent
               /\ topics[u] \in TopicMeta /\ topics'[u] \in TopicMeta
               /\ topics'[u].ReplicationFactor = topics[u].ReplicationFactor
               /\ topics[u].PartitionCount <= topics'[u].PartitionCount
  <2> TAKE u \in TopicName
  <2> HAVE topics'[u] # Absent
  <2>1. topics'[u] \in TopicMeta BY <1>1 DEF FSMInv, FSMTypeOK
  <2>2. CASE u = t
    <3>1. topics[t] \in TopicMeta BY <1>i DEF FSMTypeOK
    <3>2. topics'[t] = [topics[t] EXCEPT !.Retention = ret] BY <1>2, <1>i DEF FSMTypeOK
    <3>3. /\ topics'[t].ReplicationFactor = topics[t].ReplicationFactor
          /\ topics'[t].PartitionCount = topics[t].PartitionCount
      BY <3>1, <3>2 DEF TopicMeta
    <3> QED BY <2>1, <2>2, <3>1, <3>3, TopicMetaFacts
  <2>3. CASE u # t
    <3>1. topics'[u] = topics[u] BY <1>2, <1>i, <2>3 DEF FSMTypeOK
    <3> QED BY <2>1, <3>1, TopicMetaFacts
  <2> QED BY <2>2, <2>3
<1>4. Advance /\ HasNodes' /\ Registered(Committed)' = Registered(Committed)
  BY <1>2, <1>3, NothingCreated
<1>5. ReplicasComplete'
  <2> SUFFICES ASSUME NEW k \in PartitionKey, partitions[k] # Absent, ~crossed'[k[1]]
               PROVE  /\ Cardinality(partitions[k].ReplicaNodeIDs)
                             = topics'[k[1]].ReplicationFactor
                      /\ partitions[k].ReplicaNodeIDs \subseteq Registered(Committed)
    BY <1>2, <1>4 DEF ReplicasComplete
  <2>1. k[1] \in TopicName /\ topics'[k[1]] # Absent
    BY <1>1, <1>2, KeyFacts DEF FSMInv, PartitionsMatchTopic
  <2>2. topics'[k[1]].ReplicationFactor = topics[k[1]].ReplicationFactor
    BY <1>3, <2>1
  <2> QED BY <2>1, <2>2, Zenon DEF CommittedInv, ReplicasComplete, Kept
<1> QED BY <1>1, <1>2, <1>4, <1>5, <1>i DEF CommittedInv, Kept

(* applyRegisterNode only adds a node.                                     *)
LEMMA RegisterApplied ==
    ASSUME CommittedInv, NEW n \in NodeID, NEW addr \in Address,
           ApplyRegisterNode(n, addr), UNCHANGED <<created, crossed>>
    PROVE  Advance /\ CommittedInv'
<1> DEFINE R == Registered(Committed)
<1>i. /\ FSMInv /\ FSMTypeOK /\ HasNodes /\ ReplicasComplete
      /\ created \in [TopicName -> Nat] /\ DOMAIN crossed = TopicName
  BY DEF CommittedInv, FSMInv
<1>1. FSMInv' BY <1>i, RegisterNodeInv
<1>2. /\ topics' = topics /\ partitions' = partitions
      /\ nodes' = [nodes EXCEPT ![n] = addr]
      /\ created' = created /\ crossed' = crossed
  BY DEF ApplyRegisterNode
<1>3. R \subseteq R'
  <2>1. \A m \in NodeID : nodes[m] # Absent => nodes'[m] # Absent
    BY <1>2, <1>i, PlacementAssumption DEF FSMTypeOK
  <2> QED BY <2>1, Zenon DEF Registered, Committed
<1>4. IsFiniteSet(R') /\ Cardinality(R) \in Nat /\ Cardinality(R') \in Nat
  <2>1. R' \in SUBSET NodeID BY DEF Registered
  <2>2. IsFiniteSet(R') BY <2>1, FS_Subset, PlacementAssumption
  <2> QED BY <2>2, RegisteredFinite, FS_CardinalityType
<1>5. Cardinality(R) <= Cardinality(R') BY <1>3, <1>4, FS_Subset
<1> HIDE DEF R
<1>6. \A u \in TopicName : topics[u] # Absent =>
         /\ topics[u] \in TopicMeta
         /\ topics[u].PartitionCount <= topics[u].PartitionCount
         /\ topics[u].ReplicationFactor \in Nat
  BY <1>i, TopicMetaFacts DEF FSMTypeOK
<1>7. HasNodes'
  <2> SUFFICES ASSUME NEW u \in TopicName, topics[u] # Absent
               PROVE  topics[u].ReplicationFactor <= Cardinality(R')
    BY <1>2, Zenon DEF HasNodes, R
  <2>1. topics[u].ReplicationFactor <= Cardinality(R) BY <1>i DEF HasNodes, R
  <2> QED BY <1>4, <1>5, <1>6, <2>1
<1>8. ReplicasComplete'
  BY <1>2, <1>3, <1>i, Zenon DEF ReplicasComplete, R
<1>9. Advance
  <2>1. \A u \in TopicName : created[u] \in Nat /\ created[u] <= created[u] BY <1>i
  <2> QED BY <1>2, <1>3, <1>6, <2>1, Zenon DEF Advance, R
<1> QED BY <1>1, <1>2, <1>7, <1>8, <1>9, <1>i DEF CommittedInv

(* Whatever command on its way is applied next, and whatever it finds.     *)
LEMMA ApplyStep ==
    ASSUME CommittedInv, NEW cmd, CommandOK(cmd), NEW b \in BOOLEAN,
           Apply(cmd), Remember(cmd, b)
    PROVE  [FSMNext]_fsmVars /\ Advance /\ CommittedInv'
<1>i. created \in [TopicName -> Nat] /\ DOMAIN crossed = TopicName BY DEF CommittedInv
<1>n. ASSUME cmd.t \in TopicName, cmd.op \notin {"create", "alter"} \/ Result(cmd) # "OK"
      PROVE  Kept
  <2>1. /\ ~(cmd.op = "create" /\ Result(cmd) = "OK")
        /\ ~(cmd.op = "alter" /\ Result(cmd) = "OK")
    BY <1>n
  <2>2. /\ created' = [created EXCEPT ![cmd.t] = @]
        /\ crossed' = [crossed EXCEPT ![cmd.t] = TRUE /\ (@ \/ FALSE)]
    BY <2>1, Zenon DEF Remember
  <2>3. created' = created BY <1>i, <1>n, <2>2
  <2>4. /\ DOMAIN crossed' = TopicName
        /\ \A u \in TopicName : ~crossed'[u] => ~crossed[u]
    BY <1>i, <1>n, <2>2, Zenon
  <2> QED BY <2>3, <2>4 DEF Kept
<1>1. CASE CreateOK(cmd)
  <2>1. /\ cmd.op = "create" /\ cmd.t \in TopicName
        /\ ApplyCreateTopic(cmd.t, cmd.count, cmd.rf, cmd.ret, cmd.replicas)
    BY <1>1 DEF CreateOK, Apply
  <2>2. FSMNext
    <3>1. CreateTopic BY <1>1, <2>1, Zenon DEF CreateTopic, CreateOK, Placed
    <3> QED BY <3>1 DEF FSMNext
  <2>3. CASE Result(cmd) = "OK" BY <1>1, <2>1, <2>2, <2>3, CreateApplied
  <2>4. CASE Result(cmd) # "OK"
    <3>1. UNCHANGED fsmVars BY <2>1, <2>4 DEF Result, ApplyCreateTopic
    <3>2. Kept BY <1>n, <2>1, <2>4
    <3> QED BY <2>2, <3>1, <3>2, NothingApplied
  <2> QED BY <2>3, <2>4
<1>2. CASE AlterOK(cmd)
  <2>1. /\ cmd.op = "alter" /\ cmd.t \in TopicName
        /\ ApplyAlterTopicPartCount(cmd.t, cmd.count, cmd.replicas)
    BY <1>2 DEF AlterOK, Apply
  <2>2. FSMNext
    <3>1. AlterTopicPartCount BY <1>2, <2>1, Zenon DEF AlterTopicPartCount, AlterOK, Placed
    <3> QED BY <3>1 DEF FSMNext
  <2>3. CASE Result(cmd) = "OK" BY <1>2, <2>1, <2>2, <2>3, AlterApplied
  <2>4. CASE Result(cmd) # "OK"
    <3>1. UNCHANGED fsmVars BY <2>1, <2>4 DEF Result, ApplyAlterTopicPartCount
    <3>2. Kept BY <1>n, <2>1, <2>4
    <3> QED BY <2>2, <3>1, <3>2, NothingApplied
  <2> QED BY <2>3, <2>4
<1>3. CASE cmd.op = "delete" /\ cmd.t \in TopicName
  <2>1. ApplyDeleteTopic(cmd.t) BY <1>3 DEF Apply
  <2>2. FSMNext BY <1>3, <2>1 DEF FSMNext, DeleteTopic
  <2>3. Kept BY <1>3, <1>n
  <2>4. CASE topics[cmd.t] # Absent BY <1>3, <2>1, <2>2, <2>3, <2>4, DeleteApplied
  <2>5. CASE topics[cmd.t] = Absent
    BY <2>1, <2>2, <2>3, <2>5, NothingApplied DEF ApplyDeleteTopic
  <2> QED BY <2>4, <2>5
<1>4. CASE cmd.op = "retention" /\ cmd.t \in TopicName /\ cmd.ret \in Retention
  <2>1. ApplyAlterTopicRetention(cmd.t, cmd.ret) BY <1>4 DEF Apply
  <2>2. FSMNext BY <1>4, <2>1 DEF FSMNext, AlterTopicRetention
  <2>3. Kept BY <1>4, <1>n
  <2>4. CASE topics[cmd.t] # Absent BY <1>4, <2>1, <2>2, <2>3, <2>4, RetentionApplied
  <2>5. CASE topics[cmd.t] = Absent
    BY <2>1, <2>2, <2>3, <2>5, NothingApplied DEF ApplyAlterTopicRetention
  <2> QED BY <2>4, <2>5
<1> QED BY <1>1, <1>2, <1>3, <1>4 DEF CommandOK

(* A copy taken of what is committed is a good one.                        *)
LEMMA CommittedCopy == CommittedInv => ViewOK(Committed)
<1> SUFFICES ASSUME CommittedInv PROVE ViewOK(Committed) OBVIOUS
<1>1. /\ FSMTypeOK /\ created \in [TopicName -> Nat] /\ HasNodes
  BY DEF CommittedInv, FSMInv
<1>2. \A t \in TopicName : Same(t, created[t], topics[t])
  <2> TAKE t \in TopicName
  <2>1. created[t] \in Nat /\ created[t] <= created[t] BY <1>1
  <2>2. topics[t] \in TopicMeta \cup {Absent} BY <1>1 DEF FSMTypeOK
  <2>3. topics[t] # Absent => topics[t].PartitionCount <= topics[t].PartitionCount
    BY <2>2, TopicMetaFacts
  <2> QED BY <2>1, <2>2, <2>3, Zenon DEF Same
<1>3. Committed.created = created /\ Committed.topics = topics BY DEF Committed
<1> QED BY <1>1, <1>2, <1>3 DEF ViewOK, HasNodes

(* A step outside the metadata state machine.                              *)
LEMMA Outside ==
    ASSUME AdminInv, UNCHANGED <<fsmVars, created, crossed>>
    PROVE  Advance /\ CommittedInv'
  BY NothingApplied, Zenon DEF AdminInv, CommittedInv, Kept

(* A step that moves the call of one client.                               *)
LEMMA CallMoves ==
    ASSUME AdminInv, Advance, CommittedInv', view' = view,
           \A cmd \in late' : CommandOK(cmd),
           NEW c \in Client, NEW x,
           call' = [call EXCEPT ![c] = x], CallOK(x, view[Home[c]])
    PROVE  AdminInv'
<1>2. /\ DOMAIN view = NodeID /\ DOMAIN call = Client
      /\ \A n \in NodeID : ViewOK(view[n])
      /\ \A d \in Client : CallOK(call[d], view[Home[d]])
  BY Zenon DEF AdminInv
<1>3. \A n \in NodeID : ViewOK(view[n])' BY <1>2, ViewStable
<1>4. \A cmd \in late' : CommandOK(cmd)' BY CommandStable
<1>5. \A d \in Client : CallOK(call[d], view[Home[d]])'
  <2> TAKE d \in Client
  <2>1. call'[d] = IF d = c THEN x ELSE call[d] BY <1>2
  <2>2. CallOK(call'[d], view[Home[d]]) BY <1>2, <2>1, Zenon
  <2> QED BY <2>2, CallStable, Zenon
<1> QED BY <1>2, <1>3, <1>4, <1>5, Zenon DEF AdminInv

(* A step that leaves the calls alone.                                     *)
LEMMA CallsStay ==
    ASSUME AdminInv, Advance, CommittedInv', UNCHANGED <<call, view>>, late' \subseteq late
    PROVE  AdminInv'
<1>2. /\ DOMAIN view = NodeID /\ DOMAIN call = Client /\ view' = view /\ call' = call
      /\ \A n \in NodeID : ViewOK(view[n])
      /\ \A d \in Client : CallOK(call[d], view[Home[d]])
      /\ \A cmd \in late : CommandOK(cmd)
  BY Zenon DEF AdminInv
<1>3. \A n \in NodeID : ViewOK(view[n])' BY <1>2, ViewStable, Zenon
<1>4. \A cmd \in late' : CommandOK(cmd)' BY <1>2, CommandStable, Zenon
<1>5. \A d \in Client : CallOK(call[d], view[Home[d]])' BY <1>2, CallStable, Zenon
<1> QED BY <1>2, <1>3, <1>4, <1>5, Zenon DEF AdminInv

(* The count an alter request asks for.                                    *)
LEMMA AlterCount ==
    ASSUME NEW r \in Requests, r.op = "alter"
    PROVE  r.count \in 1 .. MaxPartitions /\ r.count \in Nat
<1>1. r.count \in 1 .. MaxPartitions BY RequestAssumption, Zenon DEF Request
<1> QED BY <1>1, MetadataAssumption

(* The order of numbers.                                                   *)
LEMMA NotLess ==
    ASSUME NEW a \in Nat, NEW b \in Nat
    PROVE  /\ ~(a > b) => a <= b
           /\ ~(a <= b) => b < a
           /\ \A d \in Nat : a <= b /\ b <= d => a <= d
  OBVIOUS

(* How many partitions an alter call adds: to the topic it has read, and   *)
(* to one that has grown since.                                            *)
LEMMA Growth ==
    ASSUME NEW first \in Nat, NEW count \in Nat, NEW bound \in Nat, first < count
    PROVE  /\ count \in 1 .. bound => count - first \in 0 .. bound
           /\ \A now \in Nat :
                 first <= now => 0 .. count - now - 1 \subseteq 0 .. count - first - 1
  OBVIOUS

(* A call that has begun has a well formed request.                        *)
LEMMA CallFacts ==
    ASSUME AdminInv, NEW c \in Client, call[c].pc # "idle"
    PROVE  /\ DOMAIN call[c] = CallFields
           /\ call[c].req \in Requests /\ call[c].req.t \in TopicName
           /\ call[c].pc \in {"create", "delete", "alter", "retention", "describe"}
                 => call[c].req.op = call[c].pc
           /\ call[c].pc = "alterNodes" => AlterRead(call[c], view[Home[c]])
           /\ call[c].pc = "proposed" => CommandOK(call[c].cmd)
<1>1. CallOK(call[c], view[Home[c]]) BY DEF AdminInv
<1>2. call[c] # Idle BY DEF Idle
<1>3. call[c].req \in Requests BY <1>1, <1>2, Zenon DEF CallOK
<1>4. call[c].req.t \in TopicName BY <1>3, RequestAssumption, Zenon DEF Request
<1> QED BY <1>1, <1>2, <1>3, <1>4, Zenon DEF CallOK

(* A handler that answers, having changed nothing but the histories.       *)
LEMMA AnswerStep ==
    ASSUME AdminInv, NEW c \in Client, call[c].pc # "idle", NEW result, Answer(c, result),
           UNCHANGED <<fsmVars, created, crossed, view>>,
           \A cmd \in late' : CommandOK(cmd)
    PROVE  AdminInv'
<1> DEFINE x == [pc |-> "done", req |-> call[c].req, cmd |-> NoCommand, result |-> result]
<1>1. CallOK(x, view[Home[c]]) BY CallFacts, Zenon DEF CallOK, CallFields
<1>2. call' = [call EXCEPT ![c] = x] BY DEF Answer
<1> HIDE DEF x
<1> QED BY <1>1, <1>2, Outside, CallMoves, Zenon

(* A handler that proposes a command it is right to propose.               *)
LEMMA ProposeStep ==
    ASSUME AdminInv, NEW c \in Client, call[c].pc # "idle", NEW cmd, Propose(c, cmd),
           CommandOK(cmd), HandlerOnly
    PROVE  AdminInv'
<1> DEFINE x == [call[c] EXCEPT !.pc = "proposed", !.cmd = cmd]
<1>1. CallOK(x, view[Home[c]])
  <2>0. DOMAIN call[c] = CallFields BY CallFacts, Zenon
  <2>1. x.pc = "proposed" /\ x.cmd = cmd /\ x.req = call[c].req /\ DOMAIN x = CallFields
    BY <2>0 DEF CallFields
  <2> HIDE DEF x
  <2> QED BY <2>1, CallFacts, Zenon DEF CallOK
<1>2. call' = [call EXCEPT ![c] = x] BY Zenon DEF AdminInv, Propose
<1>3. /\ UNCHANGED <<fsmVars, created, crossed>> /\ view' = view /\ late' = late
  BY Zenon DEF HandlerOnly, history
<1>4. \A d \in late' : CommandOK(d) BY <1>3, Zenon DEF AdminInv
<1> HIDE DEF x
<1> QED BY <1>1, <1>2, <1>3, <1>4, Outside, CallMoves, Zenon

-----------------------------------------------------------------------------
(* CreateTopic places the replicas from the nodes of a copy.               *)
LEMMA CreateTopicCallStep ==
    ASSUME AdminInv, NEW c \in Client, CreateTopicCall(c)
    PROVE  AdminInv'
<1> DEFINE r == call[c].req
           v == view[Home[c]]
           rs == Placement(v, r.t, 0, r.count, r.rf)
           cmd == [op |-> "create", t |-> r.t, count |-> r.count, rf |-> r.rf,
                   ret |-> Override(r.ret), replicas |-> rs]
<1>1. call[c].pc = "create" /\ HandlerOnly BY Zenon DEF CreateTopicCall
<1>2. /\ r \in Requests /\ r.t \in TopicName /\ r.op = "create" BY <1>1, CallFacts, Zenon
<1>3. /\ r.count \in 0 .. MaxPartitions /\ r.rf \in ReplicationFactor
      /\ r.ret \in Retention \cup {Unset}
  BY <1>2, RequestAssumption, Zenon DEF Request
<1>4. CASE r.count < 1 \/ r.rf < 1 \/ r.rf > Cardinality(Registered(v))
  <2>1. Answer(c, ClientError("InvalidArgument")) BY <1>4, Zenon DEF CreateTopicCall
  <2>2. UNCHANGED <<fsmVars, created, crossed, view, late>> BY <1>1 DEF HandlerOnly, history
  <2>3. \A d \in late' : CommandOK(d) BY <2>2 DEF AdminInv
  <2> QED BY <1>1, <2>1, <2>2, <2>3, AnswerStep, Zenon
<1>5. CASE ~(r.count < 1 \/ r.rf < 1 \/ r.rf > Cardinality(Registered(v)))
  <2>1. Propose(c, cmd) BY <1>5, Zenon DEF CreateTopicCall
  <2>2. /\ r.rf \in Nat \ {0} /\ r.count \in 1 .. MaxPartitions
        /\ Cardinality(Registered(v)) \in Nat
    <3>1. Cardinality(Registered(v)) \in Nat BY RegisteredFinite, Zenon
    <3>2. r.rf \in Nat \ {0} BY <1>3, MetadataAssumption, Zenon
    <3>3. MaxPartitions \in Nat BY MetadataAssumption
    <3>4. ~(r.count < 1) BY <1>5, Zenon
    <3> HIDE DEF r
    <3>5. r.count \in 1 .. MaxPartitions BY <1>3, <3>3, <3>4
    <3> QED BY <3>1, <3>2, <3>5, Zenon
  <2>3. r.rf <= Cardinality(Registered(v)) BY <1>5, <2>2, NotLess, Zenon
  <2>4. /\ rs \in ReplicaLists /\ DOMAIN rs = 0 .. r.count - 1
        /\ \A i \in 0 .. r.count - 1 : /\ rs[i] \subseteq Registered(v)
                                       /\ Cardinality(rs[i]) = r.rf
    <3>1. 0 \in Nat OBVIOUS
    <3>2. PlacedWell(rs, v, r.count, r.rf)
      BY <1>2, <1>3, <2>2, <2>3, <3>1, PlacementFacts, Zenon
    <3> QED BY <3>2, Zenon DEF PlacedWell
  <2>5. Registered(v) \subseteq Registered(Committed)
    BY RequestAssumption, Zenon DEF AdminInv, ViewOK
  <2>6. r.rf <= Cardinality(Registered(Committed))
    <3>1. Cardinality(Registered(v)) <= Cardinality(Registered(Committed))
      BY <2>5, RegisteredFinite, FS_Subset
    <3>2. Cardinality(Registered(Committed)) \in Nat BY RegisteredFinite, Zenon
    <3>3. r.rf \in Nat BY <2>2, Zenon
    <3> QED BY <2>2, <2>3, <3>1, <3>2, <3>3, NotLess, Zenon
  <2>7. Override(r.ret) \in Retention BY <1>3, RequestAssumption DEF Override
  <2> HIDE DEF rs, r
  <2>8. CreateOK(cmd) BY <1>2, <1>3, <2>2, <2>4, <2>5, <2>6, <2>7, Zenon DEF CreateOK, Placed
  <2>9. CommandOK(cmd) BY <2>8, Zenon DEF CommandOK
  <2> HIDE DEF cmd
  <2> QED BY <1>1, <2>1, <2>9, ProposeStep, Zenon
<1> QED BY <1>4, <1>5, Zenon

(* AlterTopicPartitionCount reads the topic.                               *)
LEMMA AlterTopicCallStep ==
    ASSUME AdminInv, NEW c \in Client, AlterTopicCall(c)
    PROVE  AdminInv'
<1> DEFINE r == call[c].req
           v == view[Home[c]]
           tm == v.topics[r.t]
           cmd == [op |-> "read", tm |-> tm, read |-> v.created[r.t]]
           x == [call[c] EXCEPT !.pc = "alterNodes", !.cmd = cmd]
<1>1. call[c].pc = "alter" /\ HandlerOnly BY Zenon DEF AlterTopicCall
<1>2. r \in Requests /\ r.t \in TopicName /\ r.op = "alter" /\ DOMAIN call[c] = CallFields
  BY <1>1, CallFacts, Zenon
<1>u. UNCHANGED <<fsmVars, created, crossed, view, late>> BY <1>1 DEF HandlerOnly, history
<1>l. \A d \in late' : CommandOK(d) BY <1>u DEF AdminInv
<1>3. CASE tm = Absent \/ r.count <= tm.PartitionCount
  <2>1. \E err \in {"NotFound", "InvalidArgument"} : Answer(c, ClientError(err))
    BY <1>3, Zenon DEF AlterTopicCall
  <2> QED BY <1>1, <1>u, <1>l, <2>1, AnswerStep, Zenon
<1>4. CASE tm # Absent /\ ~(r.count <= tm.PartitionCount)
  <2>1. call' = [call EXCEPT ![c] = x] BY <1>4, Zenon DEF AlterTopicCall, AdminInv
  <2>2. ViewOK(v) BY RequestAssumption DEF AdminInv
  <2>3. /\ Same(r.t, v.created[r.t], tm) /\ tm \in TopicMeta
        /\ tm.ReplicationFactor <= Cardinality(Registered(v))
    BY <1>2, <1>4, <2>2, Zenon DEF ViewOK, Same
  <2>4. tm.PartitionCount < r.count
    <3>1. r.count \in Nat BY <1>2, AlterCount, Zenon
    <3>2. tm.PartitionCount \in Nat BY <2>3, TopicMetaFacts, Zenon
    <3> HIDE DEF tm, r
    <3> QED BY <1>4, <3>1, <3>2
  <2>5. cmd.tm = tm /\ cmd.read = v.created[r.t] BY Zenon
  <2>6. /\ x.pc = "alterNodes" /\ x.cmd = cmd /\ x.req = r
        /\ DOMAIN x = CallFields
    BY <1>2 DEF CallFields
  <2> HIDE DEF x, cmd, tm, r, v
  <2>7. AlterRead(x, v) BY <1>2, <2>3, <2>4, <2>5, <2>6, Zenon DEF AlterRead
  <2>8. CallOK(x, v) BY <1>2, <2>6, <2>7, Zenon DEF CallOK
  <2>9. CallOK(x, view[Home[c]]) BY <2>8 DEF v
  <2> QED BY <1>u, <1>l, <2>1, <2>9, Outside, CallMoves, Zenon
<1> QED BY <1>3, <1>4, Zenon

(* It places the replicas of the new partitions, from a later copy.        *)
LEMMA AlterTopicProposeStep ==
    ASSUME AdminInv, NEW c \in Client, AlterTopicPropose(c)
    PROVE  AdminInv'
<1> DEFINE r == call[c].req
           v == view[Home[c]]
           tm == call[c].cmd.tm
           first == tm.PartitionCount
           n == r.count - first
           rs == Placement(v, r.t, first, n, tm.ReplicationFactor)
           cmd == [op |-> "alter", t |-> r.t, count |-> r.count,
                   read |-> call[c].cmd.read, replicas |-> rs]
<1>1. call[c].pc = "alterNodes" /\ HandlerOnly /\ Propose(c, cmd) BY Zenon DEF AlterTopicPropose
<1>2. r \in Requests /\ r.t \in TopicName /\ AlterRead(call[c], v) BY <1>1, CallFacts, Zenon
<1>3. /\ r.op = "alter" /\ tm \in TopicMeta /\ Same(r.t, call[c].cmd.read, tm)
      /\ first < r.count /\ tm.ReplicationFactor <= Cardinality(Registered(v))
  BY <1>2, Zenon DEF AlterRead
<1>4. r.count \in 1 .. MaxPartitions /\ r.count \in Nat BY <1>2, <1>3, AlterCount, Zenon
<1>5. /\ first \in Nat /\ tm.ReplicationFactor \in Nat \ {0} /\ tm # Absent
      /\ r.count \in Nat /\ MaxPartitions \in Nat
  BY <1>3, <1>4, TopicMetaFacts, MetadataAssumption, Zenon
<1>6. n \in 0 .. MaxPartitions BY <1>3, <1>4, <1>5, Growth, Zenon
<1>7. /\ rs \in ReplicaLists /\ DOMAIN rs = 0 .. n - 1
      /\ \A i \in 0 .. n - 1 : /\ rs[i] \subseteq Registered(v)
                               /\ Cardinality(rs[i]) = tm.ReplicationFactor
  <2>1. PlacedWell(rs, v, n, tm.ReplicationFactor)
    BY <1>2, <1>3, <1>5, <1>6, PlacementFacts, Zenon
  <2> QED BY <2>1, Zenon DEF PlacedWell
<1>8. Registered(v) \subseteq Registered(Committed)
  BY RequestAssumption, Zenon DEF AdminInv, ViewOK
<1>9. ASSUME topics[r.t] # Absent, call[c].cmd.read = created[r.t]
      PROVE  /\ 0 .. r.count - topics[r.t].PartitionCount - 1 \subseteq DOMAIN rs
             /\ \A i \in DOMAIN rs : Cardinality(rs[i]) = topics[r.t].ReplicationFactor
  <2>1. /\ tm.ReplicationFactor = topics[r.t].ReplicationFactor
        /\ first <= topics[r.t].PartitionCount
    BY <1>3, <1>5, <1>9, Zenon DEF Same
  <2>2. topics[r.t].PartitionCount \in Nat
    BY <1>2, <1>9, TopicMetaFacts, Zenon DEF AdminInv, CommittedInv, FSMInv, FSMTypeOK
  <2>3. 0 .. r.count - topics[r.t].PartitionCount - 1 \subseteq 0 .. n - 1
    BY <1>3, <1>5, <2>1, <2>2, Growth, Zenon
  <2> HIDE DEF rs, n
  <2> QED BY <1>7, <2>1, <2>3, Zenon
<1>10. call[c].cmd.read \in Nat /\ call[c].cmd.read <= created[r.t] BY <1>3, Zenon DEF Same
<1> HIDE DEF rs, r
<1>11. AlterOK(cmd) BY <1>2, <1>4, <1>7, <1>8, <1>9, <1>10, Zenon DEF AlterOK, Placed
<1>12. CommandOK(cmd) BY <1>11, Zenon DEF CommandOK
<1> HIDE DEF cmd
<1> QED BY <1>1, <1>12, ProposeStep

(* A node takes over what is committed, and proposals of its own return.   *)
LEMMA CopyStep ==
    ASSUME AdminInv, Advance, CommittedInv', late' = late, NEW n \in NodeID,
           view' = [view EXCEPT ![n] = Committed'], DOMAIN call' = Client,
           \A c \in Client :
               \/ call'[c] = call[c]
               \/ /\ call[c].pc = "committed"
                  /\ call'[c] = [call[c] EXCEPT !.pc = "applied"]
    PROVE  AdminInv'
<1>1. /\ DOMAIN view = NodeID /\ DOMAIN call = Client
      /\ \A m \in NodeID : ViewOK(view[m])
      /\ \A d \in Client : CallOK(call[d], view[Home[d]]) /\ Home[d] \in NodeID
      /\ \A cmd \in late : CommandOK(cmd)
  BY RequestAssumption DEF AdminInv
<1>2. DOMAIN view' = NodeID BY <1>1
<1>3. ViewOK(Committed)' BY CommittedCopy, PTL
<1>4. \A m \in NodeID : ViewOK(view[m])'
  <2> TAKE m \in NodeID
  <2>1. CASE m = n
    <3>1. view'[m] = Committed' BY <1>1, <2>1
    <3> QED BY <1>3, <3>1
  <2>2. CASE m # n
    <3>1. view'[m] = view[m] BY <1>1, <2>2
    <3> QED BY <1>1, <3>1, ViewStable
  <2> QED BY <2>1, <2>2
<1>5. \A m \in NodeID : Registered(view[m]) \subseteq Registered(view'[m])
  <2> TAKE m \in NodeID
  <2>1. Registered(view[m]) \subseteq Registered(Committed)' BY <1>1 DEF ViewOK, Advance
  <2>2. Registered(Committed)' = Registered(Committed') BY DEF Registered
  <2>3. view'[m] = IF m = n THEN Committed' ELSE view[m] BY <1>1
  <2> QED BY <2>1, <2>2, <2>3
<1>6. \A d \in Client : CallOK(call[d], view[Home[d]])'
  <2> TAKE d \in Client
  <2>1. CallOK(call'[d], view[Home[d]])
    <3>1. CASE call'[d] = call[d] BY <1>1, <3>1
    <3>2. CASE /\ call[d].pc = "committed"
               /\ call'[d] = [call[d] EXCEPT !.pc = "applied"]
      <4>1. DOMAIN call[d] = CallFields /\ call[d].req \in Requests BY <3>2, CallFacts
      <4>2. /\ DOMAIN call'[d] = CallFields /\ call'[d].req = call[d].req
            /\ call'[d].pc = "applied"
        BY <3>2, <4>1 DEF CallFields
      <4> QED BY <4>1, <4>2 DEF CallOK
    <3> QED BY <3>1, <3>2
  <2>2. Registered(view[Home[d]]) \subseteq Registered(view'[Home[d]]) BY <1>1, <1>5
  <2> QED BY <2>1, <2>2, CallStable
<1>7. \A cmd \in late' : CommandOK(cmd)' BY <1>1, CommandStable
<1> QED BY <1>2, <1>4, <1>6, <1>7 DEF AdminInv

(* A proposal is applied while its caller waits.                           *)
LEMMA CommitStep ==
    ASSUME AdminInv, NEW c \in Client, Commit(c)
    PROVE  AdminInv' /\ [FSMNext]_fsmVars
<1> DEFINE cmd == call[c].cmd
           sent == [op |-> "sent", read |-> created[cmd.t]]
           x == [call[c] EXCEPT !.pc = "committed", !.result = Result(cmd), !.cmd = sent]
<1>1. /\ call[c].pc = "proposed" /\ Apply(cmd) /\ Remember(cmd, TRUE)
      /\ view' = view /\ late' = late
      /\ call' = [call EXCEPT ![c].pc = "committed", ![c].result = Result(cmd),
                              ![c].cmd = sent]
  BY Zenon DEF Commit
<1>2. /\ CommandOK(cmd) /\ DOMAIN call[c] = CallFields /\ call[c].req \in Requests
  BY <1>1, CallFacts
<1>3. [FSMNext]_fsmVars /\ Advance /\ CommittedInv'
  BY <1>1, <1>2, ApplyStep, Zenon DEF AdminInv
<1>4. call' = [call EXCEPT ![c] = x] BY <1>1, Zenon DEF AdminInv
<1> HIDE DEF cmd, sent
<1>5. x.pc = "committed" /\ x.req = call[c].req /\ DOMAIN x = CallFields
  BY <1>2 DEF CallFields
<1> HIDE DEF x
<1>6. CallOK(x, view[Home[c]]) BY <1>2, <1>5, Zenon DEF CallOK
<1>7. \A d \in late' : CommandOK(d) BY <1>1 DEF AdminInv
<1>8. AdminInv' BY <1>1, <1>3, <1>4, <1>6, <1>7, CallMoves, Zenon
<1> QED BY <1>3, <1>8

(* The caller is told that the proposal failed, and it may still come.     *)
LEMMA ProposeFailsStep ==
    ASSUME AdminInv, NEW c \in Client, ProposeFails(c)
    PROVE  AdminInv' /\ UNCHANGED fsmVars
<1>1. /\ call[c].pc \in {"proposed", "committed", "applied"}
      /\ Answer(c, ClientError("Propose"))
      /\ UNCHANGED <<fsmVars, created, crossed, view>>
  BY Zenon DEF ProposeFails
<1>2. \A d \in late' : CommandOK(d)
  <2>1. CASE call[c].pc = "proposed"
    <3>1. CommandOK(call[c].cmd) BY <2>1, CallFacts, Zenon
    <3>2. late' \subseteq late \cup {call[c].cmd} BY <2>1, Zenon DEF ProposeFails
    <3> QED BY <3>1, <3>2, Zenon DEF AdminInv
  <2>2. CASE call[c].pc # "proposed"
    <3>1. late' = late BY <2>2, Zenon DEF ProposeFails
    <3> QED BY <3>1, Zenon DEF AdminInv
  <2> QED BY <2>1, <2>2, Zenon
<1> QED BY <1>1, <1>2, AnswerStep, Zenon

(* The lookups of DescribeTopic.                                           *)
LEMMA DescribeStep ==
    ASSUME AdminInv, NEW c \in Client, DescribeTopicCall(c) \/ DescribePartitions(c)
    PROVE  AdminInv'
<1>1. /\ call[c].pc \in {"describe", "describeParts"} /\ HandlerOnly
  BY Zenon DEF DescribeTopicCall, DescribePartitions
<1>2. DOMAIN call[c] = CallFields /\ call[c].req \in Requests BY <1>1, CallFacts, Zenon
<1>u. UNCHANGED <<fsmVars, created, crossed, view, late>> BY <1>1, Zenon DEF HandlerOnly, history
<1>l. \A d \in late' : CommandOK(d) BY <1>u, Zenon DEF AdminInv
<1>3. ASSUME NEW err, Answer(c, err) PROVE AdminInv' BY <1>1, <1>u, <1>l, <1>3, AnswerStep, Zenon
<1>4. ASSUME NEW x, call' = [call EXCEPT ![c] = x], DOMAIN x = CallFields,
             x.req = call[c].req, x.pc \in {"describeParts", "done"}
      PROVE  AdminInv'
  <2>1. CallOK(x, view[Home[c]]) BY <1>2, <1>4, Zenon DEF CallOK
  <2> QED BY <1>4, <1>u, <1>l, <2>1, Outside, CallMoves, Zenon
<1>5. CASE DescribeTopicCall(c)
  <2> DEFINE tm == view[Home[c]].topics[call[c].req.t]
             cmd == [op |-> "read", tm |-> tm, read |-> view[Home[c]].created[call[c].req.t]]
             x == [call[c] EXCEPT !.pc = "describeParts", !.cmd = cmd]
  <2>1. CASE tm = Absent BY <1>3, <1>5, <2>1 DEF DescribeTopicCall
  <2>2. CASE tm # Absent
    <3>1. call' = [call EXCEPT ![c] = x] BY <1>5, <2>2, Zenon DEF DescribeTopicCall, AdminInv
    <3> HIDE DEF cmd
    <3>2. x.pc = "describeParts" /\ x.req = call[c].req /\ DOMAIN x = CallFields
      BY <1>2 DEF CallFields
    <3> QED BY <1>4, <3>1, <3>2, Zenon
  <2> QED BY <2>1, <2>2, Zenon
<1>6. CASE DescribePartitions(c)
  <2> DEFINE t == call[c].req.t
             v == view[Home[c]]
             cmd == [call[c].cmd EXCEPT !.op = "described"] @@
                       [parts |-> Cardinality(ShardsOf(v, t)),
                        same |-> v.created[t] = call[c].cmd.read]
             x == [call[c] EXCEPT !.pc = "done", !.result = "OK", !.cmd = cmd]
  <2>1. CASE v.topics[t] = Absent BY <1>3, <1>6, <2>1 DEF DescribePartitions
  <2>2. CASE v.topics[t] # Absent
    <3>1. call' = [call EXCEPT ![c] = x]
      BY <1>6, <2>2, Zenon DEF DescribePartitions, AdminInv
    <3> HIDE DEF cmd
    <3>2. x.pc = "done" /\ x.req = call[c].req /\ DOMAIN x = CallFields
      BY <1>2 DEF CallFields
    <3> QED BY <1>4, <3>1, <3>2, Zenon
  <2> QED BY <2>1, <2>2, Zenon
<1> QED BY <1>5, <1>6

-----------------------------------------------------------------------------
(* Every node starts with an empty copy and no call is under way.          *)
LEMMA AdminInitInv == Init => AdminInv
<1> SUFFICES ASSUME Init PROVE AdminInv OBVIOUS
<1>1. FSMInit /\ FSMInv BY FSMInitInv DEF Init
<1>2. /\ \A t \in TopicName : topics[t] = Absent
      /\ \A k \in PartitionKey : partitions[k] = Absent
      /\ created \in [TopicName -> Nat] /\ DOMAIN crossed = TopicName
  BY <1>1 DEF FSMInit, Init
<1>3. CommittedInv BY <1>1, <1>2, Zenon DEF CommittedInv, HasNodes, ReplicasComplete
<1>4. \A n \in NodeID : ViewOK(view[n]) BY <1>3, CommittedCopy DEF Init
<1>5. \A c \in Client : CallOK(call[c], view[Home[c]]) BY Zenon DEF Init, CallOK
<1> QED BY <1>3, <1>4, <1>5 DEF AdminInv, Init

(* Every step of the management path keeps the invariant, and is a command *)
(* of the metadata state machine or leaves it alone.                       *)
LEMMA AdminNextInv == AdminInv /\ [Next]_vars => AdminInv' /\ [FSMNext]_fsmVars
<1> SUFFICES ASSUME AdminInv, [Next]_vars PROVE AdminInv' /\ [FSMNext]_fsmVars OBVIOUS
<1>l. \A cmd \in late : CommandOK(cmd) BY Zenon DEF AdminInv
<1>h. ASSUME HandlerOnly
      PROVE  /\ UNCHANGED <<fsmVars, created, crossed, view, late>>
             /\ \A cmd \in late' : CommandOK(cmd)
  <2>1. UNCHANGED <<fsmVars, created, crossed, view, late>> BY <1>h DEF HandlerOnly, history
  <2> QED BY <1>l, <2>1
<1>1. ASSUME NEW n \in NodeID, CatchUp(n) PROVE AdminInv' /\ [FSMNext]_fsmVars
  <2>1. /\ UNCHANGED <<fsmVars, created, crossed, late>>
        /\ view' = [view EXCEPT ![n] = Committed]
        /\ call' = [c \in Client |->
                      IF Home[c] = n /\ call[c].pc = "committed"
                      THEN [call[c] EXCEPT !.pc = "applied"] ELSE call[c]]
    BY <1>1 DEF CatchUp, history
  <2>2. Committed' = Committed BY <2>1 DEF Committed, fsmVars
  <2> QED BY <2>1, <2>2, Outside, CopyStep, Zenon
<1>2. ASSUME NEW n \in NodeID, RegisterAttempt(n) PROVE AdminInv' /\ [FSMNext]_fsmVars
  <2>1. PICK addr \in Address : ApplyRegisterNode(n, addr) BY <1>2 DEF RegisterAttempt
  <2>2. UNCHANGED <<created, crossed, call, late>> BY <1>2 DEF RegisterAttempt, history
  <2>3. Advance /\ CommittedInv' BY <2>1, <2>2, RegisterApplied, Zenon DEF AdminInv
  <2>4. FSMNext BY <2>1 DEF FSMNext, RegisterNode
  <2>5. CASE view' = [view EXCEPT ![n] = Committed']
    BY <2>2, <2>3, <2>4, <2>5, CopyStep, Zenon DEF AdminInv
  <2>6. CASE view' = view BY <2>2, <2>3, <2>4, <2>6, CallsStay
  <2> QED BY <1>2, <2>5, <2>6 DEF RegisterAttempt
<1>3. ASSUME NEW c \in Client, Begin(c) PROVE AdminInv' /\ [FSMNext]_fsmVars
  <2>1. UNCHANGED <<fsmVars, created, crossed, view, late>> BY <1>3, Zenon DEF Begin, history
  <2>2. PICK req \in Requests :
           call' = [call EXCEPT ![c] = [pc |-> req.op, req |-> req, cmd |-> NoCommand,
                                        result |-> "none"]]
    BY <1>3, Zenon DEF Begin
  <2>3. req.op \in {"create", "alter", "retention", "delete", "describe"}
    BY RequestAssumption, Zenon DEF Request
  <2>4. CallOK([pc |-> req.op, req |-> req, cmd |-> NoCommand, result |-> "none"],
               view[Home[c]])
    BY <2>3, Zenon DEF CallOK, CallFields
  <2>5. \A cmd \in late' : CommandOK(cmd) BY <1>l, <2>1
  <2> QED BY <2>1, <2>2, <2>4, <2>5, Outside, CallMoves, Zenon
<1>4. ASSUME NEW c \in Client, LookupFails(c) PROVE AdminInv' /\ [FSMNext]_fsmVars
  <2>1. call[c].pc # "idle" /\ Answer(c, ClientError("Lookup")) /\ HandlerOnly
    BY <1>4 DEF LookupFails
  <2> QED BY <1>h, <2>1, AnswerStep, Zenon
<1>5. ASSUME NEW c \in Client,
             CreateTopicCall(c) \/ AlterTopicCall(c) \/ AlterTopicPropose(c)
             \/ DescribeTopicCall(c) \/ DescribePartitions(c)
      PROVE AdminInv' /\ [FSMNext]_fsmVars
  <2>1. UNCHANGED fsmVars
    BY <1>5, <1>h, Zenon DEF CreateTopicCall, AlterTopicCall, AlterTopicPropose,
                      DescribeTopicCall, DescribePartitions
  <2> QED BY <1>5, <2>1, CreateTopicCallStep, AlterTopicCallStep, AlterTopicProposeStep,
             DescribeStep
<1>6. ASSUME NEW c \in Client, DeleteTopicCall(c) PROVE AdminInv' /\ [FSMNext]_fsmVars
  <2> DEFINE cmd == [op |-> "delete", t |-> call[c].req.t]
  <2>1. /\ call[c].pc # "idle" /\ HandlerOnly
        /\ Answer(c, ClientError("NotFound")) \/ Propose(c, cmd)
    BY <1>6, Zenon DEF DeleteTopicCall
  <2>2. CommandOK(cmd) BY <2>1, CallFacts, Zenon DEF CommandOK
  <2> HIDE DEF cmd
  <2> QED BY <1>h, <2>1, <2>2, AnswerStep, ProposeStep, Zenon
<1>7. ASSUME NEW c \in Client, AlterRetentionCall(c) PROVE AdminInv' /\ [FSMNext]_fsmVars
  <2> DEFINE r == call[c].req
             cmd == [op |-> "retention", t |-> r.t, ret |-> r.ret]
  <2>1. /\ call[c].pc = "retention" /\ HandlerOnly
        /\ Answer(c, ClientError("NotFound")) \/ Propose(c, cmd)
    BY <1>7, Zenon DEF AlterRetentionCall
  <2>2. r \in Requests /\ r.op = "retention" /\ r.t \in TopicName BY <2>1, CallFacts, Zenon
  <2>3. r.ret \in Retention BY <2>2, RequestAssumption, Zenon DEF Request
  <2>4. CommandOK(cmd) BY <2>2, <2>3, Zenon DEF CommandOK
  <2> HIDE DEF cmd
  <2> QED BY <1>h, <2>1, <2>4, AnswerStep, ProposeStep, Zenon
<1>8. ASSUME NEW c \in Client, Commit(c) PROVE AdminInv' /\ [FSMNext]_fsmVars
  BY <1>8, CommitStep
<1>9. ASSUME NEW c \in Client, ProposeFails(c) PROVE AdminInv' /\ [FSMNext]_fsmVars
  BY <1>9, ProposeFailsStep
<1>10. ASSUME NEW c \in Client, CreateTopicDone(c) \/ ProposalDone(c) \/ Propagate(c)
       PROVE AdminInv' /\ [FSMNext]_fsmVars
  <2>1. /\ call[c].pc # "idle" /\ UNCHANGED <<fsmVars, created, crossed, view, late>>
        /\ \E result : Answer(c, result)
    BY <1>10, Zenon DEF CreateTopicDone, ProposalDone, Propagate, HandlerOnly, history
  <2>2. \A cmd \in late' : CommandOK(cmd) BY <1>l, <2>1, Zenon
  <2> QED BY <2>1, <2>2, AnswerStep, Zenon
<1>11. CASE CommitLate
  <2>1. PICK cmd \in late : Apply(cmd) /\ Remember(cmd, FALSE) /\ late' = late \ {cmd}
    BY <1>11, Zenon DEF CommitLate
  <2>2. [FSMNext]_fsmVars /\ Advance /\ CommittedInv'
    BY <1>l, <2>1, ApplyStep, Zenon DEF AdminInv
  <2>3. UNCHANGED <<call, view>> BY <1>11 DEF CommitLate
  <2> QED BY <2>1, <2>2, <2>3, CallsStay
<1>12. CASE RetentionArrives \/ RetentionLost \/ UNCHANGED vars
  <2>1. UNCHANGED <<fsmVars, created, crossed, call, view, late>>
    BY <1>12, Zenon DEF RetentionArrives, RetentionLost, vars, history
  <2> QED BY <2>1, Outside, CallsStay
<1> QED BY <1>1, <1>2, <1>3, <1>4, <1>5, <1>6, <1>7, <1>8, <1>9, <1>10, <1>11, <1>12, Zenon
        DEF Next

(* The management path drives the metadata state machine only through its  *)
(* commands, so what holds of the state machine holds under it.            *)
THEOREM AdminImplementsFSM == Spec => FSMSpec
<1>1. Init => FSMInit BY DEF Init
<1> QED BY <1>1, AdminInitInv, AdminNextInv, PTL DEF Spec, FSMSpec

(* However stale the copies of the metadata were from which coordinators   *)
(* placed replicas, and however late their commands are applied, every     *)
(* partition has the replicas its topic asks for, on registered nodes.     *)
THEOREM ReplicasCompleteHolds == Spec => []ReplicasComplete
<1>1. AdminInv => ReplicasComplete BY Zenon DEF AdminInv, CommittedInv
<1> QED BY <1>1, AdminInitInv, AdminNextInv, PTL DEF Spec

(* Under the management path the partition table agrees with the topic     *)
(* table, no two partitions share a shard, and no shard ID comes back.     *)
THEOREM AdminKeepsTables ==
    Spec => /\ []PartitionsMatchTopic
            /\ []ShardIDsUnique
            /\ ShardIDNeverReused
  BY AdminImplementsFSM, PartitionsMatchTopicHolds, ShardIDsUniqueHolds,
     ShardIDNeverReusedHolds

=============================================================================
