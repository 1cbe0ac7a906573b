----------------------------- MODULE TopicAdmin -----------------------------
(***************************************************************************)
(* Topic administration from the admin client (pkg/client/admin.go)        *)
(* through the management server and the cluster coordinator of the node   *)
(* it talks to, to the metadata state machine and the partition shards.  A *)
(* handler reads its node's copy of the metadata, which lags behind what   *)
(* is committed, and proposes a command that may be applied much later, or *)
(* after the caller was told that it failed.  reconcileOnce, which         *)
(* CreateTopic may call at its end, is ShardLifecycle's subject.           *)
(***************************************************************************)
EXTENDS MetadataTopics, RangeAssign, TLC

CONSTANTS
    Client,         \* admin clients, each with one call at a time
    Home,           \* node of the first bootstrap server of each client
    Hash,           \* fnv32a of each topic name
    Unset,          \* a retention of zero in the request
    DefaultRetention,
    Requests,       \* what the clients ask for
    MaxCalls        \* bound: calls of all clients

VARIABLES
    booted,         \* nodes whose Bootstrap has returned
    view,           \* each node's applied metadata
    call,           \* the call of each client
    calls,          \* calls begun
    late,           \* proposals whose callers got an error
    proposals,      \* CmdRetentionConfig proposals on their way: [shard, ret]
    shardRetention, \* retention each partition shard was last told
    created,        \* history: times each topic was created
    okCreates,      \* history: times a caller was told so
    crossed,        \* history: partitions were added by a call that had read
                    \* an earlier topic of the same name
    altered,        \* history: retention changes since the topic was created
    spoiled         \* history: one of them was not passed on, or partitions
                    \* were added since

history == <<created, okCreates, crossed, altered, spoiled>>
vars == <<fsmVars, booted, view, call, calls, late, proposals, shardRetention, history>>

Idle == [pc |-> "idle"]
Committed == [topics |-> topics, partitions |-> partitions, nodes |-> nodes,
              created |-> created]
NoCommand == [op |-> "none"]
Registered(v) == {n \in NodeID : v.nodes[n] # Absent}
ShardsOf(v, t) == {v.partitions[k].ShardID : k \in {l \in PartitionKey :
                        l[1] = t /\ v.partitions[l] # Absent}}

Init ==
    /\ FSMInit
    /\ created = [t \in TopicName |-> 0]
    /\ booted = {} /\ view = [n \in NodeID |-> Committed]
    /\ call = [c \in Client |-> Idle] /\ calls = 0
    /\ late = {} /\ proposals = {}
    /\ shardRetention = [s \in 1 .. MaxShardID |-> Unset]
    /\ okCreates = created
    /\ crossed = [t \in TopicName |-> FALSE]
    /\ altered = created
    /\ spoiled = crossed

(* A node applies what is committed; a proposal returns once its own node  *)
(* has applied it.                                                         *)
CatchUp(n) ==
    /\ \/ view[n] # Committed
       \/ \E c \in Client : Home[c] = n /\ call[c].pc = "committed"
    /\ view' = [view EXCEPT ![n] = Committed]
    /\ call' = [c \in Client |->
                  IF Home[c] = n /\ call[c].pc = "committed"
                  THEN [call[c] EXCEPT !.pc = "applied"] ELSE call[c]]
    /\ UNCHANGED <<fsmVars, booted, calls, late, proposals, shardRetention, history>>

(* Bootstrap: the lookup succeeds, and RegisterNode is proposed until it   *)
(* is applied; an attempt that was reported lost may be applied as well.   *)
RegisterAttempt(n) ==
    /\ n \notin booted
    /\ \E addr \in Address : ApplyRegisterNode(n, addr)
    /\ UNCHANGED <<call, calls, late, proposals, shardRetention, history>>
    /\ \/ booted' = booted \cup {n} /\ view' = [view EXCEPT ![n] = Committed']
       \/ UNCHANGED <<booted, view>> /\ nodes' # nodes

-----------------------------------------------------------------------------
(* A call leaves the client.  The server turns a retention of zero into    *)
(* "no override", for which CreateTopic has defaults.                      *)
Override(ret) == IF ret = Unset THEN DefaultRetention ELSE ret

Request ==
    [op : {"create"}, t : TopicName, count : 0 .. MaxPartitions,
     rf : ReplicationFactor, ret : Retention \cup {Unset}]
    \cup [op : {"alter"}, t : TopicName, count : 1 .. MaxPartitions]
    \cup [op : {"retention"}, t : TopicName, ret : Retention]
    \cup [op : {"delete", "describe"}, t : TopicName]

ASSUME RequestAssumption ==
    /\ Requests \subseteq Request
    /\ Home \in [Client -> NodeID] /\ Hash \in [TopicName -> Nat]
    /\ DefaultRetention \in Retention

(* Node IDs are numbers, and a coordinator may choose any of them.         *)
ASSUME PlacementAssumption ==
    /\ NodeID \subseteq Nat /\ IsFiniteSet(NodeID)
    /\ SUBSET NodeID \subseteq ReplicaSet
    /\ Absent \notin Address

Begin(c) ==
    /\ call[c].pc \in {"idle", "done"} /\ Home[c] \in booted /\ calls < MaxCalls
    /\ calls' = calls + 1
    /\ \E req \in Requests :
          call' = [call EXCEPT ![c] = [pc |-> req.op, req |-> req, cmd |-> NoCommand,
                                       result |-> "none"]]
    /\ UNCHANGED <<fsmVars, booted, view, late, proposals, shardRetention, history>>

(* mapCoordError, then withRetry, which gives the call up at once: no      *)
(* coordinator error maps to UNAVAILABLE or TIMEOUT, the codes it retries. *)
ClientError(err) ==
    IF err \in {"AlreadyExists", "NotFound", "InvalidArgument"} THEN err ELSE "Internal"

Answer(c, result) ==
    call' = [call EXCEPT ![c] = [pc |-> "done", req |-> call[c].req,
                                 cmd |-> NoCommand, result |-> result]]

Propose(c, cmd) ==
    call' = [call EXCEPT ![c].pc = "proposed", ![c].cmd = cmd]

HandlerOnly ==
    UNCHANGED <<fsmVars, booted, view, calls, late, proposals, shardRetention, history>>

(* LookupMetadata fails while the node has no metadata shard to read.      *)
LookupFails(c) ==
    /\ call[c].pc \in {"create", "delete", "alter", "alterNodes", "retention",
                       "describe", "describeParts"}
    /\ Answer(c, ClientError("Lookup"))
    /\ HandlerOnly

(* CreateTopic of the coordinator up to its proposal.                      *)
PlacementShort(v, t, first, n, rf) ==
    [i \in 0 .. n - 1 |->
        {AssignReplicas(Registered(v), Hash[t], first + i, rf)[r] : r \in 1 .. rf - 1}]
Placement(v, t, first, n, rf) ==
    [i \in 0 .. n - 1 |-> ReplicaNodes(Registered(v), Hash[t], first + i, rf)]

CreateTopicCall(c) ==
    /\ call[c].pc = "create"
    /\ LET r == call[c].req
           v == view[Home[c]]
       IN  IF r.count < 1 \/ r.rf < 1 \/ r.rf > Cardinality(Registered(v))
           THEN Answer(c, ClientError("InvalidArgument"))
           ELSE Propose(c, [op |-> "create", t |-> r.t, count |-> r.count, rf |-> r.rf,
                            ret |-> Override(r.ret),
                            replicas |-> Placement(v, r.t, 0, r.count, r.rf)])
    /\ HandlerOnly

DeleteTopicCall(c) ==
    /\ call[c].pc = "delete"
    /\ IF view[Home[c]].topics[call[c].req.t] = Absent
       THEN Answer(c, ClientError("NotFound"))
       ELSE Propose(c, [op |-> "delete", t |-> call[c].req.t])
    /\ HandlerOnly

(* AlterTopicPartitionCount: the topic, then the nodes, then the proposal. *)
AlterTopicCall(c) ==
    /\ call[c].pc = "alter"
    /\ LET r == call[c].req
           v == view[Home[c]]
           tm == v.topics[r.t]
       IN  IF tm = Absent THEN Answer(c, ClientError("NotFound"))
           ELSE IF r.count <= tm.PartitionCount
           THEN Answer(c, ClientError("InvalidArgument"))
           ELSE call' = [call EXCEPT ![c].pc = "alterNodes",
                           ![c].cmd = [op |-> "read", tm |-> tm, read |-> v.created[r.t]]]
    /\ HandlerOnly

AlterTopicPropose(c) ==
    /\ call[c].pc = "alterNodes"
    /\ LET r == call[c].req
           tm == call[c].cmd.tm
           first == tm.PartitionCount
       IN  Propose(c, [op |-> "alter", t |-> r.t, count |-> r.count,
                       read |-> call[c].cmd.read,
                       replicas |-> Placement(view[Home[c]], r.t, first, r.count - first,
                                              tm.ReplicationFactor)])
    /\ HandlerOnly

AlterRetentionCall(c) ==
    /\ call[c].pc = "retention"
    /\ LET r == call[c].req
       IN  IF view[Home[c]].topics[r.t] = Absent THEN Answer(c, ClientError("NotFound"))
           ELSE Propose(c, [op |-> "retention", t |-> r.t, ret |-> r.ret])
    /\ HandlerOnly

-----------------------------------------------------------------------------
(* The metadata state machine applies a proposal.                          *)
Apply(cmd) ==
    CASE cmd.op = "create" -> ApplyCreateTopic(cmd.t, cmd.count, cmd.rf, cmd.ret, cmd.replicas)
      [] cmd.op = "delete" -> ApplyDeleteTopic(cmd.t)
      [] cmd.op = "alter" -> ApplyAlterTopicPartCount(cmd.t, cmd.count, cmd.replicas)
      [] cmd.op = "retention" -> ApplyAlterTopicRetention(cmd.t, cmd.ret)

Result(cmd) ==
    CASE cmd.op = "create" -> CreateTopicResult(cmd.t, cmd.count, cmd.rf, cmd.replicas)
      [] cmd.op = "alter" -> AlterTopicPartCountResult(cmd.t, cmd.count)
      [] OTHER -> "OK"

Remember(cmd, answered) ==
    LET new == cmd.op = "create" /\ Result(cmd) = "OK"
        grown == cmd.op = "alter" /\ Result(cmd) = "OK"
        changed == cmd.op = "retention" /\ topics[cmd.t] # Absent
    IN  /\ created' = [created EXCEPT ![cmd.t] = IF new THEN @ + 1 ELSE @]
        /\ crossed' = [crossed EXCEPT ![cmd.t] =
                         ~new /\ (@ \/ (grown /\ cmd.read # created[cmd.t]))]
        /\ altered' = [altered EXCEPT ![cmd.t] =
                         IF new THEN 0 ELSE IF changed THEN @ + 1 ELSE @]
        /\ spoiled' = [spoiled EXCEPT ![cmd.t] =
                         ~new /\ (@ \/ (grown /\ altered[cmd.t] > 0)
                                    \/ (changed /\ ~answered))]

Commit(c) ==
    /\ call[c].pc = "proposed"
    /\ LET cmd == call[c].cmd
       IN  /\ Apply(cmd)
           /\ Remember(cmd, TRUE)
           /\ call' = [call EXCEPT ![c].pc = "committed", ![c].result = Result(cmd),
                                   ![c].cmd = [op |-> "sent", read |-> created[cmd.t]]]
    /\ UNCHANGED <<booted, view, calls, late, proposals, shardRetention, okCreates>>

(* SyncPropose gives up; the command may be applied all the same, later or *)
(* already.                                                                *)
ProposeFails(c) ==
    /\ call[c].pc \in {"proposed", "committed", "applied"}
    /\ late' \in {late} \cup (IF call[c].pc = "proposed" THEN {late \cup {call[c].cmd}} ELSE {})
    /\ spoiled' = IF call[c].req.op = "retention" /\ call[c].pc # "proposed"
                  THEN [spoiled EXCEPT ![call[c].req.t] = TRUE] ELSE spoiled
    /\ Answer(c, ClientError("Propose"))
    /\ UNCHANGED <<fsmVars, booted, view, calls, proposals, shardRetention, created,
                   okCreates, crossed, altered>>

CommitLate ==
    /\ \E cmd \in late :
          /\ Apply(cmd)
          /\ Remember(cmd, FALSE)
          /\ late' = late \ {cmd}
    /\ UNCHANGED <<booted, view, call, calls, proposals, shardRetention, okCreates>>

(* The handlers after their proposal was applied.  Only CreateTopic looks  *)
(* at the state machine's result.                                          *)
CreateTopicDoneAnyway(c) ==
    /\ call[c].pc = "applied" /\ call[c].req.op = "create"
    /\ Answer(c, "OK")
    /\ okCreates' = [okCreates EXCEPT ![call[c].req.t] = @ + 1]
    /\ UNCHANGED <<fsmVars, booted, view, calls, late, proposals, shardRetention,
                   created, crossed, altered, spoiled>>
CreateTopicDone(c) ==
    /\ call[c].pc = "applied" /\ call[c].req.op = "create"
    /\ Answer(c, IF call[c].result = "OK" THEN "OK" ELSE ClientError(call[c].result))
    /\ okCreates' = [okCreates EXCEPT ![call[c].req.t] =
                        IF call[c].result = "OK" THEN @ + 1 ELSE @]
    /\ UNCHANGED <<fsmVars, booted, view, calls, late, proposals, shardRetention,
                   created, crossed, altered, spoiled>>

ProposalDone(c) ==
    /\ call[c].pc = "applied" /\ call[c].req.op \in {"delete", "alter"}
    /\ Answer(c, "OK")
    /\ HandlerOnly

(* AlterTopicRetention then reads the partitions from the node's copy and  *)
(* starts one proposal per shard, without waiting.  If the topic is gone   *)
(* or the lookup fails it only logs.                                       *)
PropagateFirst(c) ==
    /\ call[c].pc = "applied" /\ call[c].req.op = "retention"
    /\ LET r == call[c].req
           v == view[Home[c]]
       IN  /\ proposals' = proposals \cup
                  {[shard |-> s, ret |-> r.ret] : s \in {v.partitions[k].ShardID :
                      k \in {l \in PartitionKey : l = <<r.t, 0>> /\ v.partitions[l] # Absent}}}
           /\ spoiled' = [spoiled EXCEPT ![r.t] = @ \/ v.created[r.t] # call[c].cmd.read]
    /\ Answer(c, "OK")
    /\ UNCHANGED <<fsmVars, booted, view, calls, late, shardRetention, created,
                   okCreates, crossed, altered>>
Propagate(c) ==
    /\ call[c].pc = "applied" /\ call[c].req.op = "retention"
    /\ LET r == call[c].req
           v == view[Home[c]]
       IN  \/ /\ proposals' = proposals \cup
                     {[shard |-> s, ret |-> r.ret] : s \in ShardsOf(v, r.t)}
              /\ spoiled' = [spoiled EXCEPT ![r.t] = @ \/ v.created[r.t] # call[c].cmd.read]
           \/ /\ spoiled' = [spoiled EXCEPT ![r.t] = TRUE]
              /\ UNCHANGED proposals
    /\ Answer(c, "OK")
    /\ UNCHANGED <<fsmVars, booted, view, calls, late, shardRetention, created,
                   okCreates, crossed, altered>>

(* A shard applies a proposal; they arrive in any order, or not at all.    *)
RetentionArrives ==
    /\ \E p \in proposals :
          /\ shardRetention' = [shardRetention EXCEPT ![p.shard] = p.ret]
          /\ proposals' = proposals \ {p}
    /\ UNCHANGED <<fsmVars, booted, view, call, calls, late, history>>

RetentionLost ==
    /\ \E p \in proposals :
          /\ proposals' = proposals \ {p}
          /\ spoiled' = [t \in TopicName |-> spoiled[t] \/ p.shard \in ShardsOf(Committed, t)]
    /\ UNCHANGED <<fsmVars, booted, view, call, calls, late, shardRetention, created,
                   okCreates, crossed, altered>>

-----------------------------------------------------------------------------
(* DescribeTopic: the topic, then its partitions, both from the node's     *)
(* copy.  The second lookup has no error of its own for a missing topic.   *)
DescribeCommitted(c) ==
    /\ call[c].pc = "describe"
    /\ LET tm == topics[call[c].req.t]
       IN  IF tm = Absent THEN Answer(c, ClientError("NotFound"))
           ELSE call' = [call EXCEPT ![c].pc = "describeParts",
                           ![c].cmd = [op |-> "read", tm |-> tm,
                                       read |-> created[call[c].req.t]]]
    /\ HandlerOnly
DescribeTopicCall(c) ==
    /\ call[c].pc = "describe"
    /\ LET tm == view[Home[c]].topics[call[c].req.t]
       IN  IF tm = Absent THEN Answer(c, ClientError("NotFound"))
           ELSE call' = [call EXCEPT ![c].pc = "describeParts",
                           ![c].cmd = [op |-> "read", tm |-> tm,
                                       read |-> view[Home[c]].created[call[c].req.t]]]
    /\ HandlerOnly

DescribePartitions(c) ==
    /\ call[c].pc = "describeParts"
    /\ LET t == call[c].req.t
           v == view[Home[c]]
       IN  IF v.topics[t] = Absent THEN Answer(c, ClientError("Lookup"))
           ELSE call' = [call EXCEPT ![c].pc = "done", ![c].result = "OK",
                           ![c].cmd = [@ EXCEPT !.op = "described"] @@
                                      [parts |-> Cardinality(ShardsOf(v, t)),
                                       same |-> v.created[t] = call[c].cmd.read]]
    /\ HandlerOnly

Next ==
    \/ \E n \in NodeID : CatchUp(n) \/ RegisterAttempt(n)
    \/ \E c \in Client :
          \/ Begin(c) \/ LookupFails(c)
          \/ CreateTopicCall(c) \/ DeleteTopicCall(c) \/ AlterTopicCall(c)
          \/ AlterTopicPropose(c) \/ AlterRetentionCall(c)
          \/ Commit(c) \/ ProposeFails(c)
          \/ CreateTopicDone(c) \/ ProposalDone(c) \/ Propagate(c)
          \/ DescribeTopicCall(c) \/ DescribePartitions(c)
    \/ CommitLate \/ RetentionArrives \/ RetentionLost

Spec == Init /\ [][Next]_vars

-----------------------------------------------------------------------------
(* Every partition has as many replicas as its topic asks for, all on      *)
(* registered nodes, however stale the copies the coordinators placed them *)
(* from, unless partitions were added by a call that had read an earlier   *)
(* topic of the same name.                                                 *)
ReplicasComplete ==
    \A k \in PartitionKey :
        partitions[k] # Absent /\ ~crossed[k[1]] =>
            /\ Cardinality(partitions[k].ReplicaNodeIDs) = topics[k[1]].ReplicationFactor
            /\ partitions[k].ReplicaNodeIDs \subseteq Registered(Committed)

(* CreateTopic succeeds for at most one caller per topic created: callers  *)
(* that race, or repeat a call that seemed to fail, learn that the topic   *)
(* exists.                                                                 *)
CreateOKOnce == \A t \in TopicName : okCreates[t] <= created[t]

(* A retention change that is the only one of its topic, and whose         *)
(* proposals all arrive, is in force on every shard of the topic once it   *)
(* has settled.                                                            *)
SettledRetention ==
    \A t \in TopicName :
        (/\ topics[t] # Absent /\ altered[t] = 1 /\ ~spoiled[t]
         /\ \A p \in proposals : p.shard \notin ShardsOf(Committed, t)
         /\ \A c \in Client : call[c].pc \in {"committed", "applied"} =>
                                  call[c].req.op # "retention")
        => \A s \in ShardsOf(Committed, t) : shardRetention[s] = topics[t].Retention

(* DescribeTopic never lists fewer partitions than the partition count it  *)
(* reports, unless the topic was created again between its two lookups.    *)
DescriptionComplete ==
    \A c \in Client :
        call[c].pc = "done" /\ call[c].req.op = "describe" /\ call[c].result = "OK"
        /\ call[c].cmd.same => call[c].cmd.parts >= call[c].cmd.tm.PartitionCount

(* Stated by the documents and refuted.  The first: every partition has    *)
(* its topic's replication factor, whatever calls cross.                   *)
EveryPartitionReplicated ==
    \A k \in PartitionKey : partitions[k] # Absent =>
        Cardinality(partitions[k].ReplicaNodeIDs) = topics[k[1]].ReplicationFactor

(* AlterTopicPartitionCount reports success only if the state machine      *)
(* added the partitions.                                                   *)
AlterOKMeansGrown ==
    [][\A c \in Client :
          call[c].pc = "applied" /\ call[c].req.op = "alter" /\ call'[c].result = "OK"
              => call[c].result = "OK"]_vars

(* The retention a topic was created with reaches its shards: a shard told *)
(* nothing is left with the default only if that is what the topic has.    *)
OverrideDelivered ==
    \A t \in TopicName :
        topics[t] # Absent /\ proposals = {} /\ altered[t] = 0 =>
            \A s \in ShardsOf(Committed, t) :
                shardRetention[s] = Unset => topics[t].Retention = DefaultRetention

=============================================================================
