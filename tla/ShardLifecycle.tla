--------------------------- MODULE ShardLifecycle ---------------------------
(***************************************************************************)
(* How one node follows the metadata with its Raft shards: reconcileOnce,  *)
(* startShard and stopShard of the cluster coordinator, and the routing    *)
(* registry of the data coordinator, for one partition key of a topic that *)
(* is created, deleted and created again.  Each creation gives the key a   *)
(* new shard ID (MetadataTopics proves that none is reused).               *)
(*                                                                         *)
(* reconcileOnce starts one goroutine per shard to start or stop, and does *)
(* not wait for them: goroutines of several rounds, and several for one    *)
(* shard, run at once.                                                     *)
(***************************************************************************)
EXTENDS Integers, FiniteSets

CONSTANTS
    Reconciler,     \* callers of reconcileOnce: the loop and, with
                    \* EagerReconcileOnCreate, CreateTopic of any topic
    SlowGoroutines, \* a goroutine may outlast the reconcile interval
    QuickRecreate,  \* the topic may be back before its old shard is stopped
    MaxShard,       \* bound: times the topic is created
    MaxGoroutines,  \* bound: goroutines in the same step for one shard
    MaxRestarts     \* bound: restarts of the broker

ASSUME LifecycleAssumption ==
    /\ SlowGoroutines \in BOOLEAN /\ QuickRecreate \in BOOLEAN
    /\ MaxShard \in Nat /\ MaxGoroutines \in Nat \ {0} /\ MaxRestarts \in Nat

Shard == 1 .. MaxShard
StartStep == {"start", "register", "record"}
StopStep == {"unregister", "stop", "forget"}

VARIABLES
    wanted,         \* shard of the partition in the metadata, 0: no topic
    created,        \* shards handed out so far
    up,             \* shards dragonboat runs on this node
    runningShards,  \* cc.runningShards
    shardRegistry,  \* dc.shardRegistry[key].ShardID, 0: no entry
    expected,       \* per reconciler: what its lookups saw; {0}: not running
    starting,       \* goroutines of startShard about to take a step
    stopping,       \* goroutines of stopShard about to take a step
    restarts        \* restarts so far

vars == <<wanted, created, up, runningShards, shardRegistry, expected,
          starting, stopping, restarts>>

Wanted == {wanted} \ {0}
NotRunning == {0}
NoneStarting == [s \in Shard |-> [x \in StartStep |-> 0]]
NoneStopping == [s \in Shard |-> [x \in StopStep |-> 0]]
Quiet == starting = NoneStarting /\ stopping = NoneStopping

Init ==
    /\ wanted = 0
    /\ created = 0
    /\ up = {}
    /\ runningShards = {}
    /\ shardRegistry = 0
    /\ expected = [r \in Reconciler |-> NotRunning]
    /\ starting = NoneStarting
    /\ stopping = NoneStopping
    /\ restarts = 0

-----------------------------------------------------------------------------
CreateTopic ==
    /\ wanted = 0
    /\ created < MaxShard
    /\ QuickRecreate \/ (Quiet /\ runningShards = {}
                          /\ \A r \in Reconciler : expected[r] \subseteq NotRunning)
    /\ created' = created + 1
    /\ wanted' = created + 1
    /\ UNCHANGED <<up, runningShards, shardRegistry, expected, starting, stopping, restarts>>

DeleteTopic ==
    /\ wanted # 0
    /\ wanted' = 0
    /\ UNCHANGED <<created, up, runningShards, shardRegistry, expected,
                   starting, stopping, restarts>>

(* reconcileOnce: the lookups, without the lock.                           *)
ReconcileLookup(r) ==
    /\ expected[r] = NotRunning
    /\ SlowGoroutines \/ Quiet
    /\ expected' = [expected EXCEPT ![r] = Wanted]
    /\ UNCHANGED <<wanted, created, up, runningShards, shardRegistry, starting,
                   stopping, restarts>>

(* Then, under shardMu, one goroutine per difference with runningShards.   *)
Missing(r) == expected[r] \ runningShards
SurplusIfEmpty(r) == IF expected[r] = {} THEN runningShards ELSE {}
SurplusAll(r) == runningShards
Surplus(r) == runningShards \ expected[r]
ReconcileSpawn(r) ==
    /\ expected[r] # NotRunning
    /\ \A s \in Missing(r) : starting[s]["start"] < MaxGoroutines
    /\ \A s \in Surplus(r) : stopping[s]["unregister"] < MaxGoroutines
    /\ starting' = [s \in Shard |-> IF s \in Missing(r)
                        THEN [starting[s] EXCEPT !["start"] = @ + 1] ELSE starting[s]]
    /\ stopping' = [s \in Shard |-> IF s \in Surplus(r)
                        THEN [stopping[s] EXCEPT !["unregister"] = @ + 1] ELSE stopping[s]]
    /\ expected' = [expected EXCEPT ![r] = NotRunning]
    /\ UNCHANGED <<wanted, created, up, runningShards, shardRegistry, restarts>>

Moved(steps, s, from, to) ==
    [steps EXCEPT ![s][from] = @ - 1, ![s][to] = @ + 1]
Ended(steps, s, from) == [steps EXCEPT ![s][from] = @ - 1]

(* startShard.  A shard that dragonboat already runs is an error, and the  *)
(* goroutine ends.                                                         *)
StartPartitionShard(s) ==
    /\ starting[s]["start"] > 0
    /\ starting[s]["register"] < MaxGoroutines
    /\ up' = up \cup {s}
    /\ starting' = IF s \in up THEN Ended(starting, s, "start")
                   ELSE Moved(starting, s, "start", "register")
    /\ UNCHANGED <<wanted, created, runningShards, shardRegistry, expected, stopping, restarts>>

StartPartitionReplica(s) ==
    /\ starting[s]["register"] > 0
    /\ starting[s]["record"] < MaxGoroutines
    /\ shardRegistry' = s
    /\ starting' = Moved(starting, s, "register", "record")
    /\ UNCHANGED <<wanted, created, up, runningShards, expected, stopping, restarts>>

RecordRunning(s) ==
    /\ starting[s]["record"] > 0
    /\ runningShards' = runningShards \cup {s}
    /\ starting' = Ended(starting, s, "record")
    /\ UNCHANGED <<wanted, created, up, shardRegistry, expected, stopping, restarts>>

(* stopShard.  StopPartitionReplica deletes the entry of the key, whatever *)
(* shard it names; stopping a shard that is not up is only logged.  The    *)
(* directory removed at the end is not the one the shard uses.             *)
StopPartitionReplica(s) ==
    /\ stopping[s]["unregister"] > 0
    /\ stopping[s]["stop"] < MaxGoroutines
    /\ shardRegistry' = 0
    /\ stopping' = Moved(stopping, s, "unregister", "stop")
    /\ UNCHANGED <<wanted, created, up, runningShards, expected, starting, restarts>>

StopPartitionShard(s) ==
    /\ stopping[s]["stop"] > 0
    /\ stopping[s]["forget"] < MaxGoroutines
    /\ up' = up \ {s}
    /\ stopping' = Moved(stopping, s, "stop", "forget")
    /\ UNCHANGED <<wanted, created, runningShards, shardRegistry, expected, starting, restarts>>

ForgetRunning(s) ==
    /\ stopping[s]["forget"] > 0
    /\ runningShards' = runningShards \ {s}
    /\ stopping' = Ended(stopping, s, "forget")
    /\ UNCHANGED <<wanted, created, up, shardRegistry, expected, starting, restarts>>

-----------------------------------------------------------------------------
(* The broker stops and starts again: goroutines and maps are gone and no  *)
(* shard is up until a reconciliation starts it.                           *)
BrokerRestart ==
    /\ restarts < MaxRestarts
    /\ restarts' = restarts + 1
    /\ up' = {}
    /\ runningShards' = {}
    /\ shardRegistry' = 0
    /\ expected' = [r \in Reconciler |-> NotRunning]
    /\ starting' = NoneStarting
    /\ stopping' = NoneStopping
    /\ UNCHANGED <<wanted, created>>

Reconcile(r) == ReconcileLookup(r) \/ ReconcileSpawn(r)
Starting(s) == StartPartitionShard(s) \/ StartPartitionReplica(s) \/ RecordRunning(s)
Stopping(s) == StopPartitionReplica(s) \/ StopPartitionShard(s) \/ ForgetRunning(s)

Next ==
    \/ CreateTopic \/ DeleteTopic \/ BrokerRestart
    \/ \E r \in Reconciler : Reconcile(r)
    \/ \E s \in Shard : Starting(s) \/ Stopping(s)

Spec == Init /\ [][Next]_vars

(* The reconcile ticker ticks for ever and every goroutine is scheduled.   *)
FairSpec ==
    /\ Spec
    /\ \A r \in Reconciler : WF_vars(ReconcileLookup(r)) /\ WF_vars(ReconcileSpawn(r))
    /\ \A s \in Shard :
          /\ WF_vars(StartPartitionShard(s)) /\ WF_vars(StartPartitionReplica(s))
          /\ WF_vars(RecordRunning(s))
          /\ WF_vars(StopPartitionReplica(s)) /\ WF_vars(StopPartitionShard(s))
          /\ WF_vars(ForgetRunning(s))

-----------------------------------------------------------------------------
(* Types of runningShards, shardRegistry and the goroutines; the registry  *)
(* names only shards that were handed out.                                 *)
TypeOK ==
    /\ created \in 0 .. MaxShard
    /\ wanted \in 0 .. created
    /\ up \subseteq 1 .. created
    /\ runningShards \subseteq 1 .. created
    /\ shardRegistry \in 0 .. created
    /\ expected \in [Reconciler -> SUBSET (0 .. created)]
    /\ starting \in [Shard -> [StartStep -> 0 .. MaxGoroutines]]
    /\ stopping \in [Shard -> [StopStep -> 0 .. MaxGoroutines]]
    /\ restarts \in 0 .. MaxRestarts

(* No goroutine of stopShard works on the shard the metadata wants, though *)
(* reconcileOnce compares runningShards with lookups made before it took   *)
(* the lock (docs/design/04-cluster-coordinator.md: it "detects shards in  *)
(* `runningShards` with no corresponding `PartitionMeta` and stops them"). *)
WantedShardNotStopped ==
    \A s \in Wanted, x \in StopStep : stopping[s][x] = 0

(* Once topics stop changing, the node runs the shard the metadata wants   *)
(* and no other, and knows it, however the goroutines interleave           *)
(* (reconcileOnce, startShard, stopShard).                                 *)
ShardsConverge == <>[](runningShards = Wanted /\ up = Wanted)

(* Once topics stop changing, requests for the partition are routed to its *)
(* shard (leaderCheck reads shardRegistry): docs/design/05-data-           *)
(* coordinator.md says an absent entry "occurs briefly after topic         *)
(* creation before the reconcile goroutine runs".                          *)
RegistryConverges == <>[](shardRegistry = wanted)

=============================================================================
