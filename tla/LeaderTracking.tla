--------------------------- MODULE LeaderTracking ---------------------------
(***************************************************************************)
(* How the leaders that Raft elects for partition shards reach the         *)
(* metadata: sweepLeaders of the cluster coordinator on every node, over   *)
(* the metadata state machine of MetadataTopics.                           *)
(*                                                                         *)
(* Elections are dragonboat's: at most one leader per term of a shard.  A  *)
(* node's own view (GetLeaderID) may lag behind.  A proposal that times    *)
(* out is dropped by its sender and may still commit, at any later time.   *)
(* Starting and stopping a shard is one step here; ShardLifecycle has the  *)
(* steps of it.                                                            *)
(***************************************************************************)
EXTENDS MetadataTopics, FiniteSets

CONSTANTS
    MaxTimeouts,    \* bound: proposals that time out
    MaxRestarts     \* bound: restarts of a node

ASSUME TrackingAssumption == MaxTimeouts \in Nat /\ MaxRestarts \in Nat

ShardID == 1 .. MaxShardID
Leadership == [nodeID : NodeID \cup {NoNode}, term : 0 .. MaxEpoch]
Unknown == [nodeID |-> NoNode, term |-> 0]
Info == [key : PartitionKey, shard : ShardID]
Proposal == [info : Info, leader : Leadership]
NoProposal == [info |-> Absent, leader |-> Unknown]

VARIABLES
    elected,        \* history: [shard, leader] for every election won
    view,           \* view[n][s]: what GetLeaderID says on n, term 0: invalid
    runningShards,  \* runningShards[n]: shards n runs, with their partition
    todo,           \* todo[n]: shards the running sweep of n has left
    proposal,       \* proposal[n]: the proposal the sweep of n waits for
    lastKnownLeader,\* lastKnownLeader[n][s]
    late,           \* proposals that timed out and are not committed yet
    budget          \* timeouts and restarts left

trackVars == <<elected, view, runningShards, todo, proposal, lastKnownLeader,
               late, budget>>
vars == <<fsmVars, trackVars>>

Init ==
    /\ FSMInit
    /\ elected = {}
    /\ view = [n \in NodeID |-> [s \in ShardID |-> Unknown]]
    /\ runningShards = [n \in NodeID |-> {}]
    /\ todo = [n \in NodeID |-> {}]
    /\ proposal = [n \in NodeID |-> NoProposal]
    /\ lastKnownLeader = [n \in NodeID |-> [s \in ShardID |-> Unknown]]
    /\ late = {}
    /\ budget = [timeouts |-> MaxTimeouts, restarts |-> MaxRestarts]

-----------------------------------------------------------------------------
(* Raft.                                                                   *)
Leaders(s) == {e.leader : e \in {x \in elected : x.shard = s}}
Current(s) ==
    IF Leaders(s) = {} THEN Unknown
    ELSE CHOOSE l \in Leaders(s) : \A m \in Leaders(s) : m.term <= l.term

WinElection(n, i) ==
    /\ Current(i.shard).term < MaxEpoch
    /\ elected' = elected \cup
          {[shard |-> i.shard,
            leader |-> [nodeID |-> n, term |-> Current(i.shard).term + 1]]}
    /\ UNCHANGED <<fsmVars, view, runningShards, todo, proposal, lastKnownLeader,
                   late, budget>>
Elect(n) == \E i \in runningShards[n] : WinElection(n, i)
FirstElection(n) ==
    \E i \in runningShards[n] : Current(i.shard) = Unknown /\ WinElection(n, i)

LearnLeader(n) ==
    /\ \E i \in runningShards[n] :
          /\ view[n][i.shard] # Current(i.shard)
          /\ view' = [view EXCEPT ![n][i.shard] = Current(i.shard)]
    /\ UNCHANGED <<fsmVars, elected, runningShards, todo, proposal,
                   lastKnownLeader, late, budget>>

-----------------------------------------------------------------------------
(* The shards a node runs follow the metadata (reconcileOnce).             *)
Expected(n) ==
    {i \in Info : /\ partitions[i.key] # Absent
                  /\ partitions[i.key].ShardID = i.shard
                  /\ n \in partitions[i.key].ReplicaNodeIDs}
StartShard(n) ==
    /\ \E i \in Expected(n) \ runningShards[n] :
          runningShards' = [runningShards EXCEPT ![n] = @ \cup {i}]
    /\ UNCHANGED <<fsmVars, elected, view, todo, proposal, lastKnownLeader,
                   late, budget>>
StopShard(n) ==
    /\ \E i \in runningShards[n] \ Expected(n) :
          runningShards' = [runningShards EXCEPT ![n] = @ \ {i}]
    /\ UNCHANGED <<fsmVars, elected, view, todo, proposal, lastKnownLeader,
                   late, budget>>

-----------------------------------------------------------------------------
(* sweepLeaders: a copy of runningShards is taken under the lock, then the *)
(* shards are visited one by one without it.                               *)
SweepStart(n) ==
    /\ todo[n] = {} /\ proposal[n] = NoProposal
    /\ runningShards[n] # {}
    /\ todo' = [todo EXCEPT ![n] = runningShards[n]]
    /\ UNCHANGED <<fsmVars, elected, view, runningShards, proposal,
                   lastKnownLeader, late, budget>>

(* A stopped shard makes GetLeaderID fail; an election in progress and a   *)
(* leadership already recorded are passed over too.                        *)
SameLeader(n, s) == view[n][s].nodeID = lastKnownLeader[n][s].nodeID
SameLeadership(n, s) == view[n][s] = lastKnownLeader[n][s]
ReportSelf(n, s) == [nodeID |-> n, term |-> view[n][s].term]
Report(n, s) == view[n][s]
Visited(n, i) == todo' = [todo EXCEPT ![n] = @ \ {i}]
SweepVisit(n) ==
    /\ proposal[n] = NoProposal
    /\ \E i \in todo[n] :
          /\ Visited(n, i)
          /\ proposal' = IF \/ i \notin runningShards[n]
                            \/ view[n][i.shard].term = 0
                            \/ SameLeadership(n, i.shard)
                         THEN proposal
                         ELSE [proposal EXCEPT ![n] =
                                  [info |-> i, leader |-> Report(n, i.shard)]]
    /\ UNCHANGED <<fsmVars, elected, view, runningShards, lastKnownLeader,
                   late, budget>>

Commit(p) ==
    ApplyAssignPartitionLeader(p.info.key, p.leader.nodeID, p.leader.term)
(* Any answer of the state machine counts as success, a rejection too.     *)
SweepPropose(n) ==
    /\ proposal[n] # NoProposal
    /\ Commit(proposal[n])
    /\ lastKnownLeader' = [lastKnownLeader EXCEPT
           ![n][proposal[n].info.shard] = proposal[n].leader]
    /\ proposal' = [proposal EXCEPT ![n] = NoProposal]
    /\ UNCHANGED <<elected, view, runningShards, todo, late, budget>>

(* The proposal times out, lost or to be committed later, and the shard    *)
(* waits for the next sweep.                                               *)
TimeoutRemembers(n) ==
    /\ proposal[n] # NoProposal
    /\ budget.timeouts > 0
    /\ budget' = [budget EXCEPT !.timeouts = @ - 1]
    /\ late' \in {late, late \cup {proposal[n]}}
    /\ lastKnownLeader' = [lastKnownLeader EXCEPT
           ![n][proposal[n].info.shard] = proposal[n].leader]
    /\ proposal' = [proposal EXCEPT ![n] = NoProposal]
    /\ UNCHANGED <<fsmVars, elected, view, runningShards, todo>>
SweepTimeout(n) ==
    /\ proposal[n] # NoProposal
    /\ budget.timeouts > 0
    /\ budget' = [budget EXCEPT !.timeouts = @ - 1]
    /\ late' \in {late, late \cup {proposal[n]}}
    /\ proposal' = [proposal EXCEPT ![n] = NoProposal]
    /\ UNCHANGED <<fsmVars, elected, view, runningShards, todo, lastKnownLeader>>

LateCommit ==
    /\ \E p \in late : Commit(p) /\ late' = late \ {p}
    /\ UNCHANGED <<elected, view, runningShards, todo, proposal,
                   lastKnownLeader, budget>>

(* The node's memory is gone; a proposal it waited for may still commit.   *)
NodeRestart(n) ==
    /\ budget.restarts > 0
    /\ budget' = [budget EXCEPT !.restarts = @ - 1]
    /\ view' = [view EXCEPT ![n] = [s \in ShardID |-> Unknown]]
    /\ runningShards' = [runningShards EXCEPT ![n] = {}]
    /\ todo' = [todo EXCEPT ![n] = {}]
    /\ lastKnownLeader' = [lastKnownLeader EXCEPT ![n] = [s \in ShardID |-> Unknown]]
    /\ late' \in {late, late \cup ({proposal[n]} \ {NoProposal})}
    /\ proposal' = [proposal EXCEPT ![n] = NoProposal]
    /\ UNCHANGED <<fsmVars, elected>>

-----------------------------------------------------------------------------
TopicChange == (CreateTopic \/ DeleteTopic) /\ UNCHANGED trackVars
Sweep(n) == SweepStart(n) \/ SweepVisit(n) \/ SweepPropose(n) \/ SweepTimeout(n)
Shards(n) == StartShard(n) \/ StopShard(n)
Raft(n) == Elect(n) \/ LearnLeader(n)

Next ==
    \/ TopicChange
    \/ LateCommit
    \/ \E n \in NodeID : Raft(n) \/ Shards(n) \/ Sweep(n) \/ NodeRestart(n)

Spec == Init /\ [][Next]_vars

(* The tickers tick for ever, a shard without a leader elects one, a       *)
(* replica learns it from heartbeats, and a sweep is never starved.        *)
(* Nothing is assumed of late proposals, timeouts and restarts.            *)
FairSpec ==
    /\ Spec
    /\ \A n \in NodeID :
          /\ WF_vars(StartShard(n)) /\ WF_vars(StopShard(n))
          /\ WF_vars(FirstElection(n)) /\ WF_vars(LearnLeader(n))
          /\ WF_vars(SweepStart(n)) /\ WF_vars(SweepVisit(n))
          /\ WF_vars(SweepPropose(n))

-----------------------------------------------------------------------------
(* Types of the coordinator's maps.                                        *)
TypeOK ==
    /\ FSMTypeOK
    /\ elected \subseteq [shard : ShardID, leader : Leadership]
    /\ view \in [NodeID -> [ShardID -> Leadership]]
    /\ runningShards \in [NodeID -> SUBSET Info]
    /\ todo \in [NodeID -> SUBSET Info]
    /\ proposal \in [NodeID -> Proposal \cup {NoProposal}]
    /\ lastKnownLeader \in [NodeID -> [ShardID -> Leadership]]
    /\ late \subseteq Proposal

(* A leadership a node takes for recorded is in the metadata, or a newer   *)
(* one is: sweepLeaders never stops proposing a leader too early, though   *)
(* it treats every answer, a rejection included, as recorded.              *)
RememberedIsRecorded ==
    \A n \in NodeID, k \in PartitionKey :
        partitions[k] # Absent =>
            lastKnownLeader[n][partitions[k].ShardID].term <= partitions[k].LeaderEpoch

(* The leader and epoch stored for a partition are a leader that its own   *)
(* shard elected in that term (docs/design/04-cluster-coordinator.md:      *)
(* "duplicate or stale proposals from multiple nodes are safely ignored"). *)
RecordedLeaderWasElected ==
    \A k \in PartitionKey :
        (partitions[k] # Absent /\ partitions[k].LeaderEpoch > 0) =>
            [nodeID |-> partitions[k].LeaderNodeID, term |-> partitions[k].LeaderEpoch]
                \in Leaders(partitions[k].ShardID)

(* Once elections and topic changes end, the metadata names the leader of  *)
(* every partition, so that clients and leaderCheck find it.               *)
LeaderConverges ==
    <>[](\A k \in PartitionKey :
            partitions[k] # Absent =>
                LET l == Current(partitions[k].ShardID)
                IN /\ partitions[k].LeaderNodeID = l.nodeID
                   /\ partitions[k].LeaderEpoch = l.term)

=============================================================================
