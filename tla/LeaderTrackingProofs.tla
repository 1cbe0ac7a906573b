------------------------ MODULE LeaderTrackingProofs ------------------------
(***************************************************************************)
(* Proof that leader tracking only ever proposes what the metadata state   *)
(* machine expects, and that a node never takes a leadership for recorded  *)
(* that the metadata does not have, for any number of nodes, topics,       *)
(* elections, lost or late proposals and restarts.                         *)
(***************************************************************************)
EXTENDS LeaderTracking, MetadataTopicsProofs

(* A leadership that was won, and a proposal that reports one.             *)
Won == [nodeID : NodeID, term : 1 .. MaxEpoch]
WonProposal == [info : Info, leader : Won]

TrackTypes ==
    /\ elected \subseteq [shard : ShardID, leader : Won]
    /\ view \in [NodeID -> [ShardID -> Won \cup {Unknown}]]
    /\ runningShards \in [NodeID -> SUBSET Info]
    /\ todo \in [NodeID -> SUBSET Info]
    /\ proposal \in [NodeID -> WonProposal \cup {NoProposal}]
    /\ lastKnownLeader \in [NodeID -> [ShardID -> Won \cup {Unknown}]]
    /\ late \subseteq WonProposal

(* A shard that elected leaders has a latest one.                          *)
LatestExists ==
    \A s \in ShardID : Leaders(s) # {} =>
        \E l \in Leaders(s) : \A m \in Leaders(s) : m.term <= l.term

ShardsBounded == nextShardID <= MaxShardID + 1

(* The shard of i was handed out, and to no other partition than its key.  *)
Names(i) ==
    /\ i.shard \in issued
    /\ \A k \in PartitionKey :
          (partitions[k] # Absent /\ partitions[k].ShardID = i.shard) => k = i.key

(* What a node runs, has left to visit or has proposed names a partition   *)
(* by a shard that is that partition's alone.                              *)
InfosName ==
    \A n \in NodeID :
        /\ \A i \in runningShards[n] : Names(i)
        /\ \A i \in todo[n] : Names(i)
        /\ proposal[n] # NoProposal => Names(proposal[n].info)

(* A node remembers leaders of shards that exist or existed.               *)
RememberedIssued ==
    \A n \in NodeID, s \in ShardID : lastKnownLeader[n][s].term > 0 => s \in issued

TrackingInv ==
    /\ FSMInv /\ ShardsBounded
    /\ TrackTypes /\ LatestExists
    /\ InfosName /\ RememberedIssued
    /\ RememberedIsRecorded

(* Unknown is no leadership that was won, and NoProposal no proposal.      *)
LEMMA NothingIsNothing ==
    /\ Unknown \notin Won /\ NoProposal \notin WonProposal
    /\ Unknown.term = 0 /\ Unknown.nodeID = NoNode
    /\ \A l \in Won : l.term \in Nat /\ l.term > 0
  BY MetadataAssumption DEF Unknown, Won, NoProposal, WonProposal

(* The latest leader of a shard is Unknown or was won.                     *)
LEMMA CurrentType ==
    ASSUME TrackTypes, LatestExists, NEW s \in ShardID
    PROVE  /\ Current(s) \in Won \cup {Unknown}
           /\ Current(s).term \in Nat
           /\ \A m \in Leaders(s) : m \in Won /\ m.term <= Current(s).term
<1>1. \A m \in Leaders(s) : m \in Won BY DEF TrackTypes, Leaders
<1>2. CASE Leaders(s) = {} BY <1>2, NothingIsNothing DEF Current
<1>3. CASE Leaders(s) # {}
  <2>1. /\ Current(s) \in Leaders(s)
        /\ \A m \in Leaders(s) : m.term <= Current(s).term
    BY <1>3 DEF Current, LatestExists
  <2> QED BY <1>1, <2>1, NothingIsNothing
<1> QED BY <1>2, <1>3

(* The initial state satisfies the invariant.                              *)
LEMMA TrackingInit == Init => TrackingInv
<1> SUFFICES ASSUME Init PROVE TrackingInv OBVIOUS
<1>1. FSMInv BY FSMInitInv DEF Init
<1>2. ShardsBounded BY MetadataAssumption DEF Init, FSMInit, ShardsBounded
<1>3. TrackTypes BY DEF Init, TrackTypes
<1>4. LatestExists BY DEF Init, LatestExists, Leaders
<1>5. InfosName BY DEF Init, InfosName
<1>6. RememberedIssued BY NothingIsNothing DEF Init, RememberedIssued
<1>7. RememberedIsRecorded BY DEF Init, FSMInit, RememberedIsRecorded
<1> QED BY <1>1, <1>2, <1>3, <1>4, <1>5, <1>6, <1>7 DEF TrackingInv

(* A proposal that commits is a command the state machine expects.         *)
LEMMA CommitIsCommand ==
    ASSUME NEW p \in WonProposal, Commit(p)
    PROVE  AssignPartitionLeader /\ UNCHANGED <<nextShardID, issued>>
<1>1. /\ p.info.key \in PartitionKey
      /\ p.leader.nodeID \in NodeID /\ p.leader.term \in 1 .. MaxEpoch
  BY DEF WonProposal, Won, Info
<1>2. AssignPartitionLeader BY <1>1 DEF Commit, AssignPartitionLeader
<1>3. UNCHANGED <<nextShardID, issued>>
  BY DEF Commit, ApplyAssignPartitionLeader, fsmVars
<1> QED BY <1>2, <1>3

(* Creating a topic hands out shard IDs within the bound, and only adds to *)
(* those handed out.                                                       *)
LEMMA CreateIssues ==
    ASSUME ShardsBounded, CreateTopic
    PROVE  ShardsBounded' /\ issued \subseteq issued'
<1> PICK t \in TopicName, rf \in ReplicationFactor, ret \in Retention,
         count \in 1 .. MaxPartitions, replicas \in ReplicaLists :
         ApplyCreateTopic(t, count, rf, ret, replicas)
  BY DEF CreateTopic
<1> QED BY DEF ApplyCreateTopic, ShardsBounded, fsmVars

(* So does deleting one, which hands out none.                             *)
LEMMA DeleteIssues ==
    ASSUME ShardsBounded, DeleteTopic
    PROVE  ShardsBounded' /\ issued \subseteq issued'
<1> PICK t \in TopicName : ApplyDeleteTopic(t) BY DEF DeleteTopic
<1> QED BY DEF ApplyDeleteTopic, ShardsBounded, fsmVars

(* Every step is a step of the metadata state machine or leaves it alone.  *)
LEMMA StepIsCommand ==
    ASSUME TrackingInv, [Next]_vars
    PROVE  /\ [FSMNext]_fsmVars
           /\ ShardsBounded' /\ issued \subseteq issued'
<1>t. /\ ShardsBounded /\ late \subseteq WonProposal
      /\ proposal \in [NodeID -> WonProposal \cup {NoProposal}]
  BY DEF TrackingInv, TrackTypes
<1>u. ASSUME UNCHANGED fsmVars PROVE ShardsBounded' /\ issued \subseteq issued'
  BY <1>t, <1>u DEF fsmVars, ShardsBounded
<1>1. CASE UNCHANGED vars BY <1>1, <1>u DEF vars
<1>2. CASE TopicChange
  BY <1>2, <1>t, CreateIssues, DeleteIssues DEF TopicChange, FSMNext
<1>3. CASE LateCommit
  <2> PICK p \in late : Commit(p) BY <1>3 DEF LateCommit
  <2> QED BY <1>t, CommitIsCommand DEF FSMNext, ShardsBounded
<1>4. ASSUME NEW n \in NodeID, SweepPropose(n)
      PROVE  [FSMNext]_fsmVars /\ ShardsBounded' /\ issued \subseteq issued'
  <2>1. proposal[n] \in WonProposal /\ Commit(proposal[n])
    BY <1>4, <1>t DEF SweepPropose
  <2> QED BY <1>t, <2>1, CommitIsCommand DEF FSMNext, ShardsBounded
<1>5. ASSUME NEW n \in NodeID,
             Raft(n) \/ Shards(n) \/ SweepStart(n) \/ SweepVisit(n)
                \/ SweepTimeout(n) \/ NodeRestart(n)
      PROVE  UNCHANGED fsmVars
  BY <1>5 DEF Raft, Elect, WinElection, LearnLeader, Shards, StartShard, StopShard,
              SweepStart, SweepVisit, SweepTimeout, NodeRestart
<1> QED BY <1>u, <1>1, <1>2, <1>3, <1>4, <1>5 DEF Next, Sweep

(* What a step leaves of a partition whose shard was handed out before: it *)
(* was there, under the same shard, with no newer epoch.                   *)
LEMMA OldShards ==
    ASSUME TrackingInv, [Next]_vars, NEW k \in PartitionKey, partitions'[k] # Absent,
           partitions'[k].ShardID \in issued
    PROVE  /\ partitions[k] # Absent
           /\ partitions[k].ShardID = partitions'[k].ShardID
           /\ partitions[k].LeaderEpoch \in Nat /\ partitions'[k].LeaderEpoch \in Nat
           /\ partitions[k].LeaderEpoch <= partitions'[k].LeaderEpoch
<1>1. FSMInv /\ FSMInv' /\ PartitionStep
  BY StepIsCommand, FSMNextInv DEF TrackingInv
<1>2. partitions[k] # Absent /\ partitions[k].ShardID = partitions'[k].ShardID
  BY <1>1 DEF PartitionStep
<1>3. partitions[k].LeaderEpoch \in Nat /\ partitions'[k].LeaderEpoch \in Nat
  BY <1>1, <1>2 DEF FSMInv, FSMTypeOK, PartitionMeta
<1>4. partitions[k].LeaderEpoch <= partitions'[k].LeaderEpoch
  BY <1>1, <1>3 DEF PartitionStep
<1> QED BY <1>2, <1>3, <1>4

(* A shard that is a partition's alone stays so.                           *)
LEMMA NamesStable ==
    ASSUME TrackingInv, [Next]_vars, NEW i, Names(i)
    PROVE  Names(i)'
<1>1. i.shard \in issued' BY StepIsCommand DEF Names
<1>2. ASSUME NEW k \in PartitionKey, partitions'[k] # Absent,
             partitions'[k].ShardID = i.shard
      PROVE  k = i.key
  BY <1>2, OldShards DEF Names
<1> QED BY <1>1, <1>2 DEF Names

(* An election adds a later leader than any before it.                     *)
LEMMA ElectionStep ==
    ASSUME TrackTypes, LatestExists, NEW n \in NodeID, NEW i \in Info, WinElection(n, i)
    PROVE  /\ elected' \subseteq [shard : ShardID, leader : Won]
           /\ LatestExists'
<1> DEFINE won == [nodeID |-> n, term |-> Current(i.shard).term + 1]
<1>1. i.shard \in ShardID BY DEF Info
<1>2. Current(i.shard).term \in Nat /\ Current(i.shard).term < MaxEpoch
  BY <1>1, CurrentType DEF WinElection
<1>3. won \in Won BY <1>2, MetadataAssumption DEF Won
<1>4. elected' = elected \cup {[shard |-> i.shard, leader |-> won]} BY DEF WinElection
<1>5. elected' \subseteq [shard : ShardID, leader : Won]
  BY <1>1, <1>3, <1>4 DEF TrackTypes
<1>6. LatestExists'
  <2> SUFFICES ASSUME NEW s \in ShardID, Leaders(s)' # {}
               PROVE  \E l \in Leaders(s)' : \A m \in Leaders(s)' : m.term <= l.term
    BY DEF LatestExists
  <2>1. CASE s = i.shard
    <3>1. Leaders(s)' = Leaders(s) \cup {won}
      <4> HIDE DEF won
      <4> DEFINE e == [shard |-> s, leader |-> won]
      <4>1. elected' = elected \cup {e} /\ e.shard = s /\ e.leader = won
        BY <1>4, <2>1
      <4> HIDE DEF e
      <4>2. \A l : l \in Leaders(s)' <=> l \in Leaders(s) \/ l = won
        BY <4>1 DEF Leaders
      <4> QED BY <4>2
    <3>2. won.term = Current(s).term + 1 BY <2>1
    <3>c. Current(s).term \in Nat BY <1>2, <2>1
    <3>3. \A m \in Leaders(s) : m.term \in Nat /\ m.term <= Current(s).term
      BY CurrentType, NothingIsNothing
    <3>4. \A m \in Leaders(s) : m.term <= won.term BY <3>2, <3>3, <3>c
    <3> HIDE DEF won
    <3>5. \A m \in Leaders(s)' : m.term <= won.term BY <3>1, <3>2, <3>4, <3>c
    <3> QED BY <3>1, <3>5
  <2>2. CASE s # i.shard
    <3>1. Leaders(s)' = Leaders(s) BY <1>4, <2>2 DEF Leaders
    <3> QED BY <3>1 DEF LatestExists
  <2> QED BY <2>1, <2>2
<1> QED BY <1>5, <1>6

(* A step without an election keeps the latest leaders.                    *)
LEMMA NoElection == LatestExists /\ elected' = elected => LatestExists'
  BY DEF LatestExists, Leaders

(* Every step keeps the types.                                             *)
LEMMA TypesStep ==
    ASSUME TrackingInv, [Next]_vars
    PROVE  TrackTypes' /\ LatestExists'
<1>t. TrackTypes /\ LatestExists BY DEF TrackingInv
<1>1. CASE UNCHANGED vars
  BY <1>1, <1>t, NoElection DEF vars, trackVars, TrackTypes
<1>2. CASE TopicChange BY <1>2, <1>t, NoElection DEF TopicChange, trackVars, TrackTypes
<1>3. CASE LateCommit
  <2>1. /\ late' \subseteq late
        /\ UNCHANGED <<elected, view, runningShards, todo, proposal, lastKnownLeader>>
    BY <1>3 DEF LateCommit
  <2> QED BY <1>t, <2>1, NoElection DEF TrackTypes
<1>4. ASSUME NEW n \in NodeID, Elect(n) PROVE TrackTypes' /\ LatestExists'
  <2> PICK i \in runningShards[n] : WinElection(n, i) BY <1>4 DEF Elect
  <2>1. i \in Info BY <1>t DEF TrackTypes
  <2>2. elected' \subseteq [shard : ShardID, leader : Won] /\ LatestExists'
    BY <1>t, <2>1, ElectionStep
  <2>3. UNCHANGED <<view, runningShards, todo, proposal, lastKnownLeader, late>>
    BY DEF WinElection
  <2> QED BY <1>t, <2>2, <2>3 DEF TrackTypes
<1>5. ASSUME NEW n \in NodeID, LearnLeader(n) PROVE TrackTypes' /\ LatestExists'
  <2> PICK i \in runningShards[n] :
          view' = [view EXCEPT ![n][i.shard] = Current(i.shard)]
    BY <1>5, Zenon DEF LearnLeader
  <2>1. i.shard \in ShardID BY <1>t DEF TrackTypes, Info
  <2>2. Current(i.shard) \in Won \cup {Unknown} BY <1>t, <2>1, CurrentType
  <2>3. view' \in [NodeID -> [ShardID -> Won \cup {Unknown}]]
    BY <1>t, <2>1, <2>2 DEF TrackTypes
  <2>4. UNCHANGED <<elected, runningShards, todo, proposal, lastKnownLeader, late>>
    BY <1>5 DEF LearnLeader
  <2> QED BY <1>t, <2>3, <2>4, NoElection DEF TrackTypes
<1>6. ASSUME NEW n \in NodeID, Shards(n) PROVE TrackTypes' /\ LatestExists'
  <2>1. /\ runningShards' \in [NodeID -> SUBSET Info]
        /\ UNCHANGED <<elected, view, todo, proposal, lastKnownLeader, late>>
    <3>1. CASE StartShard(n)
      BY <1>t, <3>1 DEF StartShard, Expected, TrackTypes
    <3>2. CASE StopShard(n)
      BY <1>t, <3>2 DEF StopShard, TrackTypes
    <3> QED BY <1>6, <3>1, <3>2, Zenon DEF Shards
  <2> QED BY <1>t, <2>1, NoElection DEF TrackTypes
<1>7. ASSUME NEW n \in NodeID, SweepStart(n) PROVE TrackTypes' /\ LatestExists'
  BY <1>7, <1>t, NoElection DEF SweepStart, TrackTypes
<1>8. ASSUME NEW n \in NodeID, SweepVisit(n) PROVE TrackTypes' /\ LatestExists'
  <2> PICK i \in todo[n] :
          /\ todo' = [todo EXCEPT ![n] = @ \ {i}]
          /\ proposal' = IF \/ i \notin runningShards[n]
                            \/ view[n][i.shard].term = 0
                            \/ SameLeadership(n, i.shard)
                         THEN proposal
                         ELSE [proposal EXCEPT ![n] =
                                  [info |-> i, leader |-> view[n][i.shard]]]
    BY <1>8, Zenon DEF SweepVisit, Visited, Report
  <2>1. i \in Info /\ i.shard \in ShardID BY <1>t DEF TrackTypes, Info
  <2>2. view[n][i.shard] \in Won \cup {Unknown} BY <1>t, <2>1 DEF TrackTypes
  <2>3. view[n][i.shard].term # 0 => view[n][i.shard] \in Won
    BY <2>2, NothingIsNothing
  <2>4. proposal' \in [NodeID -> WonProposal \cup {NoProposal}]
    <3>1. CASE proposal' = proposal BY <1>t, <3>1 DEF TrackTypes
    <3>2. CASE /\ view[n][i.shard].term # 0
               /\ proposal' = [proposal EXCEPT ![n] =
                                   [info |-> i, leader |-> view[n][i.shard]]]
      <4>1. [info |-> i, leader |-> view[n][i.shard]] \in WonProposal
        BY <2>1, <2>3, <3>2, Zenon DEF WonProposal
      <4> QED BY <1>t, <3>2, <4>1 DEF TrackTypes
    <3> QED BY <3>1, <3>2
  <2>5. todo' \in [NodeID -> SUBSET Info] BY <1>t DEF TrackTypes
  <2>6. UNCHANGED <<elected, view, runningShards, lastKnownLeader, late>>
    BY <1>8 DEF SweepVisit
  <2> QED BY <1>t, <2>4, <2>5, <2>6, NoElection DEF TrackTypes
<1>p. ASSUME NEW n \in NodeID, proposal[n] # NoProposal
      PROVE  /\ proposal[n] \in WonProposal
             /\ proposal[n].info.shard \in ShardID /\ proposal[n].leader \in Won
  BY <1>p, <1>t DEF TrackTypes, WonProposal, Info
<1>9. ASSUME NEW n \in NodeID, SweepPropose(n) PROVE TrackTypes' /\ LatestExists'
  <2>1. lastKnownLeader' \in [NodeID -> [ShardID -> Won \cup {Unknown}]]
    BY <1>9, <1>t, <1>p DEF SweepPropose, TrackTypes
  <2>2. /\ proposal' = [proposal EXCEPT ![n] = NoProposal]
        /\ UNCHANGED <<elected, view, runningShards, todo, late>>
    BY <1>9 DEF SweepPropose
  <2> QED BY <1>t, <2>1, <2>2, NoElection DEF TrackTypes
<1>10. ASSUME NEW n \in NodeID, SweepTimeout(n) PROVE TrackTypes' /\ LatestExists'
  <2>1. late' \subseteq WonProposal BY <1>10, <1>t, <1>p DEF SweepTimeout, TrackTypes
  <2>2. /\ proposal' = [proposal EXCEPT ![n] = NoProposal]
        /\ UNCHANGED <<elected, view, runningShards, todo, lastKnownLeader>>
    BY <1>10 DEF SweepTimeout
  <2> QED BY <1>t, <2>1, <2>2, NoElection DEF TrackTypes
<1>11. ASSUME NEW n \in NodeID, NodeRestart(n) PROVE TrackTypes' /\ LatestExists'
  <2>1. late' \subseteq WonProposal BY <1>11, <1>t, <1>p DEF NodeRestart, TrackTypes
  <2>2. /\ view' = [view EXCEPT ![n] = [s \in ShardID |-> Unknown]]
        /\ runningShards' = [runningShards EXCEPT ![n] = {}]
        /\ todo' = [todo EXCEPT ![n] = {}]
        /\ lastKnownLeader' = [lastKnownLeader EXCEPT ![n] = [s \in ShardID |-> Unknown]]
        /\ proposal' = [proposal EXCEPT ![n] = NoProposal]
        /\ elected' = elected
    BY <1>11 DEF NodeRestart
  <2> QED BY <1>t, <2>1, <2>2, NoElection DEF TrackTypes
<1> QED BY <1>1, <1>2, <1>3, <1>4, <1>5, <1>6, <1>7, <1>8, <1>9, <1>10, <1>11
        DEF Next, Raft, Sweep

(* A partition's own shard names it.                                       *)
LEMMA ExpectedNames ==
    ASSUME FSMInv, NEW n \in NodeID, NEW i \in Expected(n)
    PROVE  Names(i)
<1>1. /\ i.key \in PartitionKey /\ partitions[i.key] # Absent
      /\ partitions[i.key].ShardID = i.shard
  BY DEF Expected, Info
<1> QED BY <1>1 DEF FSMInv, ShardCounterAhead, ShardIDsUnique, Names

(* Every step keeps that shards name their partitions.                     *)
LEMMA InfosStep ==
    ASSUME TrackingInv, [Next]_vars
    PROVE  InfosName'
<1>t. TrackTypes /\ InfosName /\ FSMInv BY DEF TrackingInv
<1>s. \A i : Names(i) => Names(i)' BY NamesStable
<1>r. \A m \in NodeID : \A i \in runningShards'[m] : Names(i)
  <2>1. CASE runningShards' = runningShards BY <1>t, <2>1 DEF InfosName
  <2>2. ASSUME NEW n \in NodeID, Shards(n)
        PROVE  \A m \in NodeID : \A i \in runningShards'[m] : Names(i)
    BY <1>t, <2>2, ExpectedNames DEF Shards, StartShard, StopShard, InfosName, TrackTypes
  <2>3. ASSUME NEW n \in NodeID, NodeRestart(n)
        PROVE  \A m \in NodeID : \A i \in runningShards'[m] : Names(i)
    BY <1>t, <2>3 DEF NodeRestart, InfosName, TrackTypes
  <2> QED BY <2>1, <2>2, <2>3
          DEF Next, vars, trackVars, TopicChange, LateCommit, Raft, Elect, WinElection,
              LearnLeader, Sweep, SweepStart, SweepVisit, SweepPropose, SweepTimeout
<1>d. \A m \in NodeID : \A i \in todo'[m] : Names(i)
  <2>1. CASE todo' = todo BY <1>t, <2>1 DEF InfosName
  <2>2. ASSUME NEW n \in NodeID, SweepStart(n) \/ SweepVisit(n) \/ NodeRestart(n)
        PROVE  \A m \in NodeID : \A i \in todo'[m] : Names(i)
    <3>1. /\ \A m \in NodeID \ {n} : todo'[m] = todo[m]
          /\ todo'[n] \subseteq todo[n] \cup runningShards[n]
      <4>1. CASE SweepStart(n) BY <1>t, <4>1 DEF SweepStart, TrackTypes
      <4>2. CASE SweepVisit(n) BY <1>t, <4>2 DEF SweepVisit, Visited, TrackTypes
      <4>3. CASE NodeRestart(n) BY <1>t, <4>3 DEF NodeRestart, TrackTypes
      <4> QED BY <2>2, <4>1, <4>2, <4>3, Zenon
    <3>2. \A m \in NodeID : todo'[m] \subseteq todo[m] \cup runningShards[m]
      BY <3>1
    <3> QED BY <1>t, <3>2 DEF InfosName
  <2> QED BY <2>1, <2>2
          DEF Next, vars, trackVars, TopicChange, LateCommit, Raft, Elect, WinElection,
              LearnLeader, Shards, StartShard, StopShard, Sweep, SweepPropose, SweepTimeout
<1>p. \A m \in NodeID : proposal'[m] # NoProposal => Names(proposal'[m].info)
  <2>1. CASE proposal' = proposal BY <1>t, <2>1 DEF InfosName
  <2>2. ASSUME NEW n \in NodeID, proposal' = [proposal EXCEPT ![n] = NoProposal]
        PROVE  \A m \in NodeID : proposal'[m] # NoProposal => Names(proposal'[m].info)
    BY <1>t, <2>2 DEF InfosName, TrackTypes
  <2>3. ASSUME NEW n \in NodeID, SweepVisit(n)
        PROVE  \A m \in NodeID : proposal'[m] # NoProposal => Names(proposal'[m].info)
    <3> PICK i \in todo[n] :
            \/ proposal' = proposal
            \/ proposal' = [proposal EXCEPT ![n] = [info |-> i, leader |-> Report(n, i.shard)]]
      BY <2>3, Zenon DEF SweepVisit
    <3>1. Names(i) BY <1>t DEF InfosName
    <3>2. \A m \in NodeID : \/ proposal'[m] = proposal[m]
                            \/ proposal'[m].info = i
      BY <1>t DEF TrackTypes
    <3>3. \A m \in NodeID : proposal[m] # NoProposal => Names(proposal[m].info)
      BY <1>t DEF InfosName
    <3> QED BY <3>1, <3>2, <3>3, Zenon
  <2> QED BY <2>1, <2>2, <2>3
          DEF Next, vars, trackVars, TopicChange, LateCommit, Raft, Elect, WinElection,
              LearnLeader, Shards, StartShard, StopShard, Sweep, SweepStart, SweepPropose,
              SweepTimeout, NodeRestart
<1> QED BY <1>s, <1>r, <1>d, <1>p DEF InfosName

(* A step changes what a node remembers of a shard by forgetting it, or by *)
(* remembering a proposal that has just been applied.                      *)
LEMMA RememberedChange ==
    ASSUME TrackingInv, [Next]_vars, NEW m \in NodeID, NEW s \in ShardID,
           lastKnownLeader'[m][s] # lastKnownLeader[m][s]
    PROVE  \/ lastKnownLeader'[m][s] = Unknown
           \/ /\ proposal[m] \in WonProposal
              /\ proposal[m].info.shard = s
              /\ lastKnownLeader'[m][s] = proposal[m].leader
              /\ Commit(proposal[m])
<1>t. TrackTypes BY DEF TrackingInv
<1>1. ASSUME NEW n \in NodeID, SweepPropose(n)
      PROVE  /\ proposal[m] \in WonProposal
             /\ proposal[m].info.shard = s
             /\ lastKnownLeader'[m][s] = proposal[m].leader
             /\ Commit(proposal[m])
  <2>1. /\ proposal[n] # NoProposal /\ Commit(proposal[n])
        /\ lastKnownLeader' = [lastKnownLeader EXCEPT
               ![n][proposal[n].info.shard] = proposal[n].leader]
    BY <1>1 DEF SweepPropose
  <2>2. proposal[n] \in WonProposal BY <1>t, <2>1 DEF TrackTypes
  <2>3. m = n /\ proposal[n].info.shard = s BY <1>t, <2>1 DEF TrackTypes
  <2>4. lastKnownLeader'[m][s] = proposal[m].leader BY <1>t, <2>1, <2>3 DEF TrackTypes
  <2> QED BY <2>1, <2>2, <2>3, <2>4
<1>2. ASSUME NEW n \in NodeID, NodeRestart(n)
      PROVE  lastKnownLeader'[m][s] = Unknown
  BY <1>2, <1>t DEF NodeRestart, TrackTypes
<1> QED BY <1>1, <1>2
        DEF Next, vars, trackVars, TopicChange, LateCommit, Raft, Elect, WinElection,
            LearnLeader, Shards, StartShard, StopShard, Sweep, SweepStart, SweepVisit,
            SweepTimeout

(* An applied proposal leaves its term, or a later one, in the partition.  *)
LEMMA CommitRecords ==
    ASSUME FSMInv, NEW p \in WonProposal, Commit(p), partitions'[p.info.key] # Absent
    PROVE  p.leader.term <= partitions'[p.info.key].LeaderEpoch
<1> DEFINE k == p.info.key
<1>1. k \in PartitionKey /\ p.leader.term \in Nat
  BY MetadataAssumption DEF WonProposal, Won, Info
<1>2. CASE AssignPartitionLeaderResult(k, p.leader.term) = "OK"
  <2>1. /\ partitions[k] # Absent
        /\ partitions' = [partitions EXCEPT ![k].LeaderNodeID = p.leader.nodeID,
                                            ![k].LeaderEpoch = p.leader.term]
    BY <1>2 DEF Commit, ApplyAssignPartitionLeader, AssignPartitionLeaderResult
  <2>2. partitions[k] \in PartitionMeta BY <1>1, <2>1 DEF FSMInv, FSMTypeOK
  <2>3. partitions'[k].LeaderEpoch = p.leader.term
    BY <1>1, <2>1, <2>2 DEF FSMInv, FSMTypeOK, PartitionMeta
  <2> QED BY <1>1, <2>3
<1>3. CASE AssignPartitionLeaderResult(k, p.leader.term) # "OK"
  <2>1. partitions' = partitions
    BY <1>3 DEF Commit, ApplyAssignPartitionLeader, fsmVars
  <2> QED BY <1>3, <2>1 DEF AssignPartitionLeaderResult, StaleEpoch
<1> QED BY <1>2, <1>3

(* Every step keeps that what is remembered is recorded.                   *)
LEMMA RememberedStep ==
    ASSUME TrackingInv, [Next]_vars, TrackTypes', FSMInv', ShardsBounded'
    PROVE  RememberedIssued' /\ RememberedIsRecorded'
<1>t. TrackTypes /\ InfosName /\ FSMInv /\ RememberedIssued /\ RememberedIsRecorded
  BY DEF TrackingInv
<1>i. issued \subseteq issued' BY StepIsCommand
<1>n. \A n \in NodeID, s \in ShardID :
         lastKnownLeader'[n][s].term \in Nat /\ lastKnownLeader[n][s].term \in Nat
  BY <1>t, NothingIsNothing DEF TrackTypes
<1>p. ASSUME NEW n \in NodeID, proposal[n] \in WonProposal PROVE Names(proposal[n].info)
  BY <1>p, <1>t, NothingIsNothing DEF InfosName
<1>1. RememberedIssued'
  <2> SUFFICES ASSUME NEW n \in NodeID, NEW s \in ShardID, lastKnownLeader'[n][s].term > 0
               PROVE  s \in issued
    BY <1>i DEF RememberedIssued
  <2>1. CASE lastKnownLeader'[n][s] = lastKnownLeader[n][s]
    BY <1>t, <2>1 DEF RememberedIssued
  <2>2. CASE lastKnownLeader'[n][s] # lastKnownLeader[n][s]
    BY <1>p, <2>2, RememberedChange, NothingIsNothing DEF Names
  <2> QED BY <2>1, <2>2
<1>2. RememberedIsRecorded'
  <2> SUFFICES ASSUME NEW n \in NodeID, NEW k \in PartitionKey, partitions'[k] # Absent
               PROVE  lastKnownLeader'[n][partitions'[k].ShardID].term
                          <= partitions'[k].LeaderEpoch
    BY DEF RememberedIsRecorded
  <2> DEFINE s == partitions'[k].ShardID
  <2>1. s \in ShardID /\ partitions'[k].LeaderEpoch \in Nat
    <3>1. partitions'[k] \in PartitionMeta BY DEF FSMInv, FSMTypeOK
    <3>2. s \in Nat \ {0} /\ partitions'[k].LeaderEpoch \in Nat BY <3>1 DEF PartitionMeta
    <3>3. s < nextShardID' BY DEF FSMInv, ShardCounterAhead
    <3>4. nextShardID' \in Nat /\ nextShardID' <= MaxShardID + 1
      BY DEF FSMInv, FSMTypeOK, ShardsBounded
    <3> HIDE DEF s
    <3> QED BY <3>2, <3>3, <3>4, MetadataAssumption DEF ShardID
  <2>2. CASE lastKnownLeader'[n][s].term = 0 BY <2>1, <2>2
  <2>3. CASE lastKnownLeader'[n][s].term > 0 /\ lastKnownLeader'[n][s] = lastKnownLeader[n][s]
    <3>1. s \in issued BY <1>t, <2>1, <2>3 DEF RememberedIssued
    <3>2. /\ partitions[k] # Absent /\ partitions[k].ShardID = s
          /\ partitions[k].LeaderEpoch \in Nat
          /\ partitions[k].LeaderEpoch <= partitions'[k].LeaderEpoch
      BY <3>1, OldShards
    <3>3. lastKnownLeader[n][s].term <= partitions[k].LeaderEpoch
      BY <1>t, <3>2 DEF RememberedIsRecorded
    <3> QED BY <1>n, <2>1, <2>3, <3>2, <3>3
  <2>4. CASE lastKnownLeader'[n][s].term > 0 /\ lastKnownLeader'[n][s] # lastKnownLeader[n][s]
    <3>1. /\ proposal[n] \in WonProposal /\ proposal[n].info.shard = s
          /\ lastKnownLeader'[n][s] = proposal[n].leader /\ Commit(proposal[n])
      BY <2>1, <2>4, RememberedChange, NothingIsNothing
    <3>2. Names(proposal[n].info) BY <1>p, <3>1
    <3>3. s \in issued BY <3>1, <3>2 DEF Names
    <3>4. partitions[k] # Absent /\ partitions[k].ShardID = s BY <3>3, OldShards
    <3>5. k = proposal[n].info.key BY <3>1, <3>2, <3>4 DEF Names
    <3> QED BY <1>t, <3>1, <3>5, CommitRecords, Zenon
  <2> QED BY <1>n, <2>1, <2>2, <2>3, <2>4
<1> QED BY <1>1, <1>2

(* Every step, stuttering included, preserves the invariant.               *)
LEMMA TrackingNext == TrackingInv /\ [Next]_vars => TrackingInv'
<1> SUFFICES ASSUME TrackingInv, [Next]_vars PROVE TrackingInv' OBVIOUS
<1>1. FSMInv' /\ ShardsBounded' BY StepIsCommand, FSMNextInv DEF TrackingInv
<1>2. TrackTypes' /\ LatestExists' BY TypesStep
<1>3. InfosName' BY InfosStep
<1>4. RememberedIssued' /\ RememberedIsRecorded' BY <1>1, <1>2, RememberedStep
<1> QED BY <1>1, <1>2, <1>3, <1>4 DEF TrackingInv

(* The invariant holds in every reachable state.                           *)
LEMMA TrackingInvariant == Spec => []TrackingInv
  BY TrackingInit, TrackingNext, PTL DEF Spec

(* The coordinators drive the metadata state machine only by commands it   *)
(* expects: a behaviour of sweepLeaders on all nodes, with the topics that *)
(* come and go, is a behaviour of the state machine.                       *)
THEOREM TrackingImplementsFSM == Spec => FSMSpec
<1>1. Init => FSMInit BY DEF Init
<1>2. TrackingInv /\ [Next]_vars => [FSMNext]_fsmVars BY StepIsCommand
<1> QED BY <1>1, <1>2, TrackingInvariant, PTL DEF Spec, FSMSpec

(* A delayed, duplicated or stale report of a leader never undoes a newer  *)
(* one, with proposals that time out and commit late.                      *)
THEOREM TrackedEpochMonotone == Spec => LeaderEpochMonotone
  BY TrackingImplementsFSM, LeaderEpochMonotoneHolds, PTL

(* sweepLeaders never takes a leadership for recorded that the metadata    *)
(* does not have, though it takes a rejection for success and topics may   *)
(* be deleted and created again under a proposal in flight.                *)
THEOREM RememberedIsRecordedHolds == Spec => []RememberedIsRecorded
<1>1. TrackingInv => RememberedIsRecorded BY DEF TrackingInv
<1> QED BY TrackingInvariant, <1>1, PTL

=============================================================================
