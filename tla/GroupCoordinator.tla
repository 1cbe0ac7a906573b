-------------------------- MODULE GroupCoordinator --------------------------
(***************************************************************************)
(* The group coordinator (internal/coordinator/group/groupcoord.go), the   *)
(* group handlers of the data API that call it, and the part of the        *)
(* consumer client that drives it (join, heartbeat, rejoin, commit, close),*)
(* over one group subscribed to one topic.                                 *)
(*                                                                         *)
(* Every handler reads the metadata state machine, computes, proposes, and *)
(* (for a join) reads again; no lock spans these steps, so each step is an *)
(* action and handlers of different members interleave.  The heartbeat     *)
(* table is memory of one node and does not follow the Raft leader.        *)
(***************************************************************************)
EXTENDS MetadataGroups, RangeAssign

CONSTANTS
    Node,           \* broker nodes
    InitialCount,   \* partitions of the topic at the start
    MaxGeneration,  \* bound: no join starts at this generation or above
    MaxInFlight,    \* bound: membership proposals pending at once
    Budget          \* bound: [failover, lost, topic] events in a behaviour

ASSUME GroupAssumption ==
    /\ Member \subseteq Nat
    /\ MaxPartitions \in Nat
    /\ InitialCount \in 0 .. MaxPartitions
    /\ MaxGeneration \in Nat
    /\ MaxInFlight \in Nat
    /\ Offset \subseteq Nat
    /\ Budget \in [{"failover", "lost", "topic"} -> Nat]

VARIABLES
    partCount,      \* partitions of the topic; 0: the topic does not exist
    leader,         \* node that leads the metadata shard
    client,         \* consumer: new, joining, active, rejoining, gone
    cgen,           \* consumer's generationID
    cassign,        \* consumer's assignedPartitions
    join,           \* JoinGroup handler running for a member
    leave,          \* LeaveGroup handler running for a member
    commit,         \* CommitOffset handler running for a member
    lastHeartbeat,  \* per node: entry of a member: none, fresh, expired
    sweep,          \* per node: the sweepOnce that is running
    late,           \* commands whose proposer gave up, that may still commit
    budget          \* what is left of Budget

coordVars == <<partCount, leader, client, cgen, cassign, join, leave, commit,
               lastHeartbeat, sweep, late, budget>>
vars == <<groupVars, coordVars>>

(* A handler: idle, about to propose, or done proposing.                   *)
Idle == [stage |-> "idle"]
Handler == {Idle} \cup
    [stage : {"proposing", "replying"}, node : Node,
     asn : [Member -> SUBSET Partition]]
Command ==
    [kind : {"join", "leave"}, m : Member, asn : [Member -> SUBSET Partition]]
    \cup [kind : {"commit"}, gen : Nat, p : Partition, o : Offset]
CommitHandler == {Idle} \cup
    [stage : {"proposing"}, gen : Nat, p : Partition, o : Offset]
Sweep == {Idle} \cup
    [stage : {"scan"}, todo : SUBSET Member] \cup
    [stage : {"evict", "forget"}, todo : SUBSET Member, victim : Member,
     asn : [Member -> SUBSET Partition]]

Init ==
    /\ GroupInit
    /\ partCount = InitialCount
    /\ leader \in Node
    /\ client = [m \in Member |-> "new"]
    /\ cgen = [m \in Member |-> 0]
    /\ cassign = [m \in Member |-> {}]
    /\ join = [m \in Member |-> Idle]
    /\ leave = [m \in Member |-> Idle]
    /\ commit = [m \in Member |-> Idle]
    /\ lastHeartbeat = [n \in Node |-> [m \in Member |-> "none"]]
    /\ sweep = [n \in Node |-> Idle]
    /\ late = {}
    /\ budget = Budget

(* rangeAssign over a possibly empty list of members.                      *)
NewAssignment(ms) ==
    [m \in Member |-> IF m \in ms THEN RangeAssign(ms, partCount)[m] ELSE {}]

(* Membership commands computed and not yet applied.                       *)
InFlight ==
    Cardinality({m \in Member : join[m].stage = "proposing"})
    + Cardinality({m \in Member : leave[m].stage = "proposing"})
    + Cardinality({n \in Node : sweep[n].stage = "evict"})
    + Cardinality({c \in late : c.kind # "commit"})

Spend(kind) ==
    /\ budget[kind] > 0
    /\ budget' = [budget EXCEPT ![kind] = @ - 1]

(* The proposer of a command stops waiting for it, with its error path:    *)
(* the command is dropped, or commits later.                               *)
GiveUp(command) ==
    /\ Spend("lost")
    /\ late' \in {late, late \cup {command}}

(* What is left of a sweep once todo is the members still to visit.        *)
Scan(todo) == IF todo = {} THEN Idle ELSE [stage |-> "scan", todo |-> todo]

(* lastHeartbeat[member] = now; a running sweep compares with the time at  *)
(* which it started, so it no longer sees the member as expired.           *)
Touch(n, m) ==
    /\ lastHeartbeat' = [lastHeartbeat EXCEPT ![n][m] = "fresh"]
    /\ sweep' = CASE sweep[n].stage = "idle" -> sweep
                  [] sweep[n].stage = "scan" ->
                        [sweep EXCEPT ![n] = Scan(sweep[n].todo \ {m})]
                  [] OTHER -> [sweep EXCEPT ![n].todo = @ \ {m}]

(* What a consumer does with a failed join: a first join is reported to    *)
(* the application, a rejoin is tried again at the next heartbeat.         *)
AfterFailedJoin(m) ==
    CASE client[m] = "joining"   -> "gone"
      [] client[m] = "rejoining" -> "active"
      [] OTHER                   -> client[m]

-----------------------------------------------------------------------------
(* JoinGroup: topic and group lookups, and rangeAssign.  A new member has  *)
(* the ID the server gives it; a consumer that starts over is another one. *)
JoinLookup(m) ==
    /\ client[m] \in {"new", "rejoining"}
    /\ join[m] = Idle
    /\ partCount > 0
    /\ generation < MaxGeneration
    /\ InFlight < MaxInFlight
    /\ join' = [join EXCEPT ![m] = [stage |-> "proposing", node |-> leader,
                                    asn |-> NewAssignment(members \cup {m})]]
    /\ client' = [client EXCEPT ![m] = IF @ = "new" THEN "joining" ELSE @]
    /\ UNCHANGED <<groupVars, partCount, leader, cgen, cassign, leave, commit,
                   lastHeartbeat, sweep, late, budget>>

(* JoinGroup of a deleted topic: ErrNotFound, no proposal.                 *)
JoinTopicMissing(m) ==
    /\ client[m] \in {"new", "rejoining"}
    /\ join[m] = Idle
    /\ partCount = 0
    /\ client' = [client EXCEPT ![m] = IF @ = "new" THEN "gone" ELSE "active"]
    /\ UNCHANGED <<groupVars, partCount, leader, cgen, cassign, join, leave,
                   commit, lastHeartbeat, sweep, late, budget>>

(* The JoinConsumerGroup command is applied.                               *)
JoinPropose(m) ==
    /\ join[m].stage = "proposing"
    /\ ApplyGroupStateJoin(m, join[m].asn)
    /\ join' = [join EXCEPT ![m].stage = "replying"]
    /\ UNCHANGED <<partCount, leader, client, cgen, cassign, leave, commit,
                   lastHeartbeat, sweep, late, budget>>

(* The proposal times out: the consumer sees an error, and no heartbeat    *)
(* entry is written.                                                       *)
JoinTimeout(m) ==
    /\ join[m].stage = "proposing"
    /\ GiveUp([kind |-> "join", m |-> m, asn |-> join[m].asn])
    /\ join' = [join EXCEPT ![m] = Idle]
    /\ client' = [client EXCEPT ![m] = AfterFailedJoin(m)]
    /\ UNCHANGED <<groupVars, partCount, leader, cgen, cassign, leave, commit,
                   lastHeartbeat, sweep>>

(* Second lookup and heartbeat entry; the reply carries the generation and *)
(* the assignment of the state the lookup saw, not those of this join.     *)
JoinReplyOwn(m) ==
    /\ join[m].stage = "replying"
    /\ Touch(join[m].node, m)
    /\ client[m] \in {"joining", "rejoining"}
    /\ client' = [client EXCEPT ![m] = "active"]
    /\ cgen' = [cgen EXCEPT ![m] = generation]
    /\ cassign' = [cassign EXCEPT ![m] = join[m].asn[m]]
    /\ join' = [join EXCEPT ![m] = Idle]
    /\ UNCHANGED <<groupVars, partCount, leader, leave, commit, late, budget>>
JoinReply(m) ==
    /\ join[m].stage = "replying"
    /\ Touch(join[m].node, m)
    /\ client[m] \in {"joining", "rejoining"}
    /\ client' = [client EXCEPT ![m] = "active"]
    /\ cgen' = [cgen EXCEPT ![m] = generation]
    /\ cassign' = [cassign EXCEPT ![m] = assignments[m]]
    /\ join' = [join EXCEPT ![m] = Idle]
    /\ UNCHANGED <<groupVars, partCount, leader, leave, commit, late, budget>>

(* The handler finishes but nobody takes the reply: the consumer is gone,  *)
(* or the reply is lost and the consumer times out.                        *)
JoinReplyLost(m) ==
    /\ join[m].stage = "replying"
    /\ Touch(join[m].node, m)
    /\ IF client[m] = "gone" THEN UNCHANGED budget ELSE Spend("lost")
    /\ client' = [client EXCEPT ![m] = AfterFailedJoin(m)]
    /\ join' = [join EXCEPT ![m] = Idle]
    /\ UNCHANGED <<groupVars, partCount, leader, cgen, cassign, leave, commit, late>>

-----------------------------------------------------------------------------
(* A heartbeat reaches the coordinator: a member is noted as alive, and    *)
(* told to rejoin when the generation has moved on; so is a non-member.    *)
Heartbeat(m) ==
    /\ client[m] = "active"
    /\ IF m \in members THEN Touch(leader, m) ELSE UNCHANGED <<lastHeartbeat, sweep>>
    /\ client' = [client EXCEPT ![m] =
                     IF m \notin members \/ generation > cgen[m]
                     THEN "rejoining" ELSE "active"]
    /\ UNCHANGED <<groupVars, partCount, leader, cgen, cassign, join, leave,
                   commit, late, budget>>

(* Close: the consumer stops its heartbeats (and forgets a rejoin that is  *)
(* running) and sends LeaveGroup, whose lookups these are.                 *)
CloseConsumer(m) ==
    /\ client[m] \in {"active", "rejoining"}
    /\ leave[m] = Idle
    /\ InFlight < MaxInFlight
    /\ client' = [client EXCEPT ![m] = "gone"]
    /\ leave' = IF m \notin members THEN leave
                ELSE [leave EXCEPT ![m] = [stage |-> "proposing", node |-> leader,
                                           asn |-> NewAssignment(members \ {m})]]
    /\ UNCHANGED <<groupVars, partCount, leader, cgen, cassign, join, commit,
                   lastHeartbeat, sweep, late, budget>>

LeavePropose(m) ==
    /\ leave[m].stage = "proposing"
    /\ ApplyGroupStateLeave(m, leave[m].asn)
    /\ leave' = [leave EXCEPT ![m].stage = "replying"]
    /\ UNCHANGED <<partCount, leader, client, cgen, cassign, join, commit,
                   lastHeartbeat, sweep, late, budget>>

LeaveTimeout(m) ==
    /\ leave[m].stage = "proposing"
    /\ GiveUp([kind |-> "leave", m |-> m, asn |-> leave[m].asn])
    /\ leave' = [leave EXCEPT ![m] = Idle]
    /\ UNCHANGED <<groupVars, partCount, leader, client, cgen, cassign, join,
                   commit, lastHeartbeat, sweep>>

LeaveReply(m) ==
    /\ leave[m].stage = "replying"
    /\ lastHeartbeat' = [lastHeartbeat EXCEPT ![leave[m].node][m] = "none"]
    /\ leave' = [leave EXCEPT ![m] = Idle]
    /\ UNCHANGED <<groupVars, partCount, leader, client, cgen, cassign, join,
                   commit, sweep, late, budget>>

(* The consumer process dies without a LeaveGroup.                         *)
ConsumerCrash(m) ==
    /\ client[m] \in {"joining", "active", "rejoining"}
    /\ client' = [client EXCEPT ![m] = "gone"]
    /\ UNCHANGED <<groupVars, partCount, leader, cgen, cassign, join, leave,
                   commit, lastHeartbeat, sweep, late, budget>>

-----------------------------------------------------------------------------
(* CommitOffset: membership, generation and assignment are checked against *)
(* one lookup, for an offset of any partition the application names.       *)
CommitUnassigned(m) ==
    /\ client[m] \in {"active", "rejoining"}
    /\ commit[m] = Idle
    /\ m \in members
    /\ cgen[m] = generation
    /\ \E p \in Partition, o \in Offset :
          commit' = [commit EXCEPT ![m] = [stage |-> "proposing",
                                           gen |-> cgen[m], p |-> p, o |-> o]]
    /\ UNCHANGED <<groupVars, partCount, leader, client, cgen, cassign, join,
                   leave, lastHeartbeat, sweep, late, budget>>
CommitLookup(m) ==
    /\ client[m] \in {"active", "rejoining"}
    /\ commit[m] = Idle
    /\ m \in members
    /\ cgen[m] = generation
    /\ \E p \in assignments[m], o \in Offset :
          commit' = [commit EXCEPT ![m] = [stage |-> "proposing",
                                           gen |-> cgen[m], p |-> p, o |-> o]]
    /\ UNCHANGED <<groupVars, partCount, leader, client, cgen, cassign, join,
                   leave, lastHeartbeat, sweep, late, budget>>

(* The CommitConsumerOffset command is applied; it carries no generation.  *)
CommitPropose(m) ==
    /\ commit[m].stage = "proposing"
    /\ ApplyGroupStateCommitOffset(commit[m].p, commit[m].o)
    /\ commit' = [commit EXCEPT ![m] = Idle]
    /\ UNCHANGED <<partCount, leader, client, cgen, cassign, join, leave,
                   lastHeartbeat, sweep, late, budget>>

-----------------------------------------------------------------------------
(* A member's last heartbeat on node n becomes older than its session      *)
(* timeout.                                                                *)
Expire(n, m) ==
    /\ lastHeartbeat[n][m] = "fresh"
    /\ lastHeartbeat' = [lastHeartbeat EXCEPT ![n][m] = "expired"]
    /\ UNCHANGED <<groupVars, partCount, leader, client, cgen, cassign, join,
                   leave, commit, sweep, late, budget>>

(* sweepOnce starts, on the leader only.  Of the members it will visit,    *)
(* those that its clock reading makes expired are the ones that matter.    *)
SweepOnFollower(n) ==
    /\ leader # n
    /\ sweep[n] = Idle
    /\ sweep' = [sweep EXCEPT ![n] =
                     Scan({m \in members : lastHeartbeat[n][m] = "expired"})]
    /\ UNCHANGED <<groupVars, partCount, leader, client, cgen, cassign, join,
                   leave, commit, lastHeartbeat, late, budget>>
SweepStart(n) ==
    /\ leader = n
    /\ sweep[n] = Idle
    /\ sweep' = [sweep EXCEPT ![n] =
                     Scan({m \in members : lastHeartbeat[n][m] = "expired"})]
    /\ UNCHANGED <<groupVars, partCount, leader, client, cgen, cassign, join,
                   leave, commit, lastHeartbeat, late, budget>>

(* It visits a member: the table and the member list are read again (the   *)
(* lookup returned the live map), the leader is not.                       *)
SweepVisit(n, m) ==
    /\ sweep[n].stage = "scan"
    /\ m \in sweep[n].todo
    /\ LET rest == sweep[n].todo \ {m}
       IN  IF m \in members /\ lastHeartbeat[n][m] = "expired"
           THEN /\ InFlight < MaxInFlight
                /\ sweep' = [sweep EXCEPT ![n] =
                       [stage |-> "evict", todo |-> rest, victim |-> m,
                        asn |-> NewAssignment(members \ {m})]]
           ELSE sweep' = [sweep EXCEPT ![n] = Scan(rest)]
    /\ UNCHANGED <<groupVars, partCount, leader, client, cgen, cassign, join,
                   leave, commit, lastHeartbeat, late, budget>>

SweepPropose(n) ==
    /\ sweep[n].stage = "evict"
    /\ ApplyGroupStateLeave(sweep[n].victim, sweep[n].asn)
    /\ sweep' = [sweep EXCEPT ![n].stage = "forget"]
    /\ UNCHANGED <<partCount, leader, client, cgen, cassign, join, leave,
                   commit, lastHeartbeat, late, budget>>

SweepTimeout(n) ==
    /\ sweep[n].stage = "evict"
    /\ GiveUp([kind |-> "leave", m |-> sweep[n].victim, asn |-> sweep[n].asn])
    /\ sweep' = [sweep EXCEPT ![n] = Scan(sweep[n].todo)]
    /\ UNCHANGED <<groupVars, partCount, leader, client, cgen, cassign, join,
                   leave, commit, lastHeartbeat>>

SweepForget(n) ==
    /\ sweep[n].stage = "forget"
    /\ lastHeartbeat' = [lastHeartbeat EXCEPT ![n][sweep[n].victim] = "none"]
    /\ sweep' = [sweep EXCEPT ![n] = Scan(sweep[n].todo)]
    /\ UNCHANGED <<groupVars, partCount, leader, client, cgen, cassign, join,
                   leave, commit, late, budget>>

CommitTimeout(m) ==
    /\ commit[m].stage = "proposing"
    /\ GiveUp([kind |-> "commit", gen |-> commit[m].gen, p |-> commit[m].p,
               o |-> commit[m].o])
    /\ commit' = [commit EXCEPT ![m] = Idle]
    /\ UNCHANGED <<groupVars, partCount, leader, client, cgen, cassign, join,
                   leave, lastHeartbeat, sweep>>

(* A command nobody waits for any more is applied.                         *)
LateCommit ==
    \E c \in late :
        /\ late' = late \ {c}
        /\ CASE c.kind = "join"   -> ApplyGroupStateJoin(c.m, c.asn)
             [] c.kind = "leave"  -> ApplyGroupStateLeave(c.m, c.asn)
             [] c.kind = "commit" -> ApplyGroupStateCommitOffset(c.p, c.o)
        /\ UNCHANGED <<partCount, leader, client, cgen, cassign, join, leave,
                       commit, lastHeartbeat, sweep, budget>>

-----------------------------------------------------------------------------
(* The metadata shard elects another leader; no node restarts, and nothing *)
(* touches the heartbeat tables.                                           *)
Failover ==
    /\ Spend("failover")
    /\ leader' \in Node \ {leader}
    /\ UNCHANGED <<groupVars, partCount, client, cgen, cassign, join, leave,
                   commit, lastHeartbeat, sweep, late>>

(* A node restarts.  Its handlers and its sweep die, their commands commit *)
(* later or never; RebuildHeartbeatTable seeds an empty table.             *)
NodeRestart(n) ==
    LET joins == {m \in Member : join[m] # Idle /\ join[m].node = n}
        leaves == {m \in Member : leave[m] # Idle /\ leave[m].node = n}
        orphans ==
            {[kind |-> "join", m |-> m, asn |-> join[m].asn] :
                m \in {x \in joins : join[x].stage = "proposing"}}
            \cup {[kind |-> "leave", m |-> m, asn |-> leave[m].asn] :
                m \in {x \in leaves : leave[x].stage = "proposing"}}
            \cup {[kind |-> "leave", m |-> sweep[x].victim, asn |-> sweep[x].asn] :
                x \in {y \in {n} : sweep[y].stage = "evict"}}
    IN  /\ Spend("failover")
        /\ leader' \in IF leader = n /\ Node # {n} THEN Node \ {n} ELSE {leader}
        /\ \E survive \in SUBSET orphans : late' = late \cup survive
        /\ client' = [m \in Member |-> IF m \in joins THEN AfterFailedJoin(m)
                                       ELSE client[m]]
        /\ join' = [m \in Member |-> IF m \in joins THEN Idle ELSE join[m]]
        /\ leave' = [m \in Member |-> IF m \in leaves THEN Idle ELSE leave[m]]
        /\ lastHeartbeat' = [lastHeartbeat EXCEPT ![n] =
               [m \in Member |-> IF m \in members THEN "fresh" ELSE "none"]]
        /\ sweep' = [sweep EXCEPT ![n] = Idle]
        /\ UNCHANGED <<groupVars, partCount, cgen, cassign, commit>>

(* AlterTopicPartCount, DeleteTopic and CreateTopic: no group is told.     *)
ChangeTopic ==
    /\ Spend("topic")
    /\ partCount' \in IF partCount = 0 THEN 1 .. MaxPartitions
                      ELSE {0} \cup (partCount + 1 .. MaxPartitions)
    /\ UNCHANGED <<groupVars, leader, client, cgen, cassign, join, leave,
                   commit, lastHeartbeat, sweep, late>>

-----------------------------------------------------------------------------
Coordinator(m) ==
    \/ JoinPropose(m) \/ JoinReply(m) \/ JoinReplyLost(m)
    \/ LeavePropose(m) \/ LeaveReply(m)
    \/ CommitPropose(m)
Consumer(m) ==
    \/ JoinLookup(m) \/ JoinTopicMissing(m)
    \/ Heartbeat(m) \/ CommitLookup(m)
    \/ CloseConsumer(m) \/ ConsumerCrash(m)
Sweeper(n) ==
    \/ SweepStart(n)
    \/ \E m \in Member : SweepVisit(n, m)
    \/ SweepPropose(n) \/ SweepForget(n)
Fault ==
    \/ \E m \in Member : JoinTimeout(m) \/ LeaveTimeout(m) \/ CommitTimeout(m)
    \/ \E n \in Node : SweepTimeout(n) \/ NodeRestart(n)
    \/ LateCommit \/ Failover \/ ChangeTopic

Next ==
    \/ \E m \in Member : Coordinator(m) \/ Consumer(m)
    \/ \E n \in Node : Sweeper(n)
    \/ \E n \in Node, m \in Member : Expire(n, m)
    \/ Fault

Spec == Init /\ [][Next]_vars

(* A running handler is scheduled, the sweep ticker keeps ticking, and     *)
(* time passes for a consumer that no longer sends heartbeats.             *)
FairSpec ==
    /\ Spec
    /\ \A m \in Member : WF_vars(Coordinator(m))
    /\ \A n \in Node : WF_vars(Sweeper(n) /\ sweep' # sweep)
    /\ \A n \in Node, m \in Member : WF_vars(Expire(n, m))

-----------------------------------------------------------------------------
(* Type invariant of the coordinator, its callers and the group it keeps.  *)
TypeOK ==
    /\ members \subseteq Member
    /\ generation \in Nat
    /\ assignments \in [Member -> SUBSET Partition]
    /\ offsets \in [Partition -> Offset \cup {-1}]
    /\ partCount \in 0 .. MaxPartitions
    /\ leader \in Node
    /\ client \in [Member -> {"new", "joining", "active", "rejoining", "gone"}]
    /\ cgen \in [Member -> Nat]
    /\ cassign \in [Member -> SUBSET Partition]
    /\ join \in [Member -> Handler]
    /\ leave \in [Member -> Handler]
    /\ commit \in [Member -> CommitHandler]
    /\ lastHeartbeat \in [Node -> [Member -> {"none", "fresh", "expired"}]]
    /\ sweep \in [Node -> Sweep]
    /\ late \subseteq Command
    /\ budget \in [{"failover", "lost", "topic"} -> Nat]

Holding(m) == client[m] \in {"active", "rejoining"}

(* Two consumers that believe in the same generation never own the same    *)
(* partition, whatever handlers, evictions and failovers interleave: the   *)
(* reply of JoinGroup pairs a generation with that generation's own        *)
(* assignment, and rangeAssign splits it.                                  *)
SameGenerationDisjoint ==
    \A x, y \in Member :
        (x # y /\ Holding(x) /\ Holding(y) /\ cgen[x] = cgen[y])
        => cassign[x] \cap cassign[y] = {}

(* A consumer whose generation is the current one holds exactly what the   *)
(* state machine assigns to it: the generation check of CommitOffset and   *)
(* Heartbeat is therefore enough to detect a changed assignment.           *)
CurrentGenerationIsCurrent ==
    \A m \in Member :
        Holding(m) /\ cgen[m] = generation => cassign[m] = assignments[m]

(* Commits that CommitOffset let through in one generation are for         *)
(* different partitions: two members cannot both be accepted as the owner. *)
CommitsOfAGenerationDisjoint ==
    \A x, y \in Member :
        (/\ x # y
         /\ commit[x] # Idle
         /\ commit[y] # Idle
         /\ commit[x].gen = commit[y].gen) => commit[x].p # commit[y].p

(* Nothing is pending and every member is a consumer that has caught up.   *)
Settled ==
    /\ InFlight = 0
    /\ members # {}
    /\ \A m \in members : client[m] = "active" /\ cgen[m] = generation

(* In a group that has settled every partition of the topic has an owner   *)
(* among the members: nothing would ever give one to an orphaned partition *)
(* (Heartbeat asks for a rejoin only when the generation moves).           *)
OwnedWhenSettled ==
    Settled => UNION {cassign[m] : m \in members} = 0 .. partCount - 1

(* A consumer that is gone and whose heartbeat has expired on the node     *)
(* that leads is removed from the group, or loses its heartbeat entry.     *)
ExpiredMemberEvicted ==
    \A n \in Node, m \in Member :
        (/\ leader = n
         /\ client[m] = "gone"
         /\ lastHeartbeat[n][m] = "expired")
        ~> (m \notin members \/ lastHeartbeat[n][m] = "none" \/ leader # n)

-----------------------------------------------------------------------------
(* "Sweep goroutine detects missing heartbeat after session_timeout_ms.    *)
(* Proposes eviction." (docs/design/08-consumer-groups.md), of a member    *)
(* that crashes silently.                                                  *)
CrashedMemberEvicted ==
    \A m \in Member : client[m] = "gone" ~> m \notin members

(* The generation "is incremented atomically ... on every membership       *)
(* change" (docs/design/08-consumer-groups.md), and so only then.          *)
GenerationCountsMembershipChanges ==
    [][generation' # generation => members' # members]_vars

(* "The coordinator rejects offset commits from stale generation clients"  *)
(* (docs/design/08-consumer-groups.md): an offset changes only by a commit *)
(* of the generation that is current when it changes.                      *)
StaleGenerationRejected ==
    [][offsets' # offsets =>
          \E m \in Member : /\ commit[m] # Idle
                            /\ commit'[m] = Idle
                            /\ commit[m].gen = generation]_vars

(* "same offsets committed twice is harmless; the FSM takes the max"       *)
(* (docs/design/08-consumer-groups.md): a stored offset never decreases.   *)
CommittedOffsetTakesMax ==
    [][\A p \in Partition : offsets'[p] >= offsets[p]]_vars

(* "all members pause consumption and re-join before any member resumes    *)
(* with the new assignment" (docs/design/08-consumer-groups.md): no two    *)
(* consumers fetch the same partition.                                     *)
StopTheWorld ==
    \A x, y \in Member :
        (x # y /\ client[x] = "active" /\ client[y] = "active")
        => cassign[x] \cap cassign[y] = {}

=============================================================================
