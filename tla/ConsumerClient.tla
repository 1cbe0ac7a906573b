-------------------------- MODULE ConsumerClient ---------------------------
(***************************************************************************)
(* A group consumer of pkg/client/consumer.go: the application's goroutine *)
(* (Poll, Commit) and the heartbeat goroutine (heartbeatLoop, rebalance,   *)
(* joinGroup, initFetchOffsets) share the fetch offsets.  The group        *)
(* coordinator, the other members and the partitions are reduced to what   *)
(* this consumer sees of them (GroupCoordinator, PartitionReplica).        *)
(*                                                                         *)
(* Every mu.Lock section is one step, and so is every RPC.                 *)
(***************************************************************************)
EXTENDS Integers, Sequences, SequencesExt, FiniteSets

CONSTANTS
    Part,           \* partitions of the topic
    Reset,          \* AutoOffsetReset: "earliest" or "latest"
    MaxOffset,      \* bound: records of a partition
    Setting         \* what may happen to the consumer: an Environment each

(* Bounds on the joins and leaves of other members, the JoinGroup calls    *)
(* that fail, the failures after it inside joinGroup, the Fetch calls that *)
(* fail with codes.Internal, and the records removed by retention;         *)
(* calm: no rebalance begins while a Poll runs, and joinGroup does not     *)
(* fail half way.                                                          *)
Environment == {e \in [calm : BOOLEAN, joins : Nat, joinFails : Nat, initFails : Nat,
                       pollFails : Nat, removed : Nat] : e.calm => e.initFails = 0}

ASSUME ConsumerAssumption ==
    /\ Reset \in {"earliest", "latest"} /\ MaxOffset \in Nat
    /\ Setting \subseteq Environment

VARIABLES
    first, end,     \* offsets of each partition's log
    generation,     \* the group's generation at the coordinator
    assignment,     \* partitions the coordinator assigns to this member
    committed,      \* the group's committed offsets, -1 for none
    generationID, assignedPartitions, fetchOffsets, soughtPartitions, rebalancing,
                    \* fields of Consumer; -1 for no fetch offset
    app,            \* the application's goroutine: [at, work, out, offsets]
    beat,           \* the heartbeat goroutine: [at, saved, got, todo]
    fetched,        \* records some member's Poll fetched
    returned,       \* records some member's Poll returned
    processed,      \* records some application has processed
    budget          \* the environment: failures and rebalances left

partitions == <<first, end>>
group == <<generation, assignment, committed>>
consumer == <<generationID, assignedPartitions, fetchOffsets, soughtPartitions, rebalancing>>
history == <<fetched, returned, processed>>
vars == <<partitions, group, consumer, app, beat, history, budget>>

Offset == 0 .. MaxOffset
Offsets == [Part -> Offset \cup {-1}]
None == [p \in Part |-> -1]
Spend(what) == budget[what] > 0 /\ budget' = [budget EXCEPT ![what] = @ - 1]

AppIdle == [at |-> "idle", work |-> <<>>, out |-> {}, offsets |-> None]
Beating == [at |-> "beat", saved |-> None, got |-> None, todo |-> <<>>]

(* A goroutine back from joinGroup.  Subscribe, in the application's       *)
(* goroutine, joins the first time and is called again if that fails.      *)
JoinAgain == [Beating EXCEPT !.at = "join"]
GivenUp == IF app.at = "subscribe" THEN JoinAgain ELSE Beating
Init ==
    /\ first = [p \in Part |-> 0] /\ end = [p \in Part |-> 0]
    /\ generation = 1 /\ assignment = {} /\ committed = None
    /\ generationID = 0 /\ assignedPartitions = {}
    /\ fetchOffsets = None /\ soughtPartitions = <<>> /\ rebalancing = FALSE
    /\ app = [AppIdle EXCEPT !.at = "subscribe"]
    /\ beat = JoinAgain
    /\ fetched = {} /\ returned = {} /\ processed = {}
    /\ budget \in Setting

-----------------------------------------------------------------------------
(* Poll waits for the flag, then takes its work under mu.                  *)
PollCheck ==
    /\ app.at = "idle" /\ ~rebalancing
    /\ app' = [app EXCEPT !.at = "checked"]
    /\ UNCHANGED <<partitions, group, consumer, beat, history, budget>>
PollSnapshot ==
    /\ app.at = "checked"
    /\ app' = IF soughtPartitions = <<>> THEN AppIdle
              ELSE [app EXCEPT !.at = "fetch",
                       !.work = [i \in DOMAIN soughtPartitions |->
                                    [part |-> soughtPartitions[i],
                                     off |-> fetchOffsets[soughtPartitions[i]]]]]
    /\ UNCHANGED <<partitions, group, consumer, beat, history, budget>>

Records(p, from, to) == {p} \X (from .. to - 1)

(* One partition of the loop: fetchPartition, then fetchOffsets under mu.  *)
PollFetch(p) ==
    /\ app.at = "fetch" /\ app.work # <<>>
    /\ LET w == Head(app.work) IN
       /\ w.part = p /\ w.off >= first[p]
       /\ \E next \in IF w.off < end[p] THEN w.off + 1 .. end[p] ELSE {w.off} :
             /\ fetchOffsets' = [fetchOffsets EXCEPT ![p] = next]
             /\ app' = [app EXCEPT !.work = Tail(@), !.out = @ \cup Records(p, w.off, next)]
             /\ fetched' = fetched \cup Records(p, w.off, next)
    /\ UNCHANGED <<partitions, group, generationID, assignedPartitions, soughtPartitions,
                   rebalancing, beat, returned, processed, budget>>

(* NOT_LEADER, an unreachable server or the deadline: not in this Poll.    *)
PollSkip ==
    /\ app.at = "fetch" /\ app.work # <<>>
    /\ app' = [app EXCEPT !.work = Tail(@)]
    /\ UNCHANGED <<partitions, group, consumer, beat, history, budget>>

(* Any other error ends Poll with no records.                              *)
PollError ==
    /\ app.at = "fetch" /\ app.work # <<>>
    /\ \/ Head(app.work).off < first[Head(app.work).part] /\ UNCHANGED budget
       \/ Spend("pollFails")
    /\ app' = AppIdle
    /\ UNCHANGED <<partitions, group, consumer, beat, history>>

PollReturn ==
    /\ app.at = "fetch" /\ app.work = <<>>
    /\ returned' = returned \cup app.out
    /\ app' = [app EXCEPT !.at = "process"]
    /\ UNCHANGED <<partitions, group, consumer, beat, fetched, processed, budget>>

(* The application processes what Poll returned, then polls or commits.    *)
Process ==
    /\ app.at = "process"
    /\ processed' = processed \cup app.out
    /\ \E at \in {"idle", "commit"} : app' = [AppIdle EXCEPT !.at = at]
    /\ UNCHANGED <<partitions, group, consumer, beat, fetched, returned, budget>>

-----------------------------------------------------------------------------
(* CommitOffset at the coordinator: all of the offsets or none.            *)
Accepts(offsets) ==
    /\ generationID = generation
    /\ {p \in Part : offsets[p] # -1} \subseteq assignment
Committing(offsets) ==
    committed' = IF Accepts(offsets)
                 THEN [p \in Part |-> IF offsets[p] # -1 THEN offsets[p] ELSE committed[p]]
                 ELSE committed

(* Commit reads the offsets, CommitOffsets then reads the generation.      *)
CommitRead ==
    /\ app.at = "commit"
    /\ app' = [app EXCEPT !.at = "send",
                  !.offsets = [p \in Part |-> IF p \in ToSet(soughtPartitions)
                                             THEN fetchOffsets[p] ELSE -1]]
    /\ UNCHANGED <<partitions, group, consumer, beat, history, budget>>
CommitSend ==
    /\ app.at = "send"
    /\ Committing(app.offsets)
    /\ app' = AppIdle
    /\ UNCHANGED <<partitions, generation, assignment, consumer, beat, history, budget>>

-----------------------------------------------------------------------------
(* heartbeatLoop finds a newer generation and calls rebalance.             *)
RebalanceKeepsSought ==
    /\ beat.at = "beat" /\ generation > generationID
    /\ ~budget.calm \/ app.at \notin {"checked", "fetch"}
    /\ rebalancing' = TRUE
    /\ beat' = [Beating EXCEPT !.at = "join", !.saved = fetchOffsets]
    /\ fetchOffsets' = None
    /\ UNCHANGED <<partitions, group, generationID, assignedPartitions, soughtPartitions,
                   app, history, budget>>
RebalanceStart ==
    /\ beat.at = "beat" /\ generation > generationID
    /\ ~budget.calm \/ app.at \notin {"checked", "fetch"}
    /\ rebalancing' = TRUE
    /\ beat' = [Beating EXCEPT !.at = "join", !.saved = fetchOffsets]
    /\ fetchOffsets' = None
    /\ soughtPartitions' = <<>>
    /\ UNCHANGED <<partitions, group, generationID, assignedPartitions, app, history, budget>>

(* Every join makes a new generation (MetadataGroups).                     *)
NewGeneration ==
    /\ generation' = generation + 1
    /\ assignment' \in SUBSET Part
JoinGroup ==
    /\ beat.at = "join"
    /\ NewGeneration
    /\ generationID' = generation'
    /\ assignedPartitions' = assignment'
    /\ beat' = [beat EXCEPT !.at = IF assignment' = {} THEN "save" ELSE "committed"]
    /\ UNCHANGED <<partitions, committed, fetchOffsets, soughtPartitions, rebalancing,
                   app, history, budget>>

(* A failed joinGroup leaves the rebalance; the join may have happened.    *)
JoinFails ==
    /\ beat.at = "join"
    /\ Spend("joinFails")
    /\ NewGeneration \/ UNCHANGED <<generation, assignment>>
    /\ beat' = GivenUp
    /\ rebalancing' = FALSE
    /\ UNCHANGED <<partitions, committed, generationID, assignedPartitions, fetchOffsets,
                   soughtPartitions, app, history>>

(* initFetchOffsets.                                                       *)
FetchCommitted ==
    /\ beat.at = "committed"
    /\ beat' = [beat EXCEPT !.at = "seek", !.got = committed,
                           !.todo = SetToSeq(assignedPartitions)]
    /\ UNCHANGED <<partitions, group, consumer, app, history, budget>>
InitFails ==
    /\ \/ beat.at = "committed"
       \/ beat.at = "seek" /\ Reset = "latest" /\ beat.got[Head(beat.todo)] = -1
    /\ Spend("initFails")
    /\ beat' = GivenUp
    /\ rebalancing' = FALSE
    /\ UNCHANGED <<partitions, group, generationID, assignedPartitions, fetchOffsets,
                   soughtPartitions, app, history>>

Seek(p, off) ==
    /\ fetchOffsets' = [fetchOffsets EXCEPT ![p] = off]
    /\ soughtPartitions' = IF fetchOffsets[p] = -1 THEN Append(soughtPartitions, p)
                           ELSE soughtPartitions

ResumeAt(p) == IF beat.got[p] > -1 THEN beat.got[p]
               ELSE IF Reset = "earliest" THEN 0 ELSE end[p]
SeekNext ==
    /\ beat.at = "seek"
    /\ Seek(Head(beat.todo), ResumeAt(Head(beat.todo)))
    /\ beat' = [beat EXCEPT !.todo = Tail(@), !.at = IF Tail(beat.todo) = <<>> THEN "save" ELSE @]
    /\ UNCHANGED <<partitions, group, generationID, assignedPartitions, rebalancing,
                   app, history, budget>>

(* The old positions of partitions still assigned are committed, and       *)
(* sought once more if the coordinator took them.                          *)
ToCommit == [p \in Part |-> IF p \in assignedPartitions THEN beat.saved[p] ELSE -1]
CommitSaved ==
    /\ beat.at = "save"
    /\ Committing(ToCommit)
    /\ beat' = [beat EXCEPT !.at = "reseek",
                   !.todo = IF Accepts(ToCommit)
                            THEN SetToSeq({p \in Part : ToCommit[p] # -1}) ELSE <<>>]
    /\ UNCHANGED <<partitions, generation, assignment, consumer, app, history, budget>>
Reseek ==
    /\ beat.at = "reseek" /\ beat.todo # <<>>
    /\ Seek(Head(beat.todo), beat.saved[Head(beat.todo)])
    /\ beat' = [beat EXCEPT !.todo = Tail(@)]
    /\ UNCHANGED <<partitions, group, generationID, assignedPartitions, rebalancing,
                   app, history, budget>>
RebalanceEnd ==
    /\ beat.at = "reseek" /\ beat.todo = <<>>
    /\ rebalancing' = FALSE
    /\ beat' = Beating
    /\ app' = IF app.at = "subscribe" THEN AppIdle ELSE app
    /\ UNCHANGED <<partitions, group, generationID, assignedPartitions, fetchOffsets,
                   soughtPartitions, history, budget>>

-----------------------------------------------------------------------------
(* The other members, the producers and retention.                         *)
OthersJoin ==
    /\ Spend("joins")
    /\ NewGeneration
    /\ UNCHANGED <<partitions, committed, consumer, app, beat, history>>
OthersConsume(p) ==
    LET from == IF committed[p] > -1 THEN committed[p] ELSE 0 IN
    /\ p \notin assignment
    /\ first[p] <= from /\ from < end[p]
    /\ committed' = [committed EXCEPT ![p] = from + 1]
    /\ fetched' = fetched \cup {<<p, from>>}
    /\ returned' = returned \cup {<<p, from>>}
    /\ processed' = processed \cup {<<p, from>>}
    /\ UNCHANGED <<partitions, generation, assignment, consumer, app, beat, budget>>
Produce(p) ==
    /\ end[p] < MaxOffset
    /\ end' = [end EXCEPT ![p] = @ + 1]
    /\ UNCHANGED <<first, group, consumer, app, beat, history, budget>>
Retention(p) ==
    /\ first[p] < end[p]
    /\ Spend("removed")
    /\ first' = [first EXCEPT ![p] = @ + 1]
    /\ UNCHANGED <<end, group, consumer, app, beat, history>>

Application ==
    PollCheck \/ PollSnapshot \/ PollError \/ PollReturn \/ Process \/ CommitRead \/ CommitSend
Heartbeat ==
    \/ RebalanceStart \/ JoinGroup \/ JoinFails \/ FetchCommitted \/ InitFails \/ SeekNext
    \/ CommitSaved \/ Reseek \/ RebalanceEnd
Next ==
    \/ Application \/ PollSkip \/ Heartbeat \/ OthersJoin
    \/ \E p \in Part : PollFetch(p) \/ OthersConsume(p) \/ Produce(p) \/ Retention(p)

Spec == Init /\ [][Next]_vars

(* The application keeps calling Poll, the ticker fires between Polls too, *)
(* and a fetch that is tried again and again succeeds in the end.          *)
FairSpec ==
    /\ Spec
    /\ WF_vars(Application) /\ SF_vars(Heartbeat)
    /\ \A p \in Part : SF_vars(PollFetch(p))

-----------------------------------------------------------------------------
(* Types of the consumer's fields and of the two goroutines.               *)
TypeOK ==
    /\ first \in [Part -> Offset] /\ end \in [Part -> Offset]
    /\ generation \in Nat /\ assignment \subseteq Part /\ committed \in Offsets
    /\ generationID \in 0 .. generation /\ assignedPartitions \subseteq Part
    /\ fetchOffsets \in Offsets
    /\ soughtPartitions \in Seq(Part) /\ IsInjective(soughtPartitions)
    /\ rebalancing \in BOOLEAN
    /\ app.at \in {"subscribe", "idle", "checked", "fetch", "process", "commit", "send"}
    /\ app.offsets \in Offsets /\ app.out \subseteq Part \X Offset
    /\ beat.at \in {"beat", "join", "committed", "seek", "save", "reseek"}
    /\ beat.saved \in Offsets /\ beat.got \in Offsets


(* Between rebalances, and once its generation is the group's, the         *)
(* consumer polls exactly its assignment (soughtPartitions, which          *)
(* rebalance clears and Seek fills again), in a calm environment.          *)
AssignedIsPolled ==
    (budget.calm /\ beat.at = "beat" /\ generationID = generation)
    => ToSet(soughtPartitions) = assignedPartitions


(* The comments on heartbeatLoop and rebalance claim both without a        *)
(* condition: Poll and rebalance are serialised on the state they share.   *)
AlwaysPolled ==
    (beat.at = "beat" /\ generationID = generation)
    => ToSet(soughtPartitions) = assignedPartitions

(* And rebalance seeks the committed offsets of the new assignment.        *)
AlwaysReturned ==
    \A p \in Part : \A o \in 0 .. MaxOffset - 1 :
        (first[p] <= o /\ o < end[p])
        ~> (<<p, o>> \in returned \/ p \notin assignment \/ o < first[p])

(* 07-client-library.md, initFetchOffsets: without a committed offset,     *)
(* OffsetResetEarliest looks the earliest offset up and seeks to it.       *)
ResetToEarliest ==
    [][\A p \in Part :
          (fetchOffsets[p] = -1 /\ fetchOffsets'[p] # -1 /\ beat.got[p] = -1)
          => fetchOffsets'[p] >= first[p]]_vars

(* REQUIREMENTS.md 3.6.4, "At-least-once delivery is the default": a       *)
(* committed offset never covers a record no Poll has returned.            *)
CommittedWasReturned ==
    \A p \in Part : \A o \in 0 .. committed[p] - 1 :
        <<p, o>> \in returned \/ (app.at = "fetch" /\ <<p, o>> \in app.out)

(* The same requirement, "consumer commits offsets explicitly after        *)
(* processing": a committed offset covers only processed records.          *)
CommittedWasProcessed ==
    \A p \in Part : \A o \in 0 .. committed[p] - 1 : <<p, o>> \in processed

=============================================================================
