--------------------------- MODULE ProduceRetry ----------------------------
(***************************************************************************)
(* Producer.Send of pkg/client/producer.go against the Produce handlers of *)
(* the nodes (internal/api/data/server.go, coordinator/data/data.go): the  *)
(* metadata cache, redirects, retries, and proposals whose outcome the     *)
(* producer never learns.  One producer, one partition.                    *)
(*                                                                         *)
(* The partition's Raft log is external: it takes a proposal at most once, *)
(* possibly after the proposer has given up, and loses nothing it took.    *)
(***************************************************************************)
EXTENDS Integers, Sequences, FiniteSets

CONSTANTS
    Node, Batch,
    NoNode,         \* leader node ID 0: no leader known
    Absent,         \* no entry in the metadata cache
    MaxRetries,     \* RetryPolicy.MaxRetries
    MaxSends,       \* bound: calls of Send
    MaxFaults       \* bound: leader changes and crashes

ASSUME ProduceAssumption ==
    /\ MaxRetries \in Nat \ {0}
    /\ MaxSends \in Nat /\ MaxFaults \in Nat
    /\ NoNode \notin Node /\ Absent \notin Node \cup {NoNode}

VARIABLES
    up,             \* nodes that run
    registered,     \* nodes whose shardRegistry has the partition
    recorded,       \* leader in the metadata shard
    seen,           \* leader in the metadata each node has applied
    log,            \* batches of the partition
    late,           \* proposals given up on that may still commit
    cache,          \* leader in the producer's metadata cache
    call,           \* the Send in progress, or how the last one ended
    acked,          \* acknowledgements the application got (acks = all)
    sent,           \* batches the application has sent
    sends, faults   \* counters of the bounds

vars == <<up, registered, recorded, seen, log, late, cache, call, acked, sent, sends, faults>>

Result == {"none", "ok", "noLeader", "unreachable", "notLeader", "transport",
           "unavailable", "timeout"}
Call == [at : {"idle", "leaderFor", "request", "proposed", "committed", "broken"},
         batch : Batch, acks : {"all", "zero"}, attempt : 0 .. MaxRetries,
         addr : Node \cup {NoNode}, offset : Int, calm : BOOLEAN, result : Result]

Settled == up = Node /\ registered = Node /\ recorded \in Node
           /\ \A n \in Node : seen[n] = recorded

(* A topic just created, its leader not recorded yet.                      *)
Init ==
    /\ up = Node
    /\ registered \in SUBSET Node
    /\ recorded = NoNode
    /\ seen = [n \in Node |-> NoNode]
    /\ log = <<>>
    /\ late = {}
    /\ cache = Absent
    /\ \E b \in Batch :
          call = [at |-> "idle", batch |-> b, acks |-> "all", attempt |-> 0, addr |-> NoNode,
                  offset |-> -1, calm |-> FALSE, result |-> "none"]
    /\ acked = {}
    /\ sent = {}
    /\ sends = 0
    /\ faults = 0

-----------------------------------------------------------------------------
(* The loop of sendToPartition: how a failed attempt goes on.              *)
End(result) == [call EXCEPT !.at = "idle", !.result = result]
RetryUncounted(result) == [call EXCEPT !.at = "leaderFor"]
Retry(result) ==
    IF call.attempt >= MaxRetries THEN End(result)
    ELSE [call EXCEPT !.at = "leaderFor", !.attempt = @ + 1]

Client == UNCHANGED <<up, registered, recorded, seen, sent, sends, faults>>

(* Send and SendBatch: a new batch, or again the one that just failed.     *)
Send ==
    /\ call.at = "idle"
    /\ sends < MaxSends
    /\ sends' = sends + 1
    /\ \E b \in Batch, a \in {"all", "zero"} :
       /\ b \notin sent \/ (b = call.batch /\ call.result \notin {"ok", "none"})
       /\ sent' = sent \cup {b}
       /\ call' = [at |-> "leaderFor", batch |-> b, acks |-> a, attempt |-> 0, addr |-> NoNode,
                   offset |-> -1, calm |-> Settled, result |-> "none"]
    /\ UNCHANGED <<up, registered, recorded, seen, log, late, cache, acked, faults>>

(* leaderFor and refreshMeta: any node that answers will do.               *)
LeaderFor ==
    /\ call.at = "leaderFor"
    /\ \/ /\ cache \in Node
          /\ call' = [call EXCEPT !.at = "request", !.addr = cache]
          /\ UNCHANGED cache
       \/ /\ cache \notin Node
          /\ \E n \in up :
                /\ cache' = seen[n]
                /\ call' = IF seen[n] \in Node
                           THEN [call EXCEPT !.at = "request", !.addr = seen[n]]
                           ELSE End("noLeader")
       \/ /\ cache \notin Node /\ up = {}
          /\ call' = Retry("unreachable")
          /\ UNCHANGED cache
    /\ UNCHANGED <<log, late, acked>> /\ Client

CacheExpires ==
    /\ cache # Absent
    /\ cache' = Absent
    /\ UNCHANGED <<log, late, call, acked>> /\ Client

(* The transport's Unavailable drops the cache entry, then retries.        *)
TransportError ==
    /\ \/ call.at = "request" /\ call.addr \notin up
       \/ call.at = "broken"
    /\ cache' = Absent
    /\ call' = Retry("transport")
    /\ UNCHANGED <<log, late, acked>> /\ Client

(* leaderCheck fails at the server; SetLeader, and the next attempt.       *)
RedirectIgnored(leader) == cache
RedirectTo(leader) == IF leader \in Node /\ cache # Absent THEN leader ELSE cache
NotLeader ==
    /\ call.at = "request" /\ call.addr \in up
    /\ seen[call.addr] # call.addr
    /\ cache' = RedirectTo(seen[call.addr])
    /\ call' = Retry("notLeader")
    /\ UNCHANGED <<log, late, acked>> /\ Client

(* ErrUnavailable reaches the producer as codes.Internal with no detail.   *)
NotRegistered ==
    /\ call.at = "request" /\ call.addr \in up
    /\ seen[call.addr] = call.addr
    /\ call.addr \notin registered
    /\ call' = End("unavailable")
    /\ UNCHANGED <<log, late, cache, acked>> /\ Client

(* Proposals are told apart by the Send and the attempt they belong to.    *)
Proposal == [batch |-> call.batch, send |-> sends, attempt |-> call.attempt]

(* acks = all waits in SyncPropose, acks = 0 does not wait.                *)
Propose ==
    /\ call.at = "request" /\ call.addr \in up \cap registered
    /\ seen[call.addr] = call.addr
    /\ \/ /\ call.acks = "all"
          /\ call' = [call EXCEPT !.at = "proposed"]
          /\ UNCHANGED late
       \/ /\ call.acks = "zero"
          /\ late' = late \cup {Proposal}
          /\ call' = End("ok")
    /\ UNCHANGED <<log, cache, acked>> /\ Client

-----------------------------------------------------------------------------
(* The proposal commits; PartitionFSM.Update returns the base offset.      *)
NextOffset(b) == Len(log) + 1
BaseOffset(b) == Len(log)
Commit ==
    /\ call.at = "proposed"
    /\ log' = Append(log, call.batch)
    /\ call' = [call EXCEPT !.at = "committed", !.offset = BaseOffset(call.batch)]
    /\ UNCHANGED <<late, cache, acked>> /\ Client
LateCommit ==
    /\ \E p \in late :
          /\ log' = Append(log, p.batch)
          /\ late' = late \ {p}
    /\ UNCHANGED <<cache, call, acked>> /\ Client
Reply ==
    /\ call.at = "committed"
    /\ acked' = acked \cup {[batch |-> call.batch, offset |-> call.offset]}
    /\ call' = End("ok")
    /\ UNCHANGED <<log, late, cache>> /\ Client

(* What a handler that ends early leaves behind.                           *)
Abandoned == IF call.at = "proposed" THEN late \cup {Proposal} ELSE late
Fault == faults < MaxFaults /\ faults' = faults + 1
Disturbed(c) == [c EXCEPT !.calm = FALSE]

(* RequestTimeout ends the call and the handler's SyncPropose; Internal    *)
(* and DeadlineExceeded are returned, not retried.                         *)
Timeout ==
    /\ call.at \in {"request", "proposed", "committed"}
    /\ late' = Abandoned
    /\ call' = Disturbed(End("timeout"))
    /\ UNCHANGED <<log, cache, acked>> /\ Client
NodeCrash(n) ==
    /\ n \in up
    /\ Fault
    /\ up' = up \ {n}
    /\ registered' = registered \ {n}
    /\ IF call.at \in {"proposed", "committed"} /\ call.addr = n
       THEN call' = Disturbed([call EXCEPT !.at = "broken"]) /\ late' = Abandoned
       ELSE call' = Disturbed(call) /\ UNCHANGED late
    /\ UNCHANGED <<recorded, seen, log, cache, acked, sent, sends>>
NodeStart(n) ==
    /\ n \notin up
    /\ up' = up \cup {n}
    /\ UNCHANGED <<registered, recorded, seen, log, late, cache, call, acked, sent, sends, faults>>

(* The reconcile loop and the leader sweep (ShardLifecycle,                *)
(* LeaderTracking), as far as the producer sees them.                      *)
Register(n) ==
    /\ n \in up \ registered
    /\ registered' = registered \cup {n}
    /\ UNCHANGED <<up, recorded, seen, log, late, cache, call, acked, sent, sends, faults>>
LeaderChange ==
    /\ Fault
    /\ \E n \in up \ {recorded} : recorded' = n
    /\ call' = Disturbed(call)
    /\ UNCHANGED <<up, registered, seen, log, late, cache, acked, sent, sends>>
Learn(n) ==
    /\ n \in up /\ seen[n] # recorded
    /\ seen' = [seen EXCEPT ![n] = recorded]
    /\ UNCHANGED <<up, registered, recorded, log, late, cache, call, acked, sent, sends, faults>>

Attempt == LeaderFor \/ TransportError \/ NotLeader \/ NotRegistered \/ Propose \/ Reply
Next ==
    \/ Send \/ Attempt \/ Commit \/ CacheExpires \/ LateCommit \/ Timeout \/ LeaderChange
    \/ \E n \in Node : NodeCrash(n) \/ NodeStart(n) \/ Register(n) \/ Learn(n)

Spec == Init /\ [][Next]_vars

(* The call goes on: the loop runs, and a handler answers or its deadline  *)
(* passes.  No proposal need ever commit, and no node come back.           *)
FairSpec == Spec /\ WF_vars(Attempt \/ Timeout)

-----------------------------------------------------------------------------
(* Types of the cluster's and the producer's state.                        *)
TypeOK ==
    /\ registered \subseteq up /\ up \subseteq Node
    /\ recorded \in Node \cup {NoNode}
    /\ seen \in [Node -> Node \cup {NoNode}]
    /\ log \in Seq(Batch)
    /\ late \subseteq [batch : Batch, send : 1 .. MaxSends, attempt : 0 .. MaxRetries]
    /\ cache \in Node \cup {NoNode, Absent}
    /\ call \in Call
    /\ acked \subseteq [batch : Batch, offset : Nat]

(* An acknowledged batch is in the log at the offset Send returned, and    *)
(* no two acknowledgements share an offset, whatever attempts of the same  *)
(* or other batches commit late around it (Produce, SyncProposePartition,  *)
(* PartitionFSM.Update).                                                   *)
AckedAtOffset ==
    /\ \A a \in acked : a.offset < Len(log) /\ log[a.offset + 1] = a.batch
    /\ \A a, b \in acked : a.offset = b.offset => a = b

(* When nothing goes wrong during the call and every node has applied the  *)
(* same leader, Send succeeds however stale the producer's cache was: one  *)
(* redirect is enough (NOT_LEADER and SetLeader in sendToPartition).       *)
CalmSendSucceeds ==
    (call.at = "idle" /\ call.calm) => call.result = "ok"

(* Every Send returns: the retries of sendToPartition are bounded, even    *)
(* when nodes with stale metadata redirect to each other.                  *)
SendReturns == call.at # "idle" ~> call.at = "idle"

(* 05-data-coordinator.md on a propose timeout: "Batch not committed;      *)
(* client may safely retry (not yet applied, so no duplicate)".            *)
RetryNeverDuplicates ==
    \A i, j \in 1 .. Len(log) : log[i] = log[j] => i = j

(* 05-data-coordinator.md on a shard that is not in the local registry:    *)
(* "Producer retries after a short back-off".                              *)
UnavailableRetried ==
    call.result = "unavailable" => call.attempt = MaxRetries

=============================================================================
