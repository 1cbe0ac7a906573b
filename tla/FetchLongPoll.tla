--------------------------- MODULE FetchLongPoll ---------------------------
(***************************************************************************)
(* Fetch of the data coordinator (internal/coordinator/data/data.go) on    *)
(* the node that holds the partition, with the long poll: handlers wait on *)
(* a channel that storageImpl.Append closes and replaces.  Append does not *)
(* hold one lock over its steps, and a handler takes none at all.          *)
(*                                                                         *)
(* Channels are numbered in the order they are made; a record is one       *)
(* offset.  What Read returns of the stored batches is in PartitionReplica.*)
(***************************************************************************)
EXTENDS Integers

CONSTANTS
    Fetcher,        \* Fetch handlers that run at the same time
    MaxOffset,      \* bound: records appended
    MaxLeaderMoves  \* bound: leader changes in the metadata

ASSUME LongPollAssumption == MaxOffset \in Nat /\ MaxLeaderMoves \in Nat

VARIABLES
    earliest,       \* base offset of the oldest segment
    nextOffset,     \* s.nextOffset
    newDataCh,      \* s.newDataCh
    closed,         \* channels that are closed
    append,         \* what Append does next
    leader,         \* what the local metadata says of the partition's leader
    moves,          \* leader changes so far
    shard,          \* the shard here: served, out of the registry, or stopped
    fetch           \* the handlers: [at, wait, offset, ch, expired, reply]

vars == <<earliest, nextOffset, newDataCh, closed, append, leader, moves, shard, fetch>>

Leader == {"here", "elsewhere", "noTopic"}
Reply == {"none", "data", "empty", "notLeader", "outOfRange", "internal"}
Handler == [at : {"done", "check", "channel", "leader", "read", "wait"},
            wait : BOOLEAN, offset : 0 .. MaxOffset, ch : Nat, expired : BOOLEAN, reply : Reply]

Returned(reply) == [at |-> "done", wait |-> FALSE, offset |-> 0, ch |-> 0,
                    expired |-> FALSE, reply |-> reply]

Init ==
    /\ earliest = 0
    /\ nextOffset = 0
    /\ newDataCh = 0
    /\ closed = {}
    /\ append = "idle"
    /\ leader = "here"
    /\ moves = 0
    /\ shard = "served"
    /\ fetch = [f \in Fetcher |-> Returned("none")]

-----------------------------------------------------------------------------
(* Append: write under segMu, swap the channel under chanMu, close the old *)
(* one.                                                                    *)
SignalFirst(step) ==
    CASE step = "idle" -> "swap" [] step = "swap" -> "close"
      [] step = "close" -> "write" [] step = "write" -> "idle"
AppendOrder(step) ==
    CASE step = "idle" -> "write" [] step = "write" -> "swap"
      [] step = "swap" -> "close" [] step = "close" -> "idle"

AppendStart ==
    /\ append = "idle"
    /\ shard # "stopped"
    /\ nextOffset < MaxOffset
    /\ append' = AppendOrder(append)
    /\ UNCHANGED <<earliest, nextOffset, newDataCh, closed, leader, moves, shard, fetch>>
AppendWrite ==
    /\ append = "write"
    /\ nextOffset' = nextOffset + 1
    /\ append' = AppendOrder(append)
    /\ UNCHANGED <<earliest, newDataCh, closed, leader, moves, shard, fetch>>
AppendSwap ==
    /\ append = "swap"
    /\ newDataCh' = newDataCh + 1
    /\ append' = AppendOrder(append)
    /\ UNCHANGED <<earliest, nextOffset, closed, leader, moves, shard, fetch>>
AppendClose ==
    /\ append = "close"
    /\ closed' = closed \cup {newDataCh - 1}
    /\ append' = AppendOrder(append)
    /\ UNCHANGED <<earliest, nextOffset, newDataCh, leader, moves, shard, fetch>>

(* Retention removes the oldest segment.                                   *)
Retention ==
    /\ earliest < nextOffset
    /\ earliest' = earliest + 1
    /\ UNCHANGED <<nextOffset, newDataCh, closed, append, leader, moves, shard, fetch>>
LeaderMoves ==
    /\ moves < MaxLeaderMoves
    /\ moves' = moves + 1
    /\ \E l \in Leader \ {leader} : leader' = l
    /\ UNCHANGED <<earliest, nextOffset, newDataCh, closed, append, shard, fetch>>

(* StopPartitionReplica, then StopPartitionShard once no Update runs.      *)
StopShard ==
    /\ \/ shard = "served" /\ shard' = "unregistered"
       \/ shard = "unregistered" /\ append = "idle" /\ shard' = "stopped"
    /\ UNCHANGED <<earliest, nextOffset, newDataCh, closed, append, leader, moves, fetch>>

-----------------------------------------------------------------------------
(* The handler: leaderCheck, then the loop of fetchWithLongPoll.           *)
ChannelAfterRead(step) ==
    CASE step = "check" -> "leader" [] step = "leader" -> "read"
      [] step = "read" -> "channel" [] step = "channel" -> "wait"
      [] step = "wait" -> "leader"
LoopOrder(step) ==
    CASE step = "check" -> "channel" [] step = "channel" -> "leader"
      [] step = "leader" -> "read" [] step = "read" -> "wait"
      [] step = "wait" -> "channel"

Others == UNCHANGED <<earliest, nextOffset, newDataCh, closed, append, leader, moves, shard>>

(* mapDataError knows the coordinator's ErrOffsetOutOfRange by identity;   *)
(* storage.ErrOffsetOutOfRange is another value, and nothing translates it.*)
MapDataError(err) ==
    CASE err = "NotLeaderError" -> "notLeader"
      [] err = "data.ErrOffsetOutOfRange" -> "outOfRange"
      [] OTHER -> "internal"

Proceed(f) == fetch' = [fetch EXCEPT ![f].at = LoopOrder(@)]
Return(f, reply) == fetch' = [fetch EXCEPT ![f] = Returned(reply)]
Fail(f, err) == Return(f, MapDataError(err))

Call(f) ==
    /\ fetch[f].at = "done"
    /\ \E o \in 0 .. MaxOffset, w \in BOOLEAN :
          fetch' = [fetch EXCEPT ![f] = [at |-> "check", wait |-> w, offset |-> o,
                                         ch |-> 0, expired |-> FALSE, reply |-> "none"]]
    /\ Others
LeaderCheck(f) ==
    /\ fetch[f].at = "check"
    /\ IF leader = "elsewhere" THEN Fail(f, "NotLeaderError")
       ELSE IF leader = "noTopic" \/ shard # "served" THEN Fail(f, "ErrUnavailable")
       ELSE IF fetch[f].wait THEN Proceed(f)
       ELSE fetch' = [fetch EXCEPT ![f].at = "read"]
    /\ Others

(* The deadline is looked at before the channel is taken.                  *)
TakeChannel(f) ==
    /\ fetch[f].at = "channel"
    /\ IF fetch[f].expired THEN Return(f, "empty")
       ELSE IF shard = "stopped" THEN Fail(f, "ErrShardClosed")
       ELSE fetch' = [fetch EXCEPT ![f].ch = newDataCh, ![f].at = LoopOrder(@)]
    /\ Others

(* The loop looks at the leader again, not at the registry.                *)
LeaderRecheck(f) ==
    /\ fetch[f].at = "leader"
    /\ CASE leader = "here" -> Proceed(f)
         [] leader = "elsewhere" -> Fail(f, "NotLeaderError")
         [] leader = "noTopic" -> Fail(f, "ErrUnavailable")
    /\ Others
Read(f) ==
    /\ fetch[f].at = "read"
    /\ IF shard = "stopped" THEN Fail(f, "ErrShardClosed")
       ELSE IF fetch[f].offset < earliest THEN Fail(f, "storage.ErrOffsetOutOfRange")
       ELSE IF fetch[f].offset < nextOffset THEN Return(f, "data")
       ELSE IF fetch[f].wait THEN Proceed(f) ELSE Return(f, "empty")
    /\ Others
Woken(f) ==
    /\ fetch[f].at = "wait"
    /\ fetch[f].ch \in closed
    /\ Proceed(f)
    /\ Others
TimesOut(f) ==
    /\ fetch[f].at = "wait"
    /\ fetch[f].expired
    /\ Return(f, "empty")
    /\ Others

(* maxWaitMs elapses (or the caller cancels).                              *)
Deadline(f) ==
    /\ fetch[f].at # "done" /\ ~fetch[f].expired
    /\ fetch' = [fetch EXCEPT ![f].expired = TRUE]
    /\ Others

AppendStep == AppendWrite \/ AppendSwap \/ AppendClose
FetchStep(f) ==
    LeaderCheck(f) \/ TakeChannel(f) \/ LeaderRecheck(f) \/ Read(f) \/ Woken(f)

Next ==
    \/ AppendStart \/ AppendStep \/ Retention \/ LeaderMoves \/ StopShard
    \/ \E f \in Fetcher : Call(f) \/ FetchStep(f) \/ TimesOut(f) \/ Deadline(f)

Spec == Init /\ [][Next]_vars

(* Running goroutines are scheduled; nothing is assumed of the deadline,   *)
(* so that a fetch cannot be saved by it.                                  *)
FairSpec ==
    /\ Spec
    /\ WF_vars(AppendStep)
    /\ \A f \in Fetcher : WF_vars(FetchStep(f))

-----------------------------------------------------------------------------
(* Types of the channels and handlers.                                     *)
TypeOK ==
    /\ nextOffset \in 0 .. MaxOffset
    /\ earliest \in 0 .. nextOffset
    /\ newDataCh \in Nat
    /\ closed \subseteq 0 .. newDataCh - 1
    /\ append \in {"idle", "write", "swap", "close"}
    /\ leader \in Leader
    /\ moves \in 0 .. MaxLeaderMoves
    /\ shard \in {"served", "unregistered", "stopped"}
    /\ fetch \in [Fetcher -> Handler]

(* A handler that waits although its record is in the log holds a channel  *)
(* that is closed, or that the Append in progress is about to close: the   *)
(* channel was taken before the read (fetchWithLongPoll, Append).          *)
NoLostWakeup ==
    \A f \in Fetcher :
        (fetch[f].at = "wait" /\ fetch[f].offset < nextOffset) =>
            \/ fetch[f].ch \in closed
            \/ append = "swap" /\ fetch[f].ch = newDataCh
            \/ append = "close" /\ fetch[f].ch = newDataCh - 1

(* A fetch whose record is in the log is answered, with no help from its   *)
(* deadline.                                                               *)
FetchAnswered ==
    \A f \in Fetcher :
        (fetch[f].at # "done" /\ fetch[f].offset < nextOffset)
        ~> fetch[f].at = "done"

(* 05-data-coordinator.md on a fetch below EarliestOffset: "Coordinator    *)
(* returns `OffsetOutOfRange`.  Client must call `GetEarliestOffset` and   *)
(* reset its position", which a client can do only if it is told so.       *)
OutOfRangeReported ==
    [][\A f \in Fetcher :
          (fetch[f].at = "read" /\ shard # "stopped" /\ fetch[f].offset < earliest
             /\ fetch'[f].at = "done")
          => fetch'[f].reply = "outOfRange"]_vars

=============================================================================
