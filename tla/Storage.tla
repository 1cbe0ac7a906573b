------------------------------ MODULE Storage ------------------------------
(***************************************************************************)
(* What the interface Storage (internal/storage/storage.go) promises the   *)
(* partition state machine and its readers, without segments, files or     *)
(* indexes: a set of batches at consecutive offsets that grows at its end, *)
(* loses batches to retention and, when the process dies, goes back to the *)
(* offset that was saved last.  A read is a call and, later, a reply.      *)
(***************************************************************************)
EXTENDS Integers, FiniteSetsExt

CONSTANTS
    Reader,     \* goroutines that may have one read in progress
    Batch,      \* [base, n, len, ts]: offset, record count, bytes, max_timestamp
    Arg,        \* offsets and timestamps that are asked for
    Limit       \* values of maxBytes

VARIABLES
    written,    \* batches appended or recovered since the process started
    stored,     \* batches in the log now
    next,       \* LatestOffset
    durable,    \* LatestOffset when the log was last saved
    call        \* the read of each goroutine

storageVars == <<written, stored, next, durable, call>>

Idle == [st |-> "idle"]
BatchEnd(b) == b.base + b.n
Covers(b, o) == b.base <= o /\ o < BatchEnd(b)
Bytes(run) == MapThenSumSet(LAMBDA b : b.len, run)
First(run) == CHOOSE b \in run : \A c \in run : b.base <= c.base
RunEnd(run) == Max({BatchEnd(b) : b \in run})

(* A non-empty run of batches without a gap that starts at b and stays     *)
(* within the limit, or is b alone.                                        *)
IsRun(run, b, limit) ==
    /\ b \in run
    /\ \A c \in run \ {b} : c.base > b.base /\ \E d \in run : BatchEnd(d) = c.base
    /\ run = {b} \/ Bytes(run) <= limit

Init ==
    /\ written = {} /\ stored = {}
    /\ next = 0 /\ durable = 0
    /\ call = [r \in Reader |-> Idle]

(* Append returns the offset after the last one.                           *)
Append ==
    /\ \E b \in Batch :
          /\ b.base = next
          /\ written' = written \cup {b}
          /\ stored' = stored \cup {b}
          /\ next' = BatchEnd(b)
    /\ UNCHANGED <<durable, call>>

(* Sync, and the sidecar that remembers LatestOffset.                      *)
Save ==
    /\ durable' = next
    /\ UNCHANGED <<written, stored, next, call>>

(* EnforceRetention.                                                       *)
Remove ==
    /\ stored' \in SUBSET stored
    /\ UNCHANGED <<written, next, durable, call>>

(* The process dies; Open and TruncateTo bring back the log as it was      *)
(* saved.  A removal that had not finished may be undone.                  *)
Restart ==
    /\ next' = durable
    /\ stored' \in SUBSET {b \in written : BatchEnd(b) <= durable}
    /\ {b \in stored : BatchEnd(b) <= durable} \subseteq stored'
    /\ written' = stored'
    /\ call' = [r \in Reader |-> Idle]
    /\ UNCHANGED durable

Request(r) ==
    /\ call[r].st # "pending"
    /\ \E kind \in {"offset", "time", "range"}, arg \in Arg, max \in Limit :
          call' = [call EXCEPT ![r] = [st |-> "pending", kind |-> kind,
                                       arg |-> arg, max |-> max, seen |-> next]]
    /\ UNCHANGED <<written, stored, next, durable>>

(* Read: the run starts at the batch that holds the offset.  Nothing is    *)
(* returned only at the end of the log, or when no batch of the log holds  *)
(* the offset; an error only when it lies below the end.                   *)
ReadReply(c, data, nxt) ==
    \/ /\ data # {}
       /\ Covers(First(data), c.arg)
       /\ IsRun(data, First(data), c.max)
       /\ nxt = RunEnd(data)
    \/ /\ data = {}
       /\ c.arg >= c.seen \/ ~\E b \in stored : Covers(b, c.arg)
       /\ nxt = c.arg \/ (nxt = -1 /\ c.arg < next)

(* ReadByTime: a run that starts at a batch that is not too old.           *)
TimeReply(c, data, nxt) ==
    \/ data = {} /\ nxt = -1
    \/ /\ data # {}
       /\ First(data).ts >= c.arg
       /\ IsRun(data, First(data), c.max)
       /\ nxt = RunEnd(data)

(* PartitionOffsets asks for the earliest and then for the latest offset:  *)
(* arg is the first, nxt the second.                                       *)
RangeReply(c, data, nxt) == data = {} /\ c.arg <= nxt /\ c.seen <= nxt /\ nxt <= next

Reply(r) ==
    /\ call[r].st = "pending"
    /\ \E data \in SUBSET written, nxt \in -1 .. Max({next, call[r].arg}) :
          /\ \/ call[r].kind = "offset" /\ ReadReply(call[r], data, nxt)
             \/ call[r].kind = "time" /\ TimeReply(call[r], data, nxt)
             \/ call[r].kind = "range" /\ RangeReply(call[r], data, nxt)
          /\ call' = [call EXCEPT ![r] = [st |-> "replied", kind |-> call[r].kind,
                                          data |-> data, nxt |-> nxt]]
    /\ UNCHANGED <<written, stored, next, durable>>

Next ==
    \/ Append \/ Save \/ Remove \/ Restart
    \/ \E r \in Reader : Request(r) \/ Reply(r)

Spec == Init /\ [][Next]_storageVars

=============================================================================
