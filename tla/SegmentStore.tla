---------------------------- MODULE SegmentStore ----------------------------
(***************************************************************************)
(* internal/storage below the interface: a partition's log as segments,    *)
(* each an append-only file with a sparse offset index and a sparse time   *)
(* index, written by the partition state machine while other goroutines    *)
(* read through the indexes without a lock and the retention goroutine     *)
(* closes segments.  Byte positions, sizes and index entries are those of  *)
(* the code; a batch is its offset, record count, length and timestamp.    *)
(* Which segments retention picks is PartitionReplica's subject.           *)
(***************************************************************************)
EXTENDS Integers, Sequences, FiniteSetsExt, SequencesExt

CONSTANTS
    Log,                \* replicated logs: sequences of [base, n, len, ts]
    SegmentMaxBytes,
    IndexSampleBytes,
    AllocEntries,       \* entries of a preallocated index file (whole pages)
    Reader, Arg, Limit, \* reading goroutines, what they ask for, maxBytes
    MaxRestarts,        \* bound on crashes and restarts
    CrashInRemove       \* a crash may fall between removing .log and .index

ASSUME SizesAssumption ==
    /\ SegmentMaxBytes \in Nat \ {0}
    /\ IndexSampleBytes \in Nat \ {0}
    /\ CrashInRemove \in BOOLEAN

VARIABLES
    raftLog,    \* the batches the group commits, in order
    pc,         \* where the goroutine of Open, TruncateTo and Append stands
    segs,       \* segments, oldest first; on disk when the process is down
    synced,     \* batches of the last log file known to be on stable storage
    nextOffset,
    sidecar,    \* LatestOffset the state machine saved with its sidecar file
    orphan,     \* index files left without a log file: base -> index
    retiring,   \* segment that left the list and is not closed yet, or None
    closed,     \* segments closed since the process started
    rd,         \* the read of each goroutine
    written,    \* batches appended or recovered since the process started
    restarts

vars == <<raftLog, pc, segs, synced, nextOffset, sidecar, orphan, retiring,
          closed, rd, written, restarts>>

None == <<>>
Idle == [st |-> "idle"]
NoIndex == [off |-> <<>>, time |-> <<>>, since |-> 0]

MaxEntries == (SegmentMaxBytes + IndexSampleBytes - 1) \div IndexSampleBytes

LogSize(s) == IF s.log = <<>> THEN 0 ELSE Last(s.log).pos + Last(s.log).len
EndOffset(s) == IF s.log = <<>> THEN s.base ELSE Last(s.log).base + Last(s.log).n
Active == Len(segs)
Plain(b) == [base |-> b.base, n |-> b.n, len |-> b.len, ts |-> b.ts]
PlainLog(s) == {Plain(b) : b \in Range(s.log)}

-----------------------------------------------------------------------------
(* One batch at byte position pos: an entry in both indexes once           *)
(* IndexSampleBytes have gone by, else only the bytes are counted.         *)
IndexKeepsCounting(ix, base, b, pos) ==
    IF ix.since >= IndexSampleBytes
    THEN [off   |-> Append(ix.off, [rel |-> b.base - base, pos |-> pos]),
          time  |-> Append(ix.time, [ts |-> b.ts, rel |-> b.base - base]),
          since |-> ix.since]
    ELSE [ix EXCEPT !.since = @ + b.len]
IndexCountsBatches(ix, base, b, pos) ==
    IF ix.since >= IndexSampleBytes
    THEN [off   |-> Append(ix.off, [rel |-> b.base - base, pos |-> pos]),
          time  |-> Append(ix.time, [ts |-> b.ts, rel |-> b.base - base]),
          since |-> 0]
    ELSE [ix EXCEPT !.since = @ + 1]
IndexBatch(ix, base, b, pos) ==
    IF ix.since >= IndexSampleBytes
    THEN [off   |-> Append(ix.off, [rel |-> b.base - base, pos |-> pos]),
          time  |-> Append(ix.time, [ts |-> b.ts, rel |-> b.base - base]),
          since |-> 0]
    ELSE [ix EXCEPT !.since = @ + b.len]

(* The indexes a scan of the log from byte 0 produces.                     *)
RebuildIndexes(s) ==
    LET upTo[i \in 0 .. Len(s.log)] ==
            IF i = 0 THEN NoIndex
            ELSE IndexBatch(upTo[i - 1], s.base, s.log[i], s.log[i].pos)
    IN  [s EXCEPT !.ix = upTo[Len(s.log)]]

(* OffsetIndexSegment.Lookup: number of the floor entry, 0 if there is     *)
(* none; lo - 1 is always the last entry found not to exceed rel.          *)
FloorEntry(idx, rel) ==
    LET search[lo \in 1 .. Len(idx) + 1, hi \in 0 .. Len(idx)] ==
            LET mid == (lo + hi) \div 2
            IN  IF lo > hi THEN lo - 1
                ELSE IF idx[mid].rel <= rel THEN search[mid + 1, hi]
                ELSE search[lo, mid - 1]
    IN  search[1, Len(idx)]

(* TimeIndexSegment.Lookup: number of the ceiling entry, Len + 1 if none.  *)
CeilingEntry(idx, ts) ==
    LET search[lo \in 1 .. Len(idx) + 1, hi \in 0 .. Len(idx)] ==
            LET mid == (lo + hi) \div 2
            IN  IF lo > hi THEN hi + 1
                ELSE IF idx[mid].ts >= ts THEN search[lo, mid - 1]
                ELSE search[mid + 1, hi]
    IN  search[1, Len(idx)]

(* ScanFrom over the bytes that were in the file when the scan began; a    *)
(* position that no batch starts at yields nothing.                        *)
ScanFrom(log, pos, size) ==
    LET n == Cardinality({i \in DOMAIN log : log[i].pos + log[i].len <= size})
        at == {i \in 1 .. n : log[i].pos = pos}
    IN  IF at = {} THEN <<>> ELSE SubSeq(log, Min(at), n)

Collect(scan, offset, max) ==
    LET s == SelectSeq(scan, LAMBDA b : b.base + b.n > offset)
        fits == {k \in 1 .. Len(s) :
                    k = 1 \/ s[k].pos + s[k].len - s[1].pos <= max}
    IN  IF s = <<>> THEN s ELSE SubSeq(s, 1, Max(fits))

(* LogSegment.Append: the bytes go to the end of the file.                 *)
AppendLog(s, b) ==
    Append(s.log, [base |-> b.base, n |-> b.n, len |-> b.len, ts |-> b.ts,
                   pos |-> LogSize(s), ok |-> TRUE])

(* Append of either index refuses an entry beyond maxEntries.              *)
IndexFull(ix) == Len(ix.off) >= MaxEntries

(* The entries the size of an index file stands for: a file that was not   *)
(* sealed has its preallocated size, zeros after what was written.         *)
Padded(ix) ==
    [off   |-> ix.off \o [i \in 1 .. AllocEntries - Len(ix.off) |-> [rel |-> 0, pos |-> 0]],
     time  |-> ix.time \o [i \in 1 .. AllocEntries - Len(ix.time) |-> [ts |-> 0, rel |-> 0]],
     since |-> 0]
IndexFile(s) == IF s.sealed THEN [s.ix EXCEPT !.since = 0] ELSE Padded(s.ix)

(* OpenSegmentStorage, read-only: the log as it is, with the index files.  *)
OpenReadOnly(s) == [s EXCEPT !.ix = IndexFile(s), !.sealed = TRUE]

(* NewSegmentStorage; an index file that is already there is taken over    *)
(* with all the entries its size stands for.                               *)
NewSegment(base) ==
    [base |-> base, log |-> <<>>, sealed |-> FALSE,
     ix |-> IF base \in DOMAIN orphan THEN orphan[base] ELSE NoIndex]

-----------------------------------------------------------------------------
(* A new replica whose sidecar file says that it has applied nothing yet;  *)
(* PartitionReplica has the case that the file does not exist.             *)
Init ==
    /\ raftLog \in Log
    /\ pc = "down" /\ segs = <<>> /\ synced = 0
    /\ nextOffset = 0 /\ sidecar = 0
    /\ orphan = [b \in {} |-> NoIndex]
    /\ retiring = None /\ closed = {}
    /\ rd = [r \in Reader |-> Idle]
    /\ written = {} /\ restarts = 0

(* scanActiveLog: the longest prefix of whole batches with a good CRC.     *)
ValidPrefix(log) ==
    SubSeq(log, 1, Max({k \in 0 .. Len(log) : \A i \in 1 .. k : log[i].ok}))

(* recoverStorage, called by Open: segments before the last are opened as  *)
(* they are, the last is cut at its first bad byte and indexed again.      *)
Recover ==
    /\ pc = "down"
    /\ LET last == IF segs = <<>> THEN NewSegment(0)
                   ELSE RebuildIndexes([Last(segs) EXCEPT !.log = ValidPrefix(@),
                                                          !.sealed = FALSE])
       IN  /\ segs' = IF segs = <<>> THEN <<last>>
                      ELSE [i \in 1 .. Active |->
                              IF i < Active THEN OpenReadOnly(segs[i]) ELSE last]
           /\ nextOffset' = EndOffset(last)
           /\ synced' = IF segs = <<>> THEN 0 ELSE Min({synced, Len(last.log)})
    /\ pc' = "opened"
    /\ UNCHANGED <<raftLog, sidecar, orphan, retiring, closed, rd, written, restarts>>

(* TruncateTo(sidecar) at Open: the segments after the one that holds the  *)
(* offset are closed and lose their files, .log first.                     *)
Keep == Max({1} \cup {i \in 1 .. Active : segs[i].base <= sidecar})

TruncateDrop ==
    /\ pc = "opened" /\ sidecar < nextOffset /\ Keep < Active
    /\ LET s == segs[Keep + 1]
       IN  /\ orphan' = [b \in DOMAIN orphan \cup {s.base} |->
                           IF b = s.base THEN IndexFile(s) ELSE orphan[b]]
           /\ closed' = {s}
    /\ segs' = RemoveAt(segs, Keep + 1)
    /\ synced' = IF Keep + 1 = Active THEN Len(segs[Keep].log) ELSE synced
    /\ pc' = "dropindex"
    /\ UNCHANGED <<raftLog, nextOffset, sidecar, retiring, rd, written, restarts>>

TruncateDropIndex ==
    /\ pc = "dropindex"
    /\ orphan' = [b \in DOMAIN orphan \ {s.base : s \in closed} |-> orphan[b]]
    /\ closed' = {}
    /\ pc' = "opened"
    /\ UNCHANGED <<raftLog, segs, synced, nextOffset, sidecar, retiring, rd,
                   written, restarts>>

(* findBytePosForOffset: how many batches precede the offset.              *)
BatchesBefore(s, offset) ==
    LET at == {i \in DOMAIN s.log : s.log[i].base = offset}
    IN  IF offset = s.base THEN 0
        ELSE IF at = {} THEN Len(s.log) ELSE Min(at) - 1

(* The rest of TruncateTo: the segment is writable again, cut and indexed  *)
(* again.                                                                  *)
TruncateCut ==
    /\ pc = "opened" /\ sidecar < nextOffset /\ Keep = Active
    /\ LET k == BatchesBefore(segs[Active], sidecar)
       IN  /\ segs' = [segs EXCEPT ![Active] =
                         RebuildIndexes([@ EXCEPT !.log = SubSeq(@, 1, k),
                                                  !.sealed = FALSE])]
           /\ synced' = Min({synced, k})
    /\ nextOffset' = sidecar
    /\ UNCHANGED <<raftLog, pc, sidecar, orphan, retiring, closed, rd, written, restarts>>

(* The state machine is open and serves.                                   *)
Serve ==
    /\ pc = "opened" /\ nextOffset = sidecar
    /\ written' = UNION {PlainLog(s) : s \in Range(segs)}
    /\ pc' = "ready"
    /\ UNCHANGED <<raftLog, segs, synced, nextOffset, sidecar, orphan, retiring,
                   closed, rd, restarts>>

-----------------------------------------------------------------------------
(* The process dies: what it wrote is in the files, except what power loss *)
(* takes.  A segment that left the list but is not removed is back.        *)
Disk == IF retiring = None THEN segs
        ELSE SortSeq(Append(segs, retiring), LAMBDA s, t : s.base < t.base)

Die ==
    /\ pc' = "down"
    /\ nextOffset' = 0
    /\ retiring' = None /\ closed' = {}
    /\ rd' = [r \in Reader |-> Idle]
    /\ written' = {}
    /\ restarts' = Min({restarts + 1, MaxRestarts})
    /\ UNCHANGED <<raftLog, sidecar, orphan>>

MayCrash == pc # "down" /\ restarts < MaxRestarts /\ (pc = "dropindex" => CrashInRemove)

ProcessCrash ==
    /\ MayCrash
    /\ segs' = Disk
    /\ Die
    /\ UNCHANGED synced

(* Of the batches not synced any number is in the file, and any of these   *)
(* may lack bytes.                                                         *)
PowerLoss ==
    /\ MayCrash /\ synced < Len(segs[Active].log)
    /\ \E n \in synced .. Len(segs[Active].log) :
          \E bad \in SUBSET (synced + 1 .. n) :
              segs' = [Disk EXCEPT ![Len(Disk)].log =
                         [i \in 1 .. n |-> [@[i] EXCEPT !.ok = i \notin bad]]]
    /\ Die
    /\ UNCHANGED synced

(* Storage.Close, when every caller has stopped: the last segment is       *)
(* sealed and all are closed.                                              *)
Close ==
    /\ pc = "ready" /\ restarts < MaxRestarts
    /\ retiring = None /\ \A r \in Reader : rd[r].st \in {"idle", "replied"}
    /\ segs' = [segs EXCEPT ![Active].sealed = TRUE]
    /\ synced' = Len(segs[Active].log)
    /\ Die

-----------------------------------------------------------------------------
(* Update: the next committed batch is written to the active log and       *)
(* indexed; a full index is an error, on which the process stops.  A full  *)
(* segment is rolled under the same lock.                                  *)
AppendBatch ==
    /\ pc = "ready"
    /\ \E b \in Range(raftLog) :
          /\ b.base = nextOffset
          /\ LET s == segs[Active]
                 t == [s EXCEPT !.log = AppendLog(s, b),
                                !.ix = IndexBatch(@, s.base, b, LogSize(s))]
             IN  IF s.ix.since >= IndexSampleBytes /\ IndexFull(s.ix)
                 THEN /\ segs' = [Disk EXCEPT ![Len(Disk)].log = AppendLog(s, b)]
                      /\ Die
                      /\ UNCHANGED synced
                 ELSE /\ segs' = [segs EXCEPT ![Active] = t]
                      /\ nextOffset' = b.base + b.n
                      /\ written' = written \cup {b}
                      /\ pc' = IF LogSize(t) >= SegmentMaxBytes THEN "seal" ELSE "ready"
                      /\ UNCHANGED <<raftLog, synced, sidecar, orphan, retiring,
                                     closed, rd, restarts>>

(* Seal: the indexes are truncated and unmapped ...                        *)
Unmap ==
    /\ pc = "seal"
    /\ pc' = "remap"
    /\ UNCHANGED <<raftLog, segs, synced, nextOffset, sidecar, orphan, retiring,
                   closed, rd, written, restarts>>

(* ... mapped again for reading, and the log is synced.                    *)
Seal ==
    /\ pc = "remap"
    /\ segs' = [segs EXCEPT ![Active].sealed = TRUE]
    /\ synced' = Len(segs[Active].log)
    /\ pc' = "newseg"
    /\ UNCHANGED <<raftLog, nextOffset, sidecar, orphan, retiring, closed, rd,
                   written, restarts>>

Roll ==
    /\ pc = "newseg"
    /\ segs' = Append(segs, NewSegment(nextOffset))
    /\ orphan' = [b \in DOMAIN orphan \ {nextOffset} |-> orphan[b]]
    /\ synced' = 0
    /\ pc' = "ready"
    /\ UNCHANGED <<raftLog, nextOffset, sidecar, retiring, closed, rd, written, restarts>>

(* The end of Update: Sync, then the sidecar file.                         *)
Sync ==
    /\ pc = "ready" /\ synced < Len(segs[Active].log)
    /\ synced' = Len(segs[Active].log)
    /\ UNCHANGED <<raftLog, pc, segs, nextOffset, sidecar, orphan, retiring,
                   closed, rd, written, restarts>>

SaveSidecar ==
    /\ pc = "ready" /\ synced = Len(segs[Active].log) /\ sidecar < nextOffset
    /\ sidecar' = nextOffset
    /\ UNCHANGED <<raftLog, pc, segs, synced, nextOffset, orphan, retiring,
                   closed, rd, written, restarts>>

(* EnforceRetention: a sealed segment, older than the last save, leaves    *)
(* the list under the lock ...                                             *)
RetentionRemove ==
    /\ pc = "ready" /\ retiring = None
    /\ \E i \in 1 .. Active - 1 :
          /\ EndOffset(segs[i]) <= sidecar
          /\ retiring' = segs[i]
          /\ segs' = RemoveAt(segs, i)
    /\ UNCHANGED <<raftLog, pc, synced, nextOffset, sidecar, orphan, closed, rd,
                   written, restarts>>

(* ... and is closed, unmapped and removed without it.                     *)
RetentionClose ==
    /\ retiring # None
    /\ closed' = closed \cup {retiring}
    /\ retiring' = None
    /\ UNCHANGED <<raftLog, pc, segs, synced, nextOffset, sidecar, orphan, rd,
                   written, restarts>>

-----------------------------------------------------------------------------
(* Readers.  A call copies the list of segments under the lock and goes on *)
(* without it.                                                             *)
Replied(kind, data, nxt) ==
    [st |-> "replied", kind |-> kind, data |-> {Plain(b) : b \in Range(data)}, nxt |-> nxt]

Call(st, kind, arg, max, list, off) ==
    [st |-> st, kind |-> kind, arg |-> arg, max |-> max, seen |-> nextOffset,
     list |-> list, off |-> off, cnt |-> 0, from |-> 0, size |-> 0]

Set(r, c) ==
    /\ rd' = [rd EXCEPT ![r] = c]
    /\ UNCHANGED <<raftLog, pc, segs, synced, nextOffset, sidecar, orphan,
                   retiring, closed, written, restarts>>

MayCall(r) == pc = "ready" /\ rd[r].st \in {"idle", "replied"}

(* storageImpl.Read up to the choice of the segment.                       *)
Read(r) ==
    /\ MayCall(r)
    /\ \E o \in Arg, max \in Limit :
          LET at == {i \in 1 .. Active : segs[i].base <= o}
          IN  Set(r, IF o < segs[1].base \/ o >= nextOffset
                     THEN Call("early", "offset", o, max, <<>>, o)
                     ELSE Call("count", "offset", o, max, <<segs[Max(at)].base>>, o))

(* Its early returns: out of range, and nothing to read yet.               *)
ReadEarly(r) ==
    /\ rd[r].st = "early"
    /\ Set(r, Replied("offset", <<>>, IF rd[r].arg >= rd[r].seen THEN rd[r].arg ELSE -1))

(* ReadByTime visits every segment of the list.                            *)
ReadByTime(r) ==
    /\ MayCall(r)
    /\ \E ts \in Arg, max \in Limit :
          Set(r, Call("time", "time", ts, max, [i \in 1 .. Active |-> segs[i].base], 0))

(* PartitionOffsets: EarliestOffset, then LatestOffset.                    *)
PartitionOffsets(r) ==
    /\ MayCall(r)
    /\ Set(r, Call("latest", "range", segs[1].base, Min(Limit), <<>>, 0))

LatestOffset(r) ==
    /\ rd[r].st = "latest" /\ pc = "ready"
    /\ Set(r, Replied("range", <<>>, nextOffset))

(* The segment a reader holds, in the list or not.                         *)
Held(r) ==
    CHOOSE s \in Range(segs) \cup closed \cup (IF retiring = None THEN {} ELSE {retiring}) :
        s.base = Head(rd[r].list)

IsClosed(s) == s \in closed
Unmapped(s) == IsClosed(s) \/ (pc = "remap" /\ s.base = segs[Active].base)

NextSegment(c) ==
    IF Tail(c.list) = <<>> THEN Replied("time", <<>>, -1)
    ELSE [c EXCEPT !.list = Tail(@), !.st = "time"]

(* SegmentStorage.ReadByTime: the time index, then Read at what it found.  *)
TimeLookup(r) ==
    /\ rd[r].st = "time"
    /\ LET c == rd[r]
           s == Held(r)
           e == CeilingEntry(s.ix.time, c.arg)
       IN  /\ ~Unmapped(s) \/ s.ix.time = <<>>
           /\ Set(r, IF e > Len(s.ix.time) THEN NextSegment(c)
                     ELSE [c EXCEPT !.st = "count", !.off = s.base + s.ix.time[e].rel])

(* OffsetIndexSegment.Lookup loads the entry count ...                     *)
LoadCount(r) ==
    /\ rd[r].st = "count"
    /\ LET s == Held(r)
       IN  Set(r, [rd[r] EXCEPT !.st = IF s.ix.off = <<>> THEN "scan" ELSE "search",
                                !.cnt = Len(s.ix.off), !.size = LogSize(s)])

(* ... and searches the mapped entries; ScanFrom then loads the log size.  *)
Search(r) ==
    /\ rd[r].st = "search"
    /\ LET s == Held(r)
           c == rd[r]
           e == FloorEntry(SubSeq(s.ix.off, 1, c.cnt), c.off - s.base)
       IN  /\ ~Unmapped(s)
           /\ Set(r, [c EXCEPT !.st = "scan", !.cnt = 0, !.size = LogSize(s),
                               !.from = IF e = 0 THEN 0 ELSE s.ix.off[e].pos])

(* SegmentStorage.Read: the scan.  A file that is closed meanwhile ends it *)
(* early, and the error is dropped.                                        *)
FinishScan(r) ==
    /\ rd[r].st = "scan"
    /\ LET s == Held(r)
           c == rd[r]
           all == Collect(ScanFrom(s.log, c.from, c.size), c.off, c.max)
       IN  \E k \in 0 .. Len(all) :
              /\ k < Len(all) => IsClosed(s)
              /\ Set(r, IF k = 0 /\ c.kind = "time" THEN NextSegment(c)
                        ELSE Replied(c.kind, SubSeq(all, 1, k),
                                     IF k = 0 THEN c.off ELSE all[k].base + all[k].n))

(* A search of an index that is not mapped kills the process.              *)
AtUnmapped(r) ==
    /\ rd[r].st = "search" \/ (rd[r].st = "time" /\ Held(r).ix.time # <<>>)
    /\ Unmapped(Held(r))
Fault ==
    /\ \E r \in Reader : AtUnmapped(r)
    /\ segs' = Disk
    /\ Die
    /\ UNCHANGED synced

Next ==
    \/ Recover \/ TruncateDrop \/ TruncateDropIndex \/ TruncateCut \/ Serve
    \/ ProcessCrash \/ PowerLoss \/ Close \/ Fault
    \/ AppendBatch \/ Unmap \/ Seal \/ Roll \/ Sync \/ SaveSidecar
    \/ RetentionRemove \/ RetentionClose
    \/ \E r \in Reader :
          \/ Read(r) \/ ReadEarly(r) \/ ReadByTime(r) \/ PartitionOffsets(r)
          \/ LatestOffset(r) \/ TimeLookup(r) \/ LoadCount(r) \/ Search(r) \/ FinishScan(r)

Spec == Init /\ [][Next]_vars

-----------------------------------------------------------------------------
(* The interface, as the state machine and its readers see it.             *)
Serving == pc \in {"ready", "seal", "remap", "newseg"}

OnDisk == UNION {PlainLog(s) : s \in Range(segs)}
Saved == {b \in OnDisk : b.base + b.n <= sidecar}

Visible(c) ==
    IF c.st \in {"idle", "replied"} THEN c
    ELSE [st |-> "pending", kind |-> c.kind, arg |-> c.arg, max |-> c.max, seen |-> c.seen]

Abstract ==
    INSTANCE Storage
        WITH Batch   <- UNION {Range(l) : l \in Log},
             Arg     <- Arg \cup UNION {{b.base, b.base + b.n} :
                                          b \in UNION {Range(l) : l \in Log}},
             written <- IF Serving THEN written ELSE Saved,
             stored  <- IF Serving THEN OnDisk ELSE Saved,
             next    <- IF Serving THEN nextOffset ELSE sidecar,
             durable <- sidecar,
             call    <- [r \in Reader |-> Visible(rd[r])]


(* An index has room for the entry Append is about to add: preallocating   *)
(* ceil(SegmentMaxBytes / IndexSampleBytes) entries is enough.             *)
IndexFits ==
    pc = "ready" /\ segs[Active].ix.since >= IndexSampleBytes
        => ~IndexFull(segs[Active].ix)

(* The time index is sparse but tight: in a segment whose batches are in   *)
(* timestamp order, what ReadByTime skips of the batches that qualify is   *)
(* less than IndexSampleBytes and one batch.                               *)
TimeIndexTight ==
    Serving => \A s \in Range(segs), ts \in Arg :
        LET lenOf(b) == b.len
            longest == Max({0} \cup {b.len : b \in Range(s.log)})
            e == CeilingEntry(s.ix.time, ts)
            skipped == {b \in Range(s.log) : /\ b.ts >= ts
                                             /\ e <= Len(s.ix.time) =>
                                                  b.base < s.base + s.ix.time[e].rel}
        IN  (\A i, j \in DOMAIN s.log : i < j => s.log[i].ts <= s.log[j].ts)
                => MapThenSumSet(lenOf, skipped) < IndexSampleBytes + longest
                   \/ skipped = {}

(* Stated by the comments and refuted.  Read and ReadByTime "may be called *)
(* concurrently" (storage.go, Storage): no reader is ever about to search  *)
(* an index that is not mapped.                                            *)
NoReaderFault == \A r \in Reader : ~AtUnmapped(r)

(* ReadByTime starts "at the first batch" whose timestamp is not below the *)
(* one asked for: none that qualifies precedes the time index's answer.    *)
ByTimeFindsFirst ==
    pc = "ready" => \A s \in Range(segs), ts \in Arg :
        LET e == CeilingEntry(s.ix.time, ts)
        IN  \A b \in Range(s.log) : b.ts >= ts =>
                e <= Len(s.ix.time) /\ s.base + s.ix.time[e].rel <= b.base

=============================================================================
