-------------------------- MODULE PartitionReplica --------------------------
(***************************************************************************)
(* One replica of one partition: the on-disk state machine PartitionFSM    *)
(* (internal/partition) over the segmented log of internal/storage, driven *)
(* by the committed entries of its Raft shard, with crashes at every point *)
(* where the disk differs from memory.                                     *)
(*                                                                         *)
(* A batch is its base offset, its record count, its first timestamp and   *)
(* (history) the Raft index it came from; one record is one byte.  Index   *)
(* files are rebuilt by recovery and are not part of this module.          *)
(***************************************************************************)
EXTENDS Integers, Sequences, FiniteSetsExt, SequencesExt

CONSTANTS
    RecordCount,        \* records a produced batch may hold
    Timestamp,          \* base timestamps producers may stamp
    RetentionConfig,    \* [ms, bytes] settings AlterTopicRetention may send
    DefaultRetention,   \* cfg.DefaultRetentionMs, cfg.DefaultRetentionBytes
    Clock,              \* readings time.Now() may give to EnforceRetention
    SegmentMaxBytes,    \* cfg.SegmentMaxBytes
    NoSidecar,          \* the sidecar file does not exist
    MaxEntries,         \* bound: entries in the Raft log
    MaxUpdate,          \* bound: entries dragonboat passes to one Update
    MaxRestarts         \* bound: crashes and clean shutdowns

ASSUME ReplicaAssumption ==
    /\ RecordCount \subseteq Nat \ {0}
    /\ Timestamp \subseteq Nat
    /\ SegmentMaxBytes \in Nat \ {0}
    /\ MaxEntries \in Nat /\ MaxUpdate \in Nat \ {0} /\ MaxRestarts \in Nat

VARIABLES
    raftLog,    \* committed entries of the shard (dragonboat, external)
    segments,   \* the .log files in base-offset order
    synced,     \* batches of the last file known to be on stable storage
    sidecar,    \* sidecar file: [index, latest] or NoSidecar
    pc,         \* what the FSM goroutine does next
    nextOffset, \* s.nextOffset
    applied,    \* lastAppliedIndex
    cursor,     \* next entry of the current Update
    updEnd,     \* last entry of the current Update
    retention,  \* s.retentionMs, s.retentionBytes
    doomed,     \* base offsets EnforceRetention has still to delete
    restarts,   \* bounds the crashes
    replayed    \* history: a log without a sidecar was replayed from entry 1

memory == <<nextOffset, applied, cursor, updEnd, retention, doomed>>
vars == <<raftLog, segments, synced, sidecar, pc, memory, restarts, replayed>>

AppendEntry == [type : {"append"}, n : RecordCount, ts : Timestamp]
RetentionEntry == [type : {"retention"}, n : {0}, cfg : RetentionConfig]

(* The goroutine holds segMu while it appends and rolls.                   *)
Serving == {"idle", "update", "sidecar"}
PC == {"down", "opened", "truncate", "seal", "newseg", "corrupt"} \cup Serving

-----------------------------------------------------------------------------
(* Segments.                                                               *)
LogSize(seg) == MapThenSumSet(LAMBDA i : seg.batches[i].n, DOMAIN seg.batches)
EndOffset(seg) ==
    IF seg.batches = <<>> THEN seg.base
    ELSE Last(seg.batches).base + Last(seg.batches).n
Active == Len(segments)

(* storageImpl.Read: the last segment whose base is at or below offset,    *)
(* then the first batch there that ends above it.                          *)
SegmentStrictlyBelow(offset) ==
    Max({1} \cup {i \in 1 .. Active : segments[i].base < offset})
SegmentFor(offset) ==
    Max({1} \cup {i \in 1 .. Active : segments[i].base <= offset})
Read(offset) ==
    SelectSeq(segments[SegmentFor(offset)].batches,
              LAMBDA b : b.base + b.n > offset)

-----------------------------------------------------------------------------
Init ==
    /\ raftLog = <<>>
    /\ segments = <<>>
    /\ synced = 0
    /\ sidecar = NoSidecar
    /\ pc = "down"
    /\ nextOffset = 0 /\ applied = 0 /\ cursor = 0 /\ updEnd = 0
    /\ retention = DefaultRetention
    /\ doomed = {}
    /\ restarts = 0
    /\ replayed = FALSE

(* Raft commits a produced batch or a retention setting.                   *)
Commit ==
    /\ Len(raftLog) < MaxEntries
    /\ \E e \in AppendEntry \cup RetentionEntry : raftLog' = Append(raftLog, e)
    /\ UNCHANGED <<segments, synced, sidecar, pc, memory, restarts, replayed>>

(* stor.Open: recoverStorage scans the last file and takes nextOffset from *)
(* it; an empty directory gets a first segment.  The retention settings    *)
(* start from the defaults.                                                *)
Recover ==
    /\ pc = "down"
    /\ segments' = IF segments = <<>> THEN <<[base |-> 0, batches |-> <<>>]>>
                                      ELSE segments
    /\ nextOffset' = EndOffset(Last(segments'))
    /\ retention' = DefaultRetention
    /\ pc' = "opened"
    /\ UNCHANGED <<raftLog, synced, sidecar, applied, cursor, updEnd, doomed,
                   restarts, replayed>>

(* PartitionFSM.Open: without a sidecar dragonboat replays from entry 1;   *)
(* with one, what the log holds beyond it is cut.                          *)
OpenNeverTruncates ==
    /\ pc = "opened"
    /\ applied' = IF sidecar = NoSidecar THEN 0 ELSE sidecar.index
    /\ pc' = "idle"
    /\ replayed' = (replayed \/ (sidecar = NoSidecar /\ nextOffset > 0))
    /\ UNCHANGED <<raftLog, segments, synced, sidecar, nextOffset, cursor,
                   updEnd, retention, doomed, restarts>>
OpenSidecar ==
    /\ pc = "opened"
    /\ \/ /\ sidecar = NoSidecar
          /\ applied' = 0
          /\ pc' = "idle"
          /\ replayed' = (replayed \/ nextOffset > 0)
       \/ /\ sidecar # NoSidecar
          /\ pc' = IF nextOffset > sidecar.latest THEN "truncate" ELSE "idle"
          /\ applied' = sidecar.index
          /\ UNCHANGED replayed
    /\ UNCHANGED <<raftLog, segments, synced, sidecar, nextOffset, cursor,
                   updEnd, retention, doomed, restarts>>

(* TruncateTo: the segments above the one that holds the offset are        *)
(* removed one file at a time, oldest first.                               *)
TruncateDrop ==
    LET lo == SegmentFor(sidecar.latest) IN
    /\ pc = "truncate"
    /\ lo < Active
    /\ segments' = RemoveAt(segments, lo + 1)
    /\ synced' = IF lo + 1 = Active THEN Len(segments[lo].batches) ELSE synced
    /\ UNCHANGED <<raftLog, sidecar, pc, memory, restarts, replayed>>

(* findBytePosForOffset: how many batches stay; all of them when none      *)
(* starts at the offset.                                                   *)
BatchesKept(seg, offset) ==
    IF offset = seg.base THEN 0
    ELSE LET at == {i \in DOMAIN seg.batches : seg.batches[i].base = offset}
         IN IF at = {} THEN Len(seg.batches) ELSE Min(at) - 1

(* The cut itself.  A log that does not end at the offset afterwards is    *)
(* corrupt (offsets would repeat, or be skipped) and is followed no        *)
(* further.                                                                *)
TruncateCut ==
    LET kept == BatchesKept(segments[Active], sidecar.latest) IN
    /\ pc = "truncate"
    /\ SegmentFor(sidecar.latest) = Active
    /\ segments' = [segments EXCEPT ![Active].batches = SubSeq(@, 1, kept)]
    /\ synced' = Min({synced, kept})
    /\ nextOffset' = sidecar.latest
    /\ pc' = IF EndOffset(Last(segments')) = sidecar.latest THEN "idle"
                                                            ELSE "corrupt"
    /\ UNCHANGED <<raftLog, sidecar, applied, cursor, updEnd, retention,
                   doomed, restarts, replayed>>

-----------------------------------------------------------------------------
(* Update(entries): dragonboat hands over the next committed entries.      *)
BeginFullUpdate ==
    /\ pc = "idle"
    /\ applied + MaxUpdate <= Len(raftLog)
    /\ cursor' = applied + 1
    /\ updEnd' = applied + MaxUpdate
    /\ pc' = "update"
    /\ UNCHANGED <<raftLog, segments, synced, sidecar, nextOffset, applied,
                   retention, doomed, restarts, replayed>>
BeginUpdate ==
    /\ pc = "idle"
    /\ \E k \in 1 .. MaxUpdate :
          /\ applied + k <= Len(raftLog)
          /\ updEnd' = applied + k
    /\ cursor' = applied + 1
    /\ pc' = "update"
    /\ UNCHANGED <<raftLog, segments, synced, sidecar, nextOffset, applied,
                   retention, doomed, restarts, replayed>>

(* storage.Append stamps the batch with nextOffset and writes it; a full   *)
(* segment is rolled before the lock is released.                          *)
ApplyAppend ==
    /\ pc = "update" /\ cursor <= updEnd
    /\ raftLog[cursor].type = "append"
    /\ LET e == raftLog[cursor]
           b == [base |-> nextOffset, n |-> e.n, ts |-> e.ts, idx |-> cursor]
       IN /\ segments' = [segments EXCEPT ![Active].batches = Append(@, b)]
          /\ nextOffset' = nextOffset + e.n
    /\ cursor' = cursor + 1
    /\ pc' = IF LogSize(Last(segments')) >= SegmentMaxBytes THEN "seal"
                                                            ELSE "update"
    /\ UNCHANGED <<raftLog, synced, sidecar, applied, updEnd, retention,
                   doomed, restarts, replayed>>

(* roll: Seal ends with an fsync of the log, then the next file is made.   *)
SealIndexesOnly ==
    /\ pc = "seal"
    /\ pc' = "newseg"
    /\ UNCHANGED <<raftLog, segments, synced, sidecar, memory, restarts, replayed>>
Seal ==
    /\ pc = "seal"
    /\ synced' = Len(segments[Active].batches)
    /\ pc' = "newseg"
    /\ UNCHANGED <<raftLog, segments, sidecar, memory, restarts, replayed>>
NewSegment ==
    /\ pc = "newseg"
    /\ segments' = Append(segments, [base |-> nextOffset, batches |-> <<>>])
    /\ synced' = 0
    /\ pc' = "update"
    /\ UNCHANGED <<raftLog, sidecar, memory, restarts, replayed>>

ApplyRetentionConfig ==
    /\ pc = "update" /\ cursor <= updEnd
    /\ raftLog[cursor].type = "retention"
    /\ retention' = raftLog[cursor].cfg
    /\ cursor' = cursor + 1
    /\ UNCHANGED <<raftLog, segments, synced, sidecar, pc, nextOffset, applied,
                   updEnd, doomed, restarts, replayed>>

(* persistApplied: fsync the active log, then replace the sidecar by       *)
(* writing, syncing and renaming a temporary file.                         *)
SkipSync ==
    /\ pc = "update" /\ cursor > updEnd
    /\ pc' = "sidecar"
    /\ UNCHANGED <<raftLog, segments, synced, sidecar, memory, restarts, replayed>>
SyncLog ==
    /\ pc = "update" /\ cursor > updEnd
    /\ synced' = Len(segments[Active].batches)
    /\ pc' = "sidecar"
    /\ UNCHANGED <<raftLog, segments, sidecar, memory, restarts, replayed>>
PersistNextIndex ==
    /\ pc = "sidecar"
    /\ sidecar' = [index |-> cursor, latest |-> nextOffset]
    /\ applied' = cursor
    /\ cursor' = 0 /\ updEnd' = 0
    /\ pc' = "idle"
    /\ UNCHANGED <<raftLog, segments, synced, nextOffset, retention, doomed,
                   restarts, replayed>>
PersistSidecar ==
    /\ pc = "sidecar"
    /\ sidecar' = [index |-> updEnd, latest |-> nextOffset]
    /\ applied' = updEnd
    /\ cursor' = 0 /\ updEnd' = 0
    /\ pc' = "idle"
    /\ UNCHANGED <<raftLog, segments, synced, nextOffset, retention, doomed,
                   restarts, replayed>>

-----------------------------------------------------------------------------
(* EnforceRetention, on the background goroutine.  Bytes: the oldest       *)
(* sealed segments while the rest exceeds the cap.  Time: the segments     *)
(* whose successor starts with a batch older than now - retentionMs.       *)
SizeFrom(i) == MapThenSumSet(LAMBDA j : LogSize(segments[j]), i .. Active)
OverBytes ==
    {i \in 1 .. Active - 1 : retention.bytes >= 0 /\ SizeFrom(i) > retention.bytes}
ExpiredInverted(now) ==
    {i \in 1 .. Active - 1 :
        /\ retention.ms > 0
        /\ segments[i + 1].batches # <<>>
        /\ Head(segments[i + 1].batches).ts >= now - retention.ms}
Expired(now) ==
    {i \in 1 .. Active - 1 :
        /\ retention.ms > 0
        /\ segments[i + 1].batches # <<>>
        /\ Head(segments[i + 1].batches).ts < now - retention.ms}

RetentionMark ==
    /\ pc \in Serving
    /\ doomed = {}
    /\ \E now \in Clock :
          doomed' = {segments[i].base : i \in OverBytes \cup Expired(now)}
    /\ UNCHANGED <<raftLog, segments, synced, sidecar, pc, nextOffset, applied,
                   cursor, updEnd, retention, restarts, replayed>>

RetentionDelete ==
    /\ pc \in Serving
    /\ doomed # {}
    /\ segments' = SelectSeq(segments, LAMBDA s : s.base # Min(doomed))
    /\ doomed' = doomed \ {Min(doomed)}
    /\ UNCHANGED <<raftLog, synced, sidecar, pc, nextOffset, applied, cursor,
                   updEnd, retention, restarts, replayed>>

-----------------------------------------------------------------------------
Stopped ==
    /\ restarts < MaxRestarts
    /\ restarts' = restarts + 1
    /\ pc' = "down"
    /\ nextOffset' = 0 /\ applied' = 0 /\ cursor' = 0 /\ updEnd' = 0
    /\ retention' = DefaultRetention
    /\ doomed' = {}
    /\ UNCHANGED <<raftLog, sidecar, replayed>>

(* The process dies; the page cache survives.                              *)
ProcessCrash ==
    /\ pc \notin {"down", "corrupt"}
    /\ Stopped
    /\ UNCHANGED <<segments, synced>>

(* The machine dies: any suffix of the unsynced batches is lost (a torn    *)
(* batch is cut off by the CRC scan of recovery).                          *)
PowerLoss ==
    /\ pc \notin {"down", "corrupt"}
    /\ Stopped
    /\ \E k \in synced .. Len(segments[Active].batches) :
          /\ segments' = [segments EXCEPT ![Active].batches = SubSeq(@, 1, k)]
          /\ synced' = k

(* PartitionFSM.Close between two Updates: the active segment is sealed.   *)
Close ==
    /\ pc = "idle"
    /\ Stopped
    /\ synced' = Len(segments[Active].batches)
    /\ UNCHANGED segments

(* Nothing is followed after a corrupt truncation.                         *)
Halted == pc = "corrupt" /\ UNCHANGED vars

Apply ==
    \/ Recover \/ OpenSidecar \/ TruncateDrop \/ TruncateCut
    \/ BeginUpdate \/ ApplyAppend \/ Seal \/ NewSegment
    \/ ApplyRetentionConfig \/ SyncLog \/ PersistSidecar
Retain == RetentionMark \/ RetentionDelete
Stop == ProcessCrash \/ PowerLoss \/ Close

Next == Commit \/ Apply \/ Retain \/ Stop \/ Halted

Spec == Init /\ [][Next]_vars
(* dragonboat keeps opening the replica and handing it committed entries.  *)
FairSpec == Spec /\ WF_vars(Apply)

-----------------------------------------------------------------------------
Batches(seg) == {seg.batches[i] : i \in DOMAIN seg.batches}
Stored == UNION {Batches(segments[i]) : i \in 1 .. Active}
(* The offset the Raft log assigns to entry i.                             *)
OffsetOf(i) == MapThenSumSet(LAMBDA j : raftLog[j].n, 1 .. i - 1)

(* Types of storageImpl, PartitionFSM and the files they keep.             *)
TypeOK ==
    /\ raftLog \in Seq(AppendEntry \cup RetentionEntry)
    /\ segments \in Seq([base : Nat,
                         batches : Seq([base : Nat, n : RecordCount,
                                        ts : Timestamp, idx : 1 .. MaxEntries])])
    /\ segments = <<>> \/ synced \in 0 .. Len(segments[Active].batches)
    /\ sidecar = NoSidecar \/ sidecar \in [index : 1 .. Len(raftLog), latest : Nat]
    /\ pc \in PC
    /\ nextOffset \in Nat
    /\ applied \in 0 .. Len(raftLog)
    /\ updEnd \in 0 .. Len(raftLog)
    /\ cursor \in 0 .. updEnd + 1
    /\ retention \in RetentionConfig \cup {DefaultRetention}
    /\ doomed \subseteq {segments[i].base : i \in 1 .. Active - 1}
    /\ restarts \in 0 .. MaxRestarts
    /\ replayed \in BOOLEAN

(* Replay after any number of crashes puts every batch at the offset its   *)
(* place in the Raft log gives it, once, so that all replicas and the      *)
(* acknowledged base offsets agree (Update, Open and TruncateTo).          *)
OffsetsFollowRaftLog ==
    ~replayed /\ pc # "corrupt" =>
        /\ \A b \in Stored : b.base = OffsetOf(b.idx) /\ b.n = raftLog[b.idx].n
        /\ pc = "idle" => nextOffset = OffsetOf(applied + 1)

(* While the replica serves, each segment ends where the next one starts   *)
(* and the last one ends at nextOffset (roll, TruncateTo,                  *)
(* EnforceRetention).                                                      *)
SegmentsContiguous ==
    pc \in Serving =>
        /\ \A i \in 1 .. Active - 1 : EndOffset(segments[i]) = segments[i + 1].base
        /\ EndOffset(segments[Active]) = nextOffset

OrderedStamps ==
    \A i, j \in DOMAIN raftLog :
        (/\ i < j
         /\ raftLog[i].type = "append"
         /\ raftLog[j].type = "append") => raftLog[i].ts <= raftLog[j].ts

(* Time retention leaves no hole in the log as long as the timestamps that *)
(* producers stamp never go back and nothing was replayed twice            *)
(* (EnforceRetention looks at each segment's successor alone).             *)
NoHoleWithOrderedStamps == ~replayed /\ OrderedStamps => SegmentsContiguous

(* Under the same conditions what the sidecar claims is on stable storage: *)
(* a log can lose only what Raft will replay (persistApplied syncs before  *)
(* it renames, Seal syncs before the next file exists).  Without them a    *)
(* truncation may end in a hole and drop data below the sidecar's offset.  *)
DurableBeforeSidecar ==
    (~replayed /\ OrderedStamps /\ sidecar # NoSidecar /\ pc # "corrupt") =>
        LET seg == segments[Active] IN
        EndOffset([seg EXCEPT !.batches = SubSeq(@, 1, synced)]) >= sidecar.latest

(* Under the same conditions a fetch at any offset from EarliestOffset up  *)
(* to LatestOffset returns data whose first batch covers that offset       *)
(* (storageImpl.Read).                                                     *)
EveryRetainedOffsetReadable ==
    (~replayed /\ OrderedStamps /\ pc \in Serving) =>
        \A o \in segments[1].base .. nextOffset - 1 :
            Read(o) # <<>> /\ Head(Read(o)).base <= o

(* After the last crash the replica catches up with the Raft log, unless   *)
(* its truncation fell below the first retained segment (Open, Update).    *)
CatchesUp == <>[](pc = "corrupt" \/ (pc = "idle" /\ applied = Len(raftLog)))

-----------------------------------------------------------------------------
(* docs/design/03-raft-fsm.md:374 on replay after a crash: the             *)
(* re-application produces the correct data with no duplication.           *)
ReplayNeverDuplicates ==
    \A b \in Stored : b.base = OffsetOf(b.idx)

(* The same claim where a sidecar existed: once TruncateTo has run, the    *)
(* log ends at nextOffset.                                                 *)
TruncationUndoesWrites ==
    pc \in {"idle", "corrupt"} => EndOffset(segments[Active]) = nextOffset

(* REQUIREMENTS.md 3.1.6: retention settings, once applied, govern every   *)
(* later retention cycle.                                                  *)
LastSetting(i) ==
    LET at == {j \in 1 .. i : raftLog[j].type = "retention"}
    IN IF at = {} THEN DefaultRetention ELSE raftLog[Max(at)].cfg
RetentionSettingKept == pc = "idle" => retention = LastSetting(applied)

=============================================================================
