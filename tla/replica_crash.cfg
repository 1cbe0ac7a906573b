\* Crashes and restarts, with retention by size and by time.
SPECIFICATION FairSpec
CONSTANTS
    RecordCount = {1, 2}
    Timestamp = {0, 1}
    RetentionConfig <- TimeSettings
    DefaultRetention <- KeepTwoBytes
    Clock = {0, 2}
    SegmentMaxBytes = 2
    NoSidecar = NoSidecar
    MaxEntries = 4
    MaxUpdate = 2
    MaxRestarts = 2
INVARIANTS TypeOK OffsetsFollowRaftLog DurableBeforeSidecar NoHoleWithOrderedStamps EveryRetainedOffsetReadable
PROPERTY CatchesUp
