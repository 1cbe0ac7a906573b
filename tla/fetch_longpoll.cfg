SPECIFICATION FairSpec
CONSTANTS
    Fetcher = {f1}
    MaxOffset = 3
    MaxLeaderMoves = 2
INVARIANTS
    NoLostWakeup
PROPERTY FetchAnswered
