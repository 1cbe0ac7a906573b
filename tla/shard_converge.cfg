\* A topic deleted and created again; goroutines end within the interval.
SPECIFICATION FairSpec
CONSTANTS
    Reconciler = {loop}
    SlowGoroutines = FALSE
    QuickRecreate = TRUE
    MaxShard = 4
    MaxGoroutines = 1
    MaxRestarts = 2
INVARIANT WantedShardNotStopped
PROPERTY ShardsConverge
