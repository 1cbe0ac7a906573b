\* The topic is back before its old shard is stopped.
SPECIFICATION FairSpec
CONSTANTS
    Reconciler = {loop}
    SlowGoroutines = FALSE
    QuickRecreate = TRUE
    MaxShard = 2
    MaxGoroutines = 1
    MaxRestarts = 0
PROPERTY RegistryConverges
