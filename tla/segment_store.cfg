SPECIFICATION Spec
CONSTANTS
  Log <- MCLog
  SegmentMaxBytes = 6
  IndexSampleBytes = 2
  AllocEntries = 4
  Reader = {r1}
  Arg = {2, 3, 6}
  Limit = {1, 5}
  MaxRestarts = 2
  CrashInRemove = FALSE
INVARIANTS IndexFits TimeIndexTight
 
