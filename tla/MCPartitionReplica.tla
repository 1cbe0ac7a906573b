------------------------ MODULE MCPartitionReplica ------------------------
(* Retention settings for the runs: records cannot be written in a .cfg.   *)
EXTENDS PartitionReplica

Unlimited == [ms |-> 0, bytes |-> -1]
KeepTwoBytes == [ms |-> 0, bytes |-> 2]
KeepNothing == [ms |-> 0, bytes |-> 0]
KeepRecent == [ms |-> 1, bytes |-> -1]

NoSettings == {}
BytesSettings == {KeepNothing}
TimeSettings == {KeepRecent}
=============================================================================
