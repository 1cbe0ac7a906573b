-------------------------- MODULE MCLeaderTracking --------------------------
(* Two nodes that both replicate one partition; values for TLC.            *)
EXTENDS LeaderTracking

CONSTANTS n1, n2

MCReplicaSet == {{n1, n2}}
=============================================================================
