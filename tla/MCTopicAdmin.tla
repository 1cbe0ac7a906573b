---------------------------- MODULE MCTopicAdmin ----------------------------
(* Two admin clients that talk to different nodes, and one topic: a        *)
(* request the coordinator refuses, and one or two of each kind it does    *)
(* not.                                                                    *)
EXTENDS TopicAdmin

CONSTANTS c1, c2, r0, r1, t1

MCReplicaSet == SUBSET NodeID
MCHome == c1 :> 1 @@ c2 :> 2
MCHash == [t \in TopicName |-> 1]
MCRequests ==
    [op : {"create"}, t : {t1}, count : {0}, rf : {2}, ret : {r0}]
    \cup [op : {"create"}, t : {t1}, count : {1}, rf : {2}, ret : {r1}]
    \cup [op : {"create"}, t : {t1}, count : {2}, rf : {2}, ret : {Unset}]
    \cup [op : {"alter"}, t : {t1}, count : {2, 3}]
    \cup [op : {"retention"}, t : {t1}, ret : {r1}]
    \cup [op : {"delete", "describe"}, t : {t1}]
=============================================================================
