--------------------------- MODULE MetadataGroups ---------------------------
(***************************************************************************)
(* The consumer-group half of the metadata state machine                   *)
(* (internal/metadata/metadata.go), for one group: the GroupState that the *)
(* group coordinator's commands build.  The coordinator computes an        *)
(* assignment and sends it in the command; the state machine stores it     *)
(* unseen.  The group exists from its first join on, that is, once its     *)
(* generation is not 0; an emptied group is kept for its offsets.          *)
(***************************************************************************)
EXTENDS Integers

CONSTANTS
    Member,         \* member IDs (naturals: assignment sorts them)
    MaxPartitions,  \* bound: partitions of the subscribed topic
    Offset          \* offsets a client may commit

Partition == 0 .. MaxPartitions - 1

VARIABLES
    members,        \* GroupState.Members
    generation,     \* GroupState.GenerationID; 0: no such group yet
    assignments,    \* GroupState.Assignments; {} for an absent member
    offsets         \* GroupState.Offsets; -1 when none is committed

groupVars == <<members, generation, assignments, offsets>>

NoAssignment == [m \in Member |-> {}]

GroupInit ==
    /\ members = {}
    /\ generation = 0
    /\ assignments = NoAssignment
    /\ offsets = [p \in Partition |-> -1]

(* Joining is an upsert; the generation moves even for a known member.     *)
ApplyGroupStateJoin(m, newAssignment) ==
    /\ members' = members \cup {m}
    /\ assignments' = newAssignment
    /\ generation' = generation + 1
    /\ UNCHANGED offsets

(* A member that is not there is an error result and no change.            *)
ApplyGroupStateLeave(m, newAssignment) ==
    IF m \notin members THEN UNCHANGED groupVars
    ELSE /\ members' = members \ {m}
         /\ assignments' = IF members = {m} THEN NoAssignment ELSE newAssignment
         /\ generation' = generation + 1
         /\ UNCHANGED offsets

(* Offsets are overwritten, never compared with the stored ones.           *)
ApplyGroupStateCommitOffset(p, o) ==
    /\ offsets' = IF generation = 0 THEN offsets ELSE [offsets EXCEPT ![p] = o]
    /\ UNCHANGED <<members, generation, assignments>>

=============================================================================
