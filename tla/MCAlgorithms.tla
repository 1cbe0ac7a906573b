---------------------------- MODULE MCAlgorithms ----------------------------
(***************************************************************************)
(* The pure algorithms on every small input: the placement operators of    *)
(* RangeAssign compared with what an assignment must be, and streams of    *)
(* batches sent through the encoder, the broker and the decoder of         *)
(* BatchCodec.                                                             *)
(***************************************************************************)
EXTENDS RangeAssign, BatchCodec

CONSTANTS
    ID,             \* member or node identifiers
    MaxCount,       \* bound: partitions of a topic
    MaxHash,        \* bound: topic hashes
    MaxRecords      \* bound: records of a stream

ASSUME RangeAssumption == ID \subseteq Nat /\ MaxCount \in Nat /\ MaxHash \in Nat

VARIABLES
    ids, count, hash,   \* the inputs of one call of a placement function
    batch,              \* records the producer gathers
    stream,             \* batches in the log
    sent                \* their records, with the offsets they were given

inputs == <<ids, count, hash>>
codec == <<batch, stream, sent>>

(* Timestamps at both ends of the range, nil, empty and other keys, and    *)
(* lengths of one and of two varint groups.                                *)
NoHeaders == [k \in {} |-> <<>>]
Record ==
    {[ts |-> ts, key |-> NoKey, value |-> <<3>>, headers |-> NoHeaders] :
        ts \in {-2^(Width - 1), -1, 0, 2^(Width - 1) - 1}} \cup
    {[ts |-> 1, key |-> key, value |-> <<>>, headers |-> NoHeaders] :
        key \in {NoKey, <<>>, <<7, 0>>, <<1, 2, 3, 4, 5>>}} \cup
    {[ts |-> 2, key |-> <<0>>, value |-> <<6, 6, 1, 5>>, headers |-> h] :
        h \in {<<1>> :> <<>>, (<<>> :> <<2>>) @@ (<<4, 4>> :> <<0>>)}}

Init ==
    /\ ids \in SUBSET ID \ {{}}
    /\ count \in 0 .. MaxCount
    /\ hash \in 0 .. MaxHash
    /\ batch = <<>> /\ stream = <<>> /\ sent = <<>>

(* A call of the placement functions on other inputs; a stream ends.       *)
Place ==
    /\ \/ ids' \in SUBSET ID \ {{}} /\ UNCHANGED <<count, hash>>
       \/ count' \in 0 .. MaxCount /\ UNCHANGED <<ids, hash>>
       \/ hash' \in 0 .. MaxHash /\ UNCHANGED <<ids, count>>
    /\ batch' = <<>> /\ stream' = <<>> /\ sent' = <<>>

(* The streams are built for one choice of the placement inputs.           *)
Gather ==
    /\ ids = ID /\ count = 0 /\ hash = 0
    /\ Len(sent) + Len(batch) < MaxRecords
    /\ \E r \in Record : batch' = Append(batch, r)
    /\ UNCHANGED <<stream, sent, inputs>>

(* The batch is encoded, validated and appended at the next offset, or     *)
(* rejected.                                                               *)
Send ==
    /\ batch # <<>>
    /\ \E data \in Encodings(batch) :
          IF ValidateBatch(data)
          THEN /\ stream' = stream \o Stamp(data, Len(sent))
               /\ sent' = sent \o [i \in DOMAIN batch |->
                              [offset |-> Len(sent) + i - 1, ts |-> batch[i].ts,
                               key |-> batch[i].key, value |-> batch[i].value,
                               headers |-> batch[i].headers]]
          ELSE UNCHANGED <<stream, sent>>
    /\ batch' = <<>>
    /\ UNCHANGED inputs

Next == Place \/ Gather \/ Send

Spec == Init /\ [][Next]_<<inputs, codec>>

-----------------------------------------------------------------------------
(* Every partition has exactly one owner among the members.                *)
ExactlyOneOwner(a, n) ==
    /\ UNION {a[id] : id \in DOMAIN a} = 0 .. n - 1
    /\ \A x, y \in DOMAIN a : x # y => a[x] \cap a[y] = {}

(* rangeAssign gives each partition to exactly one member, with loads that *)
(* differ by at most one, larger ones first.                               *)
RangeAssignFair ==
    LET a == RangeAssign(ids, count)
    IN  /\ ExactlyOneOwner(a, count)
        /\ \A x, y \in ids : x < y =>
              Cardinality(a[x]) - Cardinality(a[y]) \in {0, 1}

(* rebalance in the metadata state machine also gives each partition to    *)
(* exactly one member, with loads that differ by at most one.              *)
RebalanceFair ==
    LET a == Rebalance(ids, count)
    IN  /\ ExactlyOneOwner(a, count)
        /\ \A x, y \in ids : Cardinality(a[x]) - Cardinality(a[y]) \in -1 .. 1

(* assignReplicas never puts two replicas of a partition on one node, as   *)
(* long as rf does not exceed the nodes (CreateTopic checks that it does   *)
(* not), and spreads the first replicas of a topic's partitions: two nodes *)
(* differ by at most one, whichever node the topic's hash selects.         *)
ReplicasSpread ==
    /\ \A p \in 0 .. MaxCount - 1, rf \in 1 .. Cardinality(ids) :
          Cardinality(ReplicaNodes(ids, hash, p, rf)) = rf
    /\ LET first(id) == {p \in 0 .. count - 1 : AssignReplicas(ids, hash, p, 1)[1] = id}
       IN  \A x, y \in ids : Cardinality(first(x)) - Cardinality(first(y)) \in -1 .. 1

(* What the design says of rebalance: "earlier members get the remainder   *)
(* partition" (docs/design/03-raft-fsm.md).                                *)
RemainderToEarlierMembers ==
    LET a == Rebalance(ids, count)
    IN  \A x, y \in ids : x < y => Cardinality(a[x]) >= Cardinality(a[y])

(* What the consumer decodes is what the producers sent: every record with *)
(* its timestamp, key (nil or not), value and headers, at the offset the   *)
(* broker gave it, although the broker writes the offset into the header   *)
(* after the checksum was taken and headers travel in any order.           *)
RecordsSurvive == Decode(stream) = [ok |-> TRUE, records |-> sent]

(* A log or a response that ends anywhere inside a batch loses that batch  *)
(* and no other: the decoder returns the records before it, and the scan   *)
(* after a crash stops at its first byte with the offset that follows the  *)
(* records kept.                                                           *)
TornTailDropped ==
    \A n \in 0 .. Len(stream) - 1 :
        LET torn == SubSeq(stream, 1, n)
            got == Decode(torn)
            scan == ScanActiveLog(torn, 0, 0)
        IN  /\ IsPrefix(got.records, sent)
            /\ got.ok <=> scan[1] = n
            /\ scan[2] = Len(got.records)
            /\ Decode(SubSeq(torn, 1, scan[1])) = [ok |-> TRUE, records |-> got.records]
            /\ Decode(SubSeq(stream, scan[1] + 1, Len(stream))).ok

=============================================================================
